--------------------------- MODULE ConsoleSession ---------------------------
(* The console's session: access and refresh token in cookies that all tabs of *)
(* the browser share, and in each tab the axios interceptor of                *)
(* lib/api-client.ts, which answers a 401 by exchanging the refresh token and  *)
(* sending the request again.                                                 *)
(*                                                                            *)
(* A pair of tokens is the number of its issue.  The server exchanges a        *)
(* refresh token once (services/auth_service.go); every pair has a family of   *)
(* its own, so that a refused exchange revokes nothing else.  /auth/logout is  *)
(* posted without a token and revokes nothing.                                *)
EXTENDS Integers, Sequences

CONSTANTS
  Tabs,         \* tabs of the browser
  Reqs, TabOf,  \* the requests that may be out, and the tab each belongs to
  None,
  Gone,         \* a page that was closed or loaded again
  MaxMoves,     \* bound: sign-ins, sign-outs and pages opened
  MaxExpired,   \* bound: the pairs whose access token may expire
  MaxFaults     \* bound: exchanges that fail, reloads

ASSUME NamesAssumption == None # Gone /\ {None, Gone} \cap (Tabs \cup Nat) = {}
ASSUME TabOfAssumption == TabOf \in [Reqs -> Tabs]
ASSUME BoundAssumption == {MaxMoves, MaxExpired, MaxFaults} \subseteq Nat

VARIABLES
  cookie,    \* accessToken and refreshToken
  spent,     \* for each pair issued, who exchanged its refresh token
  expired,   \* access tokens up to this one have expired
  page,      \* per tab: "login" or "app"
  exchange,  \* per tab: the promise `refreshing'
  req,       \* per request: where it is, its token, and _retry
  moves, faults

vars == <<cookie, spent, expired, page, exchange, req, moves, faults>>

Tokens == 1..Len(spent)
NoCookies == [access |-> None, refresh |-> None]
Pair(k) == [access |-> k, refresh |-> k]

NoExchange == [pc |-> "idle", token |-> None, new |-> None]
NoReq == [pc |-> "idle", token |-> None, again |-> FALSE]
SentWith(k, again) == [pc |-> "sent", token |-> k, again |-> again]

Init ==
  /\ cookie = NoCookies /\ spent = <<>> /\ expired = 0
  /\ page = [t \in Tabs |-> "login"]
  /\ exchange = [t \in Tabs |-> NoExchange]
  /\ req = [r \in Reqs |-> NoReq]
  /\ moves = 0 /\ faults = 0

Move == moves < MaxMoves /\ moves' = moves + 1
Fault == faults < MaxFaults /\ faults' = faults + 1

-----------------------------------------------------------------------------
(* Pages. *)

(* setAuth after login, registration or the SSO exchange, then /dashboard. *)
SignIn(t) ==
  /\ page[t] = "login" /\ Move
  /\ spent' = Append(spent, None)
  /\ cookie' = Pair(Len(spent'))
  /\ page' = [page EXCEPT ![t] = "app"]
  /\ UNCHANGED <<expired, exchange, req, faults>>

(* The dashboard's frame lets a page in that finds both cookies. *)
Admitted == None \notin {cookie.access, cookie.refresh}

Open(t) ==
  /\ page[t] = "login" /\ Admitted /\ Move
  /\ page' = [page EXCEPT ![t] = "app"]
  /\ UNCHANGED <<cookie, spent, expired, exchange, req, faults>>

(* A navigation that leaves the page's requests behind.  The server may yet    *)
(* exchange a token for it.                                                   *)
Unload(t) ==
  LET x == exchange[t]
      left == [k \in DOMAIN spent |-> IF spent[k] = t THEN Gone ELSE spent[k]]
  IN /\ req' = [r \in Reqs |-> IF TabOf[r] = t THEN NoReq ELSE req[r]]
     /\ exchange' = [exchange EXCEPT ![t] = NoExchange]
     /\ \/ spent' = left
        \/ /\ x.pc \in {"posted", "checked"} /\ spent[x.token] = None
           /\ spent' = [left EXCEPT ![x.token] = Gone]

Reload(t) ==
  /\ page[t] = "app" /\ Fault
  /\ Unload(t)
  /\ page' = [page EXCEPT ![t] = IF Admitted THEN "app" ELSE "login"]
  /\ UNCHANGED <<cookie, expired, moves>>

(* handleLogout: the router leaves for /login, and what is in flight goes on. *)
SignOut(t) ==
  /\ page[t] = "app" /\ Move
  /\ cookie' = NoCookies
  /\ page' = [page EXCEPT ![t] = "login"]
  /\ UNCHANGED <<spent, expired, exchange, req, faults>>

(* forceLogout loads /login.  If that is the page already, it stays, and the   *)
(* requests rs are rejected; x is what the page is refreshing then.           *)
ForceLogout(t, rs, x) ==
  /\ cookie' = NoCookies
  /\ page' = [page EXCEPT ![t] = "login"]
  /\ \/ page[t] = "app" /\ Unload(t)
     \/ /\ page[t] = "login"
        /\ req' = [r \in Reqs |-> IF r \in rs THEN NoReq ELSE req[r]]
        /\ exchange' = [exchange EXCEPT ![t] = x]
        /\ UNCHANGED spent
  /\ UNCHANGED <<expired, moves, faults>>

-----------------------------------------------------------------------------
(* Requests. *)

Ask(r) ==
  /\ page[TabOf[r]] = "app" /\ req[r].pc = "idle"
  /\ req' = [req EXCEPT ![r] = SentWith(cookie.access, FALSE)]
  /\ UNCHANGED <<cookie, spent, expired, page, exchange, moves, faults>>

(* The server accepts the access token until it expires. *)
Answer(r) ==
  LET k == req[r].token IN
  /\ req[r].pc = "sent"
  /\ req' = [req EXCEPT ![r] = IF k # None /\ k > expired THEN NoReq
                                  ELSE [@ EXCEPT !.pc = "denied", !.token = None]]
  /\ UNCHANGED <<cookie, spent, expired, page, exchange, moves, faults>>

(* The response interceptor. *)
Reject(r) ==
  /\ req[r].pc = "denied" /\ req[r].again
  /\ req' = [req EXCEPT ![r] = NoReq]
  /\ UNCHANGED <<cookie, spent, expired, page, exchange, moves, faults>>

TryRefreshAlways(r) ==
  /\ req[r].pc = "denied" /\ ~req[r].again
  /\ cookie.refresh # None
  /\ req' = [req EXCEPT ![r].pc = "waiting", ![r].again = TRUE]
  /\ exchange' = [exchange EXCEPT ![TabOf[r]] =
                    [NoExchange EXCEPT !.pc = "posted", !.token = cookie.refresh]]
  /\ UNCHANGED <<cookie, spent, expired, page, moves, faults>>

TryRefresh(r) ==
  /\ req[r].pc = "denied" /\ ~req[r].again
  /\ cookie.refresh # None
  /\ req' = [req EXCEPT ![r].pc = "waiting", ![r].again = TRUE]
  /\ exchange' = [exchange EXCEPT ![TabOf[r]] =
                    IF @.pc # "idle" THEN @
                    ELSE [NoExchange EXCEPT !.pc = "posted", !.token = cookie.refresh]]
  /\ UNCHANGED <<cookie, spent, expired, page, moves, faults>>

NothingToRefresh(r) ==
  /\ req[r].pc = "denied" /\ ~req[r].again
  /\ cookie.refresh = None
  /\ ForceLogout(TabOf[r], {r}, exchange[TabOf[r]])

-----------------------------------------------------------------------------
(* The exchange: two statements on the server, then the tab's continuation. *)

Check(t) ==
  /\ exchange[t].pc = "posted"
  /\ exchange' = [exchange EXCEPT ![t].pc =
                    IF spent[exchange[t].token] = None THEN "checked" ELSE "refused"]
  /\ UNCHANGED <<cookie, spent, expired, page, req, moves, faults>>

Issue(t) ==
  /\ exchange[t].pc = "checked"
  /\ spent' = Append([spent EXCEPT ![exchange[t].token] = t], None)
  /\ exchange' = [exchange EXCEPT ![t].pc = "issued", ![t].new = Len(spent')]
  /\ UNCHANGED <<cookie, expired, page, req, moves, faults>>

(* Lost on the way there or back. *)
ExchangeFails(t) ==
  /\ exchange[t].pc \in {"posted", "issued"} /\ Fault
  /\ exchange' = [exchange EXCEPT ![t].pc = "refused", ![t].new = None]
  /\ UNCHANGED <<cookie, spent, expired, page, req, moves>>

Waiting(t) == {r \in Reqs : TabOf[r] = t /\ req[r].pc = "waiting"}

RefreshedOne(t) ==
  /\ exchange[t].pc = "issued"
  /\ cookie' = Pair(exchange[t].new)
  /\ \E w \in Waiting(t) : req' = [req EXCEPT ![w] = SentWith(exchange[t].new, TRUE)]
  /\ exchange' = [exchange EXCEPT ![t] = NoExchange]
  /\ UNCHANGED <<spent, expired, page, moves, faults>>

RefreshedUnsaved(t) ==
  /\ exchange[t].pc = "issued"
  /\ req' = [r \in Reqs |-> IF r \in Waiting(t) THEN SentWith(exchange[t].new, TRUE)
                             ELSE req[r]]
  /\ exchange' = [exchange EXCEPT ![t] = NoExchange]
  /\ UNCHANGED <<cookie, spent, expired, page, moves, faults>>

RefreshedStill(t) ==
  /\ exchange[t].pc = "issued"
  /\ cookie' = Pair(exchange[t].new)
  /\ req' = [r \in Reqs |-> IF r \in Waiting(t) THEN SentWith(exchange[t].new, TRUE)
                             ELSE req[r]]
  /\ UNCHANGED <<spent, expired, page, exchange, moves, faults>>

Refreshed(t) ==
  /\ exchange[t].pc = "issued"
  /\ cookie' = Pair(exchange[t].new)
  /\ req' = [r \in Reqs |-> IF r \in Waiting(t) THEN SentWith(exchange[t].new, TRUE)
                             ELSE req[r]]
  /\ exchange' = [exchange EXCEPT ![t] = NoExchange]
  /\ UNCHANGED <<spent, expired, page, moves, faults>>

NotRefreshed(t) ==
  /\ exchange[t].pc = "refused"
  /\ ForceLogout(t, Waiting(t), NoExchange)

-----------------------------------------------------------------------------
(* Time. *)

Expire ==
  /\ expired' \in (expired + 1)..Len(spent) /\ expired' <= MaxExpired
  /\ UNCHANGED <<cookie, spent, page, exchange, req, moves, faults>>

CookieUndefined ==
  /\ cookie.access # None /\ cookie.access <= expired
  /\ cookie' = [cookie EXCEPT !.access = Gone]
  /\ UNCHANGED <<spent, expired, page, exchange, req, moves, faults>>

(* The browser keeps the access cookie for a day, the token lasts less. *)
CookieExpires ==
  /\ cookie.access # None /\ cookie.access <= expired
  /\ cookie' = [cookie EXCEPT !.access = None]
  /\ UNCHANGED <<spent, expired, page, exchange, req, moves, faults>>

-----------------------------------------------------------------------------
PageStep(t) == SignIn(t) \/ Open(t) \/ Reload(t) \/ SignOut(t)

RequestStep(r) ==
  Ask(r) \/ Answer(r) \/ Reject(r) \/ TryRefresh(r) \/ NothingToRefresh(r)

ExchangeStep(t) ==
  Check(t) \/ Issue(t) \/ ExchangeFails(t) \/ Refreshed(t) \/ NotRefreshed(t)

Next ==
  \/ \E t \in Tabs : PageStep(t) \/ ExchangeStep(t)
  \/ \E r \in Reqs : RequestStep(r)
  \/ Expire \/ CookieExpires

(* Requests end: the axios instance gives one up after 30 s, which ends it as  *)
(* an answer does, and the interceptor runs on a 401. Of the exchange nothing *)
(* is assumed: it is posted by the global axios, which has no timeout, so that *)
(* it may stay unanswered for ever.                                           *)
Fairness ==
  \A r \in Reqs : /\ WF_vars(Answer(r)) /\ WF_vars(Reject(r))
                  /\ WF_vars(TryRefresh(r)) /\ WF_vars(NothingToRefresh(r))

Spec == Init /\ [][Next]_vars /\ Fairness

-----------------------------------------------------------------------------
Cookies == [access : Nat \cup {None}, refresh : Nat \cup {None}]
Exchanges == [pc : {"idle", "posted", "checked", "issued", "refused"},
              token : Nat \cup {None}, new : Nat \cup {None}]
Requests == [pc : {"idle", "sent", "denied", "waiting"}, token : Nat \cup {None},
             again : BOOLEAN]

TypeOK ==
  /\ cookie \in Cookies /\ spent \in Seq(Tabs \cup {None, Gone}) /\ expired \in Nat
  /\ page \in [Tabs -> {"login", "app"}]
  /\ exchange \in [Tabs -> Exchanges]
  /\ req \in [Reqs -> Requests]
  /\ moves \in 0..MaxMoves /\ faults \in 0..MaxFaults

(* A page never posts a refresh token that it has exchanged before, however    *)
(* many of its requests are denied at once, before, during or after an         *)
(* exchange, and whatever other tabs and the user do.                         *)
NoOwnReuse ==
  \A t \in Tabs : exchange[t].pc \in {"posted", "checked"} => spent[exchange[t].token] # t

(* A refresh token in the cookie that a page has exchanged is about to be       *)
(* replaced or removed: the continuation of that page's exchange is still to   *)
(* run. Otherwise the next 401 of any page would sign the browser out.        *)
SpentTokenLeaves ==
  \A t \in Tabs : cookie.refresh # None /\ spent[cookie.refresh] = t
                   => exchange[t].pc \in {"issued", "refused"}

(* A request that awaits an exchange belongs to a page that is in one: what    *)
(* ends the exchange resumes or rejects every request that shares its promise, *)
(* also those that joined it late.                                            *)
WaitersServed == \A r \in Reqs : req[r].pc = "waiting" => exchange[TabOf[r]].pc # "idle"

(* An exchange under way always has a request waiting for it, so that its     *)
(* failure is noticed.                                                        *)
ExchangeAwaited == \A t \in Tabs : exchange[t].pc # "idle" => Waiting(t) # {}

(* Nothing but an exchange that is never answered keeps a request from its     *)
(* end: in a tab in which every exchange comes to an end, whatever end, every  *)
(* request does, those that joined an exchange late and those that are denied  *)
(* a second time included.                                                    *)
Settles ==
  \A r \in Reqs :
    []<>(exchange[TabOf[r]].pc = "idle") => (req[r].pc # "idle" ~> req[r].pc = "idle")
=============================================================================
