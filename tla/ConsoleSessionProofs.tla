------------------------ MODULE ConsoleSessionProofs ------------------------
(* Proofs about ConsoleSession for any number of tabs and requests.            *)
EXTENDS ConsoleSession, TLAPS

-----------------------------------------------------------------------------
(* Type correctness. *)

LEMMA NoReqType == NoReq \in Requests
BY DEF NoReq, Requests

LEMMA NoExchangeType == NoExchange \in Exchanges
BY DEF NoExchange, Exchanges

LEMMA NoCookiesType == NoCookies \in Cookies
BY DEF NoCookies, Cookies

LEMMA PairType == ASSUME NEW k \in Nat PROVE Pair(k) \in Cookies
BY DEF Pair, Cookies

LEMMA SentWithType ==
  ASSUME NEW k \in Nat \cup {None}, NEW b \in BOOLEAN
  PROVE  SentWith(k, b) \in Requests
BY DEF SentWith, Requests

LEMMA CountUp == \A n \in Nat : \A i \in 0..n : i < n => i + 1 \in 0..n
OBVIOUS

LEMMA MoveType == ASSUME moves \in 0..MaxMoves, Move PROVE moves' \in 0..MaxMoves
BY CountUp, BoundAssumption DEF Move

LEMMA FaultType == ASSUME faults \in 0..MaxFaults, Fault PROVE faults' \in 0..MaxFaults
BY CountUp, BoundAssumption DEF Fault

LEMMA TypeInit == Init => TypeOK
BY NoReqType, NoExchangeType, NoCookiesType, BoundAssumption DEF Init, TypeOK

(* Who spent a token is written over. *)
LEMMA SeqExcept ==
  ASSUME NEW S, NEW s \in Seq(S), NEW k, NEW v \in S
  PROVE  [s EXCEPT ![k] = v] \in Seq(S) /\ Len([s EXCEPT ![k] = v]) = Len(s)
<1>1. s \in [1..Len(s) -> S] /\ Len(s) \in Nat /\ DOMAIN s = 1..Len(s)
  OBVIOUS
<1>2. [s EXCEPT ![k] = v] \in [1..Len(s) -> S]
  BY <1>1
<1> HIDE <1>1
<1> QED BY <1>1, <1>2

(* What leaving a page does to the tokens it spent. *)
LEMMA UnloadType ==
  ASSUME TypeOK, NEW t \in Tabs, Unload(t)
  PROVE  /\ spent' \in Seq(Tabs \cup {None, Gone}) /\ Len(spent') = Len(spent)
         /\ exchange' \in [Tabs -> Exchanges] /\ req' \in [Reqs -> Requests]
<1> DEFINE S == Tabs \cup {None, Gone}
           left == [k \in DOMAIN spent |-> IF spent[k] = t THEN Gone ELSE spent[k]]
<1> USE DEF TypeOK
<1>1. left \in Seq(S) /\ Len(left) = Len(spent)
  <2>1. spent \in [1..Len(spent) -> S] /\ DOMAIN spent = 1..Len(spent) /\ Len(spent) \in Nat
    OBVIOUS
  <2>2. left \in [1..Len(spent) -> S]
    BY <2>1
  <2> QED BY <2>1, <2>2
<1>2. \/ spent' = left
      \/ spent' = [left EXCEPT ![exchange[t].token] = Gone]
  BY DEF Unload
<1> HIDE DEF left
<1>3. spent' \in Seq(S) /\ Len(spent') = Len(spent)
  BY <1>1, <1>2, SeqExcept
<1> QED BY <1>3, NoExchangeType, NoReqType DEF Unload

LEMMA ForceLogoutType ==
  ASSUME TypeOK, NEW t \in Tabs, NEW rs \in SUBSET Reqs, NEW x \in Exchanges,
         ForceLogout(t, rs, x)
  PROVE  TypeOK'
<1>1. CASE page[t] = "app" /\ Unload(t)
  BY <1>1, UnloadType, NoCookiesType DEF ForceLogout, TypeOK
<1>2. CASE page[t] = "login" /\ UNCHANGED spent
           /\ req' = [r \in Reqs |-> IF r \in rs THEN NoReq ELSE req[r]]
           /\ exchange' = [exchange EXCEPT ![t] = x]
  BY <1>2, NoCookiesType, NoReqType DEF ForceLogout, TypeOK
<1> QED BY <1>1, <1>2 DEF ForceLogout

LEMMA TypePage ==
  ASSUME TypeOK, NEW t \in Tabs, PageStep(t)
  PROVE  TypeOK'
<1> USE DEF TypeOK
<1>1. CASE SignIn(t)
  <2>1. Len(Append(spent, None)) \in Nat
    OBVIOUS
  <2> QED BY <1>1, <2>1, PairType, MoveType DEF SignIn
<1>2. CASE Open(t)
  BY <1>2, MoveType DEF Open
<1>3. CASE Reload(t)
  BY <1>3, UnloadType, FaultType DEF Reload
<1>4. CASE SignOut(t)
  BY <1>4, MoveType, NoCookiesType DEF SignOut
<1> QED BY <1>1, <1>2, <1>3, <1>4 DEF PageStep

LEMMA TypeRequest ==
  ASSUME TypeOK, NEW r \in Reqs, RequestStep(r)
  PROVE  TypeOK'
<1> USE DEF TypeOK
<1>1. CASE Ask(r)
  BY <1>1, SentWithType DEF Ask, Cookies
<1>2. CASE Answer(r)
  BY <1>2, NoReqType DEF Answer, Requests
<1>3. CASE Reject(r)
  BY <1>3, NoReqType DEF Reject
<1>4. CASE TryRefresh(r)
  <2> DEFINE t == TabOf[r]
             x == IF exchange[t].pc # "idle" THEN exchange[t]
                  ELSE [NoExchange EXCEPT !.pc = "posted", !.token = cookie.refresh]
  <2>1. t \in Tabs
    BY TabOfAssumption
  <2>2. x \in Exchanges
    BY <2>1, <1>4 DEF TryRefresh, NoExchange, Exchanges, Cookies
  <2>3. exchange' = [exchange EXCEPT ![t] = x]
    BY <1>4, <2>1 DEF TryRefresh
  <2>4. req' \in [Reqs -> Requests]
    BY <1>4 DEF TryRefresh, Requests
  <2>5. UNCHANGED <<cookie, spent, expired, page, moves, faults>>
    BY <1>4 DEF TryRefresh
  <2> HIDE DEF x, t
  <2>6. exchange' \in [Tabs -> Exchanges]
    BY <2>1, <2>2, <2>3
  <2> QED BY <2>4, <2>5, <2>6
<1>5. CASE NothingToRefresh(r)
  BY <1>5, ForceLogoutType, TabOfAssumption DEF NothingToRefresh
<1> QED BY <1>1, <1>2, <1>3, <1>4, <1>5 DEF RequestStep

LEMMA TypeExchange ==
  ASSUME TypeOK, NEW t \in Tabs, ExchangeStep(t)
  PROVE  TypeOK'
<1> USE DEF TypeOK
<1>1. CASE Check(t)
  BY <1>1 DEF Check, Exchanges
<1>2. CASE Issue(t)
  <2>1. spent' \in Seq(Tabs \cup {None, Gone}) /\ Len(spent') \in Nat
    <3>1. [spent EXCEPT ![exchange[t].token] = t] \in Seq(Tabs \cup {None, Gone})
      BY SeqExcept
    <3> QED BY <1>2, <3>1 DEF Issue
  <2>2. exchange' \in [Tabs -> Exchanges]
    <3> DEFINE x == [exchange[t] EXCEPT !.pc = "issued", !.new = Len(spent')]
    <3>1. x \in Exchanges
      BY <2>1 DEF Exchanges
    <3>2. exchange' = [exchange EXCEPT ![t] = x]
      BY <1>2 DEF Issue
    <3> HIDE DEF x
    <3> QED BY <3>1, <3>2
  <2>3. UNCHANGED <<cookie, expired, page, req, moves, faults>>
    BY <1>2 DEF Issue
  <2> QED BY <2>1, <2>2, <2>3
<1>3. CASE ExchangeFails(t)
  BY <1>3, FaultType DEF ExchangeFails, Exchanges
<1>4. CASE Refreshed(t)
  <2>1. exchange[t].new \in Nat \cup {None}
    BY DEF Exchanges
  <2>2. cookie' \in Cookies
    BY <1>4, <2>1 DEF Refreshed, Pair, Cookies
  <2> QED BY <1>4, <2>1, <2>2, SentWithType, NoExchangeType DEF Refreshed
<1>5. CASE NotRefreshed(t)
  BY <1>5, ForceLogoutType, NoExchangeType DEF NotRefreshed, Waiting
<1> QED BY <1>1, <1>2, <1>3, <1>4, <1>5 DEF ExchangeStep

LEMMA TypeNext == TypeOK /\ [Next]_vars => TypeOK'
<1> SUFFICES ASSUME TypeOK, [Next]_vars PROVE TypeOK'
  OBVIOUS
<1>1. CASE Expire
  BY <1>1 DEF Expire, TypeOK
<1>2. CASE CookieExpires
  BY <1>2 DEF CookieExpires, TypeOK, Cookies
<1>3. CASE UNCHANGED vars
  BY <1>3 DEF vars, TypeOK
<1> QED BY <1>1, <1>2, <1>3, TypePage, TypeRequest, TypeExchange DEF Next

(* The cookies, the tokens' records, the tabs' exchanges and the requests keep *)
(* their types.                                                               *)
THEOREM TypeCorrect == Spec => []TypeOK
BY TypeInit, TypeNext, PTL DEF Spec

-----------------------------------------------------------------------------
(* No page posts a token it spent.  The cookie holds a token of the page only  *)
(* until the page's continuation runs, and until then the exchange is not      *)
(* idle; the token that will replace it is known to nobody else.              *)

Known ==
  /\ cookie.refresh # None => cookie.refresh \in Tokens
  /\ \A t \in Tabs : exchange[t].pc # "idle" => exchange[t].token \in Tokens

(* The answer of an exchange: issued, unspent, and nowhere but in the answer. *)
Fresh ==
  \A t \in Tabs : exchange[t].pc = "issued" =>
    /\ exchange[t].new \in Tokens /\ spent[exchange[t].new] = None
    /\ exchange[t].new # cookie.refresh
    /\ \A u \in Tabs :
         /\ exchange[u].pc # "idle" => exchange[u].token # exchange[t].new
         /\ exchange[u].pc = "issued" /\ u # t => exchange[u].new # exchange[t].new

IInv == TypeOK /\ Known /\ Fresh /\ SpentTokenLeaves /\ NoOwnReuse

LEMMA InitIInv == Init => IInv
BY TypeInit DEF Init, IInv, Known, Fresh, SpentTokenLeaves, NoOwnReuse, NoCookies, NoExchange

(* A page that is left: its exchange is forgotten, an unspent token may become *)
(* Gone, and nothing else is spent.                                           *)
LEMMA UnloadSpends ==
  ASSUME TypeOK, Fresh, NEW t \in Tabs, Unload(t)
  PROVE  /\ Tokens' = Tokens
         /\ exchange' = [exchange EXCEPT ![t] = NoExchange]
         /\ \A k \in Tokens : /\ spent'[k] # t
                              /\ spent'[k] \in {spent[k], Gone}
         /\ \A u \in Tabs \ {t} : exchange[u].pc = "issued" =>
                                    spent'[exchange[u].new] = None
<1> DEFINE left == [k \in DOMAIN spent |-> IF spent[k] = t THEN Gone ELSE spent[k]]
<1>1. Tokens' = Tokens
  BY UnloadType DEF Tokens
<1>2. DOMAIN left = Tokens /\ Gone # t /\ None # t
  BY NamesAssumption DEF TypeOK, Tokens
<1>3. \A k \in Tokens : left[k] # t /\ left[k] \in {spent[k], Gone}
                        /\ (spent[k] = None => left[k] = None)
  BY <1>2
<1>4. \/ spent' = left
      \/ exchange[t].pc # "idle" /\ spent' = [left EXCEPT ![exchange[t].token] = Gone]
  BY DEF Unload
<1>5. \A k \in Tokens : spent'[k] # t /\ spent'[k] \in {spent[k], Gone}
  <2> HIDE DEF left
  <2> QED BY <1>2, <1>3, <1>4
<1>6. ASSUME NEW u \in Tabs \ {t}, exchange[u].pc = "issued"
      PROVE  spent'[exchange[u].new] = None
  <2>1. exchange[u].new \in Tokens /\ spent[exchange[u].new] = None
    BY <1>6 DEF Fresh
  <2>2. exchange[t].pc # "idle" => exchange[t].token # exchange[u].new
    BY <1>6 DEF Fresh
  <2> HIDE DEF left
  <2> QED BY <1>2, <1>3, <1>4, <2>1, <2>2
<1>7. exchange' = [exchange EXCEPT ![t] = NoExchange]
  BY DEF Unload
<1> QED BY <1>1, <1>5, <1>6, <1>7

(* Removing the cookies and leaving the page. *)
LEMMA UnloadIInv ==
  ASSUME IInv, TypeOK', NEW t \in Tabs, Unload(t),
         cookie' = cookie \/ cookie' = NoCookies
  PROVE  IInv'
<1> USE DEF IInv
<1>1. \A u \in Tabs : exchange'[u] = IF u = t THEN NoExchange ELSE exchange[u]
  BY UnloadSpends DEF TypeOK
<1>2. /\ Tokens' = Tokens
      /\ \A k \in Tokens : spent'[k] # t /\ spent'[k] \in {spent[k], Gone}
      /\ \A u \in Tabs \ {t} : exchange[u].pc = "issued" => spent'[exchange[u].new] = None
  BY UnloadSpends
<1>3. cookie'.refresh \in {cookie.refresh, None}
  BY DEF NoCookies
<1>4. Gone \notin Tabs /\ None # Gone /\ NoExchange.pc = "idle" /\ None \notin Nat
  BY NamesAssumption DEF NoExchange
<1>5. Tokens \subseteq Nat
  BY DEF Tokens
<1>6. Known'
  BY <1>1, <1>2, <1>3, <1>4 DEF Known
<1>7. Fresh'
  <2> SUFFICES ASSUME NEW u \in Tabs, exchange'[u].pc = "issued"
               PROVE  /\ exchange'[u].new \in Tokens' /\ spent'[exchange'[u].new] = None
                      /\ exchange'[u].new # cookie'.refresh
                      /\ \A w \in Tabs :
                           /\ exchange'[w].pc # "idle" => exchange'[w].token # exchange'[u].new
                           /\ exchange'[w].pc = "issued" /\ w # u =>
                                exchange'[w].new # exchange'[u].new
    BY DEF Fresh
  <2>1. u # t /\ exchange'[u] = exchange[u]
    BY <1>1, <1>4
  <2>2. exchange[u].new \in Tokens /\ spent'[exchange[u].new] = None
    BY <2>1, <1>2 DEF Fresh
  <2>3. exchange[u].pc = "issued" /\ exchange[u].new # cookie.refresh
    BY <2>1 DEF Fresh
  <2>4. exchange[u].new # None
    BY <2>2, <1>4, <1>5
  <2>5. ASSUME NEW w \in Tabs
        PROVE  /\ exchange'[w].pc # "idle" => exchange'[w].token # exchange[u].new
               /\ exchange'[w].pc = "issued" /\ w # u => exchange'[w].new # exchange[u].new
    <3>1. CASE w = t
      BY <3>1, <1>1, <1>4
    <3>2. CASE w # t
      <4>1. exchange'[w] = exchange[w]
        BY <3>2, <1>1
      <4> QED BY <4>1, <2>3 DEF Fresh
    <3> QED BY <3>1, <3>2
  <2> QED BY <2>1, <2>2, <2>3, <2>4, <2>5, <1>2, <1>3
<1>8. SpentTokenLeaves'
  BY <1>1, <1>2, <1>3, <1>4 DEF SpentTokenLeaves, Known
<1>9. NoOwnReuse'
  BY <1>1, <1>2, <1>4 DEF NoOwnReuse, Known
<1> QED BY <1>6, <1>7, <1>8, <1>9

LEMMA ForceLogoutIInv ==
  ASSUME IInv, TypeOK', NEW t \in Tabs, NEW rs, NEW x \in {exchange[t], NoExchange},
         ForceLogout(t, rs, x)
  PROVE  IInv'
<1>1. CASE Unload(t)
  BY <1>1, UnloadIInv DEF ForceLogout
<1>2. CASE UNCHANGED spent /\ exchange' = [exchange EXCEPT ![t] = x]
  <2>1. \A u \in Tabs : exchange'[u] = exchange[u] \/ exchange'[u] = NoExchange
    BY <1>2 DEF IInv, TypeOK
  <2>2. cookie'.refresh = None /\ NoExchange.pc = "idle" /\ UNCHANGED spent /\ Tokens' = Tokens
    BY <1>2 DEF ForceLogout, NoCookies, NoExchange, Tokens
  <2>3. None \notin Tokens
    BY NamesAssumption DEF Tokens
  <2> QED BY <2>1, <2>2, <2>3 DEF IInv, Known, Fresh, SpentTokenLeaves, NoOwnReuse
<1> QED BY <1>1, <1>2 DEF ForceLogout

(* Steps that change neither the refresh token of the cookie nor an exchange. *)
LEMMA QuietIInv ==
  ASSUME IInv, TypeOK', UNCHANGED <<spent, exchange>>, cookie'.refresh \in {cookie.refresh, None}
  PROVE  IInv'
<1>1. Tokens' = Tokens /\ None \notin Tokens
  BY NamesAssumption DEF Tokens
<1> QED BY <1>1 DEF IInv, Known, Fresh, SpentTokenLeaves, NoOwnReuse

LEMMA SignInIInv ==
  ASSUME IInv, TypeOK', NEW t \in Tabs, SignIn(t)
  PROVE  IInv'
<1> DEFINE n == Len(spent) + 1
<1> USE DEF IInv
<1>1. /\ spent \in Seq(Tabs \cup {None, Gone}) /\ Len(spent) \in Nat
      /\ spent' = Append(spent, None) /\ UNCHANGED exchange
  BY DEF SignIn, TypeOK
<1>2. Len(spent') = n /\ spent'[n] = None
      /\ \A k \in 1..Len(spent) : spent'[k] = spent[k]
  BY <1>1
<1>3. cookie'.refresh = n
  BY <1>2 DEF SignIn, Pair
<1>4. Tokens = 1..Len(spent) /\ Tokens' = 1..n /\ n \notin Tokens /\ n \in Tokens'
      /\ Tokens \subseteq Tokens'
  BY <1>1, <1>2 DEF Tokens
<1>5. None \notin Tabs
  BY NamesAssumption
<1> HIDE DEF n
<1>6. Known'
  BY <1>1, <1>3, <1>4 DEF Known
<1>7. Fresh'
  BY <1>1, <1>2, <1>3, <1>4 DEF Fresh
<1>8. SpentTokenLeaves'
  BY <1>2, <1>3, <1>5 DEF SpentTokenLeaves
<1>9. NoOwnReuse'
  BY <1>1, <1>2, <1>4 DEF NoOwnReuse, Known
<1> QED BY <1>6, <1>7, <1>8, <1>9

LEMMA TryRefreshIInv ==
  ASSUME IInv, TypeOK', NEW r \in Reqs, TryRefresh(r)
  PROVE  IInv'
<1> DEFINE t == TabOf[r]
           x == [NoExchange EXCEPT !.pc = "posted", !.token = cookie.refresh]
<1> USE DEF IInv
<1>0. t \in Tabs
  BY TabOfAssumption
<1>1. UNCHANGED <<cookie, spent>> /\ Tokens' = Tokens /\ cookie.refresh # None
  BY DEF TryRefresh, Tokens
<1>2. x.pc = "posted" /\ x.token = cookie.refresh
  BY DEF NoExchange
<1>3. exchange' = [exchange EXCEPT ![t] = IF exchange[t].pc # "idle" THEN exchange[t] ELSE x]
  BY <1>0 DEF TryRefresh
<1> HIDE DEF x, t
<1>4. \A u \in Tabs : \/ exchange'[u] = exchange[u]
                      \/ u = t /\ exchange[t].pc = "idle" /\ exchange'[t] = x
  BY <1>0, <1>3 DEF TypeOK
<1>6. Known'
  BY <1>1, <1>2, <1>4 DEF Known
<1>7. Fresh'
  BY <1>1, <1>2, <1>4 DEF Fresh
<1>8. SpentTokenLeaves'
  BY <1>1, <1>2, <1>4 DEF SpentTokenLeaves
<1>9. NoOwnReuse'
  BY <1>0, <1>1, <1>2, <1>4 DEF NoOwnReuse, SpentTokenLeaves
<1> QED BY <1>6, <1>7, <1>8, <1>9

LEMMA CheckIInv ==
  ASSUME IInv, TypeOK', NEW t \in Tabs, Check(t) \/ ExchangeFails(t)
  PROVE  IInv'
<1> USE DEF IInv
<1>1. UNCHANGED <<cookie, spent>> /\ Tokens' = Tokens
  BY DEF Check, ExchangeFails, Tokens
<1>2. \A u \in Tabs \ {t} : exchange'[u] = exchange[u]
  BY DEF Check, ExchangeFails, TypeOK
<1>3. /\ exchange'[t].token = exchange[t].token
      /\ \/ exchange[t].pc = "posted" /\ exchange'[t].pc \in {"checked", "refused"}
         \/ exchange[t].pc = "issued" /\ exchange'[t].pc = "refused"
  BY DEF Check, ExchangeFails, TypeOK, Exchanges
<1>6. Known'
  BY <1>1, <1>2, <1>3 DEF Known
<1>7. Fresh'
  BY <1>1, <1>2, <1>3 DEF Fresh
<1>8. SpentTokenLeaves'
  BY <1>1, <1>2, <1>3 DEF SpentTokenLeaves
<1>9. NoOwnReuse'
  BY <1>1, <1>2, <1>3 DEF NoOwnReuse
<1> QED BY <1>6, <1>7, <1>8, <1>9

LEMMA IssueIInv ==
  ASSUME IInv, TypeOK', NEW t \in Tabs, Issue(t)
  PROVE  IInv'
<1> DEFINE n == Len(spent) + 1
           tok == exchange[t].token
           mid == [spent EXCEPT ![tok] = t]
<1> USE DEF IInv
<1>1. mid \in Seq(Tabs \cup {None, Gone}) /\ Len(mid) = Len(spent) /\ Len(spent) \in Nat
  <2>1. spent \in Seq(Tabs \cup {None, Gone}) /\ t \in Tabs \cup {None, Gone}
    BY DEF TypeOK
  <2> HIDE DEF tok
  <2> QED BY <2>1, SeqExcept
<1>2. tok \in Tokens /\ exchange[t].pc = "checked" /\ UNCHANGED cookie
  BY DEF Issue, Known
<1>3. \A k \in Tokens : mid[k] = IF k = tok THEN t ELSE spent[k]
  BY DEF Tokens, TypeOK
<1>4. spent' = Append(mid, None)
  BY DEF Issue
<1>5. Len(spent') = n /\ spent'[n] = None /\ \A k \in Tokens : spent'[k] = mid[k]
  <2> HIDE DEF mid
  <2> QED BY <1>1, <1>4 DEF Tokens
<1>6. Tokens' = 1..n /\ n \notin Tokens /\ n \in Tokens' /\ Tokens \subseteq Tokens'
  BY <1>1, <1>5 DEF Tokens
<1>7. \A u \in Tabs \ {t} : exchange'[u] = exchange[u]
  BY DEF Issue, TypeOK
<1>8. exchange'[t].pc = "issued" /\ exchange'[t].token = tok /\ exchange'[t].new = n
  BY <1>5 DEF Issue, TypeOK, Exchanges
<1>9. None \notin Tabs /\ n # None
  <2>1. n \in Nat
    BY <1>1
  <2> HIDE DEF n
  <2> QED BY <2>1, NamesAssumption
<1> HIDE DEF n, mid, tok
<1>10. Known'
  BY <1>2, <1>6, <1>7, <1>8 DEF Known, tok
<1>11. Fresh'
  <2> SUFFICES ASSUME NEW u \in Tabs, exchange'[u].pc = "issued"
               PROVE  /\ exchange'[u].new \in Tokens' /\ spent'[exchange'[u].new] = None
                      /\ exchange'[u].new # cookie'.refresh
                      /\ \A w \in Tabs :
                           /\ exchange'[w].pc # "idle" => exchange'[w].token # exchange'[u].new
                           /\ exchange'[w].pc = "issued" /\ w # u =>
                                exchange'[w].new # exchange'[u].new
    BY DEF Fresh
  <2>1. CASE u = t
    BY <2>1, <1>2, <1>5, <1>6, <1>7, <1>8, <1>9 DEF Fresh, Known
  <2>2. CASE u # t
    <3>1. exchange'[u] = exchange[u] /\ exchange[u].new \in Tokens
          /\ spent[exchange[u].new] = None /\ exchange[u].new # cookie.refresh
          /\ exchange[u].new # tok
      BY <2>2, <1>2, <1>7 DEF Fresh, tok
    <3>2. exchange'[u].new \in Tokens' /\ spent'[exchange'[u].new] = None
          /\ exchange'[u].new # cookie'.refresh
      BY <3>1, <1>2, <1>3, <1>5, <1>6
    <3>3. ASSUME NEW w \in Tabs
          PROVE  /\ exchange'[w].pc # "idle" => exchange'[w].token # exchange[u].new
                 /\ exchange'[w].pc = "issued" /\ w # u => exchange'[w].new # exchange[u].new
      <4>1. CASE w = t
        BY <4>1, <3>1, <1>6, <1>8
      <4>2. CASE w # t
        <5>1. exchange'[w] = exchange[w] /\ exchange[u].pc = "issued"
          BY <4>2, <2>2, <1>7
        <5> QED BY <5>1 DEF Fresh
      <4> QED BY <4>1, <4>2
    <3> QED BY <3>1, <3>2, <3>3
  <2> QED BY <2>1, <2>2
<1>12. SpentTokenLeaves'
  BY <1>2, <1>3, <1>5, <1>7, <1>8 DEF SpentTokenLeaves, Known
<1>13. NoOwnReuse'
  BY <1>3, <1>5, <1>7, <1>8 DEF NoOwnReuse, Known
<1> QED BY <1>10, <1>11, <1>12, <1>13

LEMMA RefreshedIInv ==
  ASSUME IInv, TypeOK', NEW t \in Tabs, Refreshed(t)
  PROVE  IInv'
<1> DEFINE n == exchange[t].new
<1> USE DEF IInv
<1>1. exchange[t].pc = "issued" /\ cookie'.refresh = n /\ UNCHANGED spent /\ Tokens' = Tokens
  BY DEF Refreshed, Pair, Tokens
<1>2. \A u \in Tabs : exchange'[u] = IF u = t THEN NoExchange ELSE exchange[u]
  BY DEF Refreshed, TypeOK
<1>3. NoExchange.pc = "idle" /\ None \notin Tabs
  BY NamesAssumption DEF NoExchange
<1>4. n \in Tokens /\ spent[n] = None
      /\ \A u \in Tabs \ {t} : exchange[u].pc = "issued" => exchange[u].new # n
  BY <1>1 DEF Fresh
<1> HIDE DEF n
<1>5. Known'
  BY <1>1, <1>2, <1>3, <1>4 DEF Known
<1>6. Fresh'
  BY <1>1, <1>2, <1>3, <1>4 DEF Fresh
<1>7. SpentTokenLeaves'
  BY <1>1, <1>3, <1>4 DEF SpentTokenLeaves
<1>8. NoOwnReuse'
  BY <1>1, <1>2, <1>3 DEF NoOwnReuse
<1> QED BY <1>5, <1>6, <1>7, <1>8

LEMMA NextIInv == IInv /\ [Next]_vars => IInv'
<1> SUFFICES ASSUME IInv, [Next]_vars PROVE IInv'
  OBVIOUS
<1>0. TypeOK'
  BY TypeNext DEF IInv
<1>1. ASSUME NEW t \in Tabs, PageStep(t) PROVE IInv'
  <2>1. CASE SignIn(t)
    BY <2>1, <1>0, SignInIInv
  <2>2. CASE Open(t)
    BY <2>2, <1>0, QuietIInv DEF Open
  <2>3. CASE Reload(t)
    BY <2>3, <1>0, UnloadIInv DEF Reload
  <2>4. CASE SignOut(t)
    BY <2>4, <1>0, QuietIInv DEF SignOut, NoCookies
  <2> QED BY <1>1, <2>1, <2>2, <2>3, <2>4 DEF PageStep
<1>2. ASSUME NEW r \in Reqs, RequestStep(r) PROVE IInv'
  <2>1. CASE Ask(r) \/ Answer(r) \/ Reject(r)
    BY <2>1, <1>0, QuietIInv DEF Ask, Answer, Reject
  <2>2. CASE TryRefresh(r)
    BY <2>2, <1>0, TryRefreshIInv
  <2>3. CASE NothingToRefresh(r)
    BY <2>3, <1>0, ForceLogoutIInv, TabOfAssumption DEF NothingToRefresh
  <2> QED BY <1>2, <2>1, <2>2, <2>3 DEF RequestStep
<1>3. ASSUME NEW t \in Tabs, ExchangeStep(t) PROVE IInv'
  <2>1. CASE Check(t) \/ ExchangeFails(t)
    BY <2>1, <1>0, CheckIInv
  <2>2. CASE Issue(t)
    BY <2>2, <1>0, IssueIInv
  <2>3. CASE Refreshed(t)
    BY <2>3, <1>0, RefreshedIInv
  <2>4. CASE NotRefreshed(t)
    BY <2>4, <1>0, ForceLogoutIInv DEF NotRefreshed
  <2> QED BY <1>3, <2>1, <2>2, <2>3, <2>4 DEF ExchangeStep
<1>4. CASE Expire
  BY <1>4, <1>0, QuietIInv DEF Expire
<1>5. CASE CookieExpires
  BY <1>5, <1>0, QuietIInv DEF CookieExpires, IInv, TypeOK, Cookies
<1>6. CASE UNCHANGED vars
  BY <1>6, <1>0, QuietIInv DEF vars
<1> QED BY <1>1, <1>2, <1>3, <1>4, <1>5, <1>6 DEF Next

(* However many requests of a page are denied at once, and whatever the other  *)
(* pages and the user do, a page posts no token it has exchanged.             *)
THEOREM TokensPostedOnce == Spec => []NoOwnReuse
<1>1. IInv => NoOwnReuse
  BY DEF IInv
<1> QED BY InitIInv, NextIInv, <1>1, PTL DEF Spec

(* A token that a page has spent stays in the cookie only until that page's    *)
(* continuation runs, which puts the new one there or signs out (Refreshed,   *)
(* NotRefreshed).                                                             *)
THEOREM SpentTokensLeave == Spec => []SpentTokenLeaves
<1>1. IInv => SpentTokenLeaves
  BY DEF IInv
<1> QED BY InitIInv, NextIInv, <1>1, PTL DEF Spec

-----------------------------------------------------------------------------
(* An exchange has a request waiting for it. *)

AInv == TypeOK /\ ExchangeAwaited

LEMMA AwaitedNext == AInv /\ [Next]_vars => AInv'
<1> SUFFICES ASSUME AInv, [Next]_vars PROVE AInv'
  OBVIOUS
<1> USE DEF AInv
<1>0. TypeOK'
  BY TypeNext
<1>1. ASSUME NEW t \in Tabs, Unload(t) PROVE ExchangeAwaited'
  <2>1. exchange'[t].pc = "idle"
    BY <1>1 DEF Unload, NoExchange, TypeOK
  <2>2. \A u \in Tabs \ {t} : exchange'[u] = exchange[u] /\ Waiting(u)' = Waiting(u)
    BY <1>1, TabOfAssumption DEF Unload, TypeOK, Waiting
  <2> QED BY <2>1, <2>2 DEF ExchangeAwaited
<1>2. ASSUME UNCHANGED exchange, \A u \in Tabs : Waiting(u) \subseteq Waiting(u)'
      PROVE  ExchangeAwaited'
  BY <1>2 DEF ExchangeAwaited
<1>3. ASSUME NEW t \in Tabs, PageStep(t) PROVE ExchangeAwaited'
  <2>1. CASE Reload(t)
    BY <2>1, <1>1 DEF Reload
  <2>2. CASE SignIn(t) \/ Open(t) \/ SignOut(t)
    BY <2>2, <1>2 DEF SignIn, Open, SignOut, Waiting
  <2> QED BY <1>3, <2>1, <2>2 DEF PageStep
<1>4. ASSUME NEW r \in Reqs, RequestStep(r) PROVE ExchangeAwaited'
  <2>1. CASE Ask(r) \/ Answer(r) \/ Reject(r)
    <3>1. req[r].pc # "waiting" /\ \A q \in Reqs \ {r} : req'[q] = req[q]
      BY <2>1 DEF Ask, Answer, Reject, TypeOK
    <3> QED BY <2>1, <3>1, <1>2 DEF Ask, Answer, Reject, Waiting
  <2>2. CASE TryRefresh(r)
    <3>1. /\ req'[r].pc = "waiting"
          /\ \A q \in Reqs \ {r} : req'[q] = req[q]
          /\ \A u \in Tabs : u # TabOf[r] => exchange'[u] = exchange[u]
      BY <2>2, TabOfAssumption DEF TryRefresh, TypeOK, Requests
    <3>2. \A u \in Tabs : Waiting(u) \subseteq Waiting(u)'
      BY <3>1 DEF Waiting
    <3>3. r \in Waiting(TabOf[r])'
      BY <3>1 DEF Waiting
    <3> QED BY <3>1, <3>2, <3>3 DEF ExchangeAwaited
  <2>3. CASE NothingToRefresh(r)
    <3>1. CASE Unload(TabOf[r])
      BY <3>1, <1>1, TabOfAssumption
    <3>2. CASE /\ exchange' = [exchange EXCEPT ![TabOf[r]] = exchange[TabOf[r]]]
               /\ req' = [q \in Reqs |-> IF q \in {r} THEN NoReq ELSE req[q]]
      <4>1. UNCHANGED exchange
        BY <3>2, TabOfAssumption DEF TypeOK
      <4>2. req[r].pc = "denied"
        BY <2>3 DEF NothingToRefresh
      <4> QED BY <3>2, <4>1, <4>2, <1>2 DEF Waiting
    <3> QED BY <2>3, <3>1, <3>2 DEF NothingToRefresh, ForceLogout
  <2> QED BY <1>4, <2>1, <2>2, <2>3 DEF RequestStep
<1>5. ASSUME NEW t \in Tabs, ExchangeStep(t) PROVE ExchangeAwaited'
  <2>1. CASE Check(t) \/ Issue(t) \/ ExchangeFails(t)
    <3>1. /\ exchange[t].pc # "idle" /\ \A u \in Tabs : Waiting(u)' = Waiting(u)
          /\ \A u \in Tabs \ {t} : exchange'[u] = exchange[u]
      BY <2>1 DEF Check, Issue, ExchangeFails, TypeOK, Waiting
    <3> QED BY <3>1 DEF ExchangeAwaited
  <2>2. CASE Refreshed(t)
    <3>1. exchange'[t].pc = "idle" /\ \A u \in Tabs \ {t} : exchange'[u] = exchange[u]
      BY <2>2 DEF Refreshed, NoExchange, TypeOK
    <3>2. \A u \in Tabs \ {t} : Waiting(u) \subseteq Waiting(u)'
      BY <2>2 DEF Refreshed, Waiting
    <3> QED BY <3>1, <3>2 DEF ExchangeAwaited
  <2>3. CASE NotRefreshed(t)
    <3>1. CASE Unload(t)
      BY <3>1, <1>1
    <3>2. CASE /\ exchange' = [exchange EXCEPT ![t] = NoExchange]
               /\ req' = [q \in Reqs |-> IF q \in Waiting(t) THEN NoReq ELSE req[q]]
      <4>1. exchange'[t].pc = "idle" /\ \A u \in Tabs \ {t} : exchange'[u] = exchange[u]
        BY <3>2 DEF NoExchange, TypeOK
      <4>2. \A u \in Tabs \ {t} : Waiting(u) \subseteq Waiting(u)'
        BY <3>2 DEF Waiting
      <4> QED BY <4>1, <4>2 DEF ExchangeAwaited
    <3> QED BY <2>3, <3>1, <3>2 DEF NotRefreshed, ForceLogout
  <2> QED BY <1>5, <2>1, <2>2, <2>3 DEF ExchangeStep
<1>6. CASE Expire \/ CookieExpires \/ UNCHANGED vars
  <2>1. UNCHANGED <<exchange, req>>
    BY <1>6 DEF Expire, CookieExpires, vars
  <2>2. \A u \in Tabs : Waiting(u) \subseteq Waiting(u)'
    BY <2>1 DEF Waiting
  <2> QED BY <2>1, <2>2, <1>0, <1>2
<1> QED BY <1>0, <1>3, <1>4, <1>5, <1>6 DEF Next

(* Every exchange has a request that learns of its end. *)
THEOREM ExchangesAwaited == Spec => []ExchangeAwaited
<1>1. Init => AInv
  BY TypeInit DEF Init, AInv, ExchangeAwaited, NoExchange
<1>2. AInv => ExchangeAwaited
  BY DEF AInv
<1> QED BY AwaitedNext, <1>1, <1>2, PTL DEF Spec

-----------------------------------------------------------------------------
(* A request waits only while its page is in an exchange. *)

ServedInv == TypeOK /\ WaitersServed

LEMMA ServedNext == ServedInv /\ [Next]_vars => ServedInv'
<1> SUFFICES ASSUME ServedInv, [Next]_vars PROVE ServedInv'
  OBVIOUS
<1> USE DEF ServedInv
<1>0. TypeOK' /\ \A r \in Reqs : TabOf[r] \in Tabs
  BY TypeNext, TabOfAssumption
<1>1. ASSUME NEW t \in Tabs, Unload(t) PROVE WaitersServed'
  <2>1. \A r \in Reqs : req'[r] = IF TabOf[r] = t THEN NoReq ELSE req[r]
    BY <1>1 DEF Unload
  <2>2. \A u \in Tabs \ {t} : exchange'[u] = exchange[u]
    BY <1>1 DEF Unload, TypeOK
  <2> QED BY <1>0, <2>1, <2>2 DEF WaitersServed, NoReq
<1>2. ASSUME UNCHANGED exchange, \A r \in Reqs : req'[r] = req[r] \/ req'[r].pc # "waiting"
      PROVE  WaitersServed'
  BY <1>2 DEF WaitersServed
<1>3. ASSUME NEW t \in Tabs, PageStep(t) PROVE WaitersServed'
  <2>1. CASE Reload(t)
    BY <2>1, <1>1 DEF Reload
  <2>2. CASE SignIn(t) \/ Open(t) \/ SignOut(t)
    BY <2>2, <1>2 DEF SignIn, Open, SignOut
  <2> QED BY <1>3, <2>1, <2>2 DEF PageStep
<1>4. ASSUME NEW r \in Reqs, RequestStep(r) PROVE WaitersServed'
  <2>1. CASE Ask(r) \/ Answer(r) \/ Reject(r)
    <3>1. UNCHANGED exchange /\ \A q \in Reqs \ {r} : req'[q] = req[q]
      BY <2>1 DEF Ask, Answer, Reject, TypeOK
    <3>2. req'[r].pc # "waiting"
      <4>1. CASE Ask(r)
        BY <4>1 DEF Ask, SentWith, TypeOK
      <4>2. CASE Answer(r)
        BY <4>2 DEF Answer, NoReq, TypeOK, Requests
      <4>3. CASE Reject(r)
        BY <4>3 DEF Reject, NoReq, TypeOK
      <4> QED BY <2>1, <4>1, <4>2, <4>3
    <3>3. \A q \in Reqs : req'[q] = req[q] \/ req'[q].pc # "waiting"
      BY <3>1, <3>2
    <3> QED BY <3>1, <3>3, <1>2
  <2>2. CASE TryRefresh(r)
    <3>1. /\ exchange'[TabOf[r]].pc # "idle"
          /\ \A q \in Reqs \ {r} : req'[q] = req[q]
          /\ \A u \in Tabs : u # TabOf[r] => exchange'[u] = exchange[u]
      BY <2>2, <1>0 DEF TryRefresh, TypeOK, NoExchange
    <3> QED BY <3>1, <1>0 DEF WaitersServed
  <2>3. CASE NothingToRefresh(r)
    <3>1. CASE Unload(TabOf[r])
      BY <3>1, <1>0, <1>1
    <3>2. CASE /\ exchange' = [exchange EXCEPT ![TabOf[r]] = exchange[TabOf[r]]]
               /\ req' = [q \in Reqs |-> IF q \in {r} THEN NoReq ELSE req[q]]
      <4>1. UNCHANGED exchange
        BY <3>2, <1>0 DEF TypeOK
      <4> QED BY <3>2, <4>1, <1>2 DEF NoReq
    <3> QED BY <2>3, <3>1, <3>2 DEF NothingToRefresh, ForceLogout
  <2> QED BY <1>4, <2>1, <2>2, <2>3 DEF RequestStep
<1>5. ASSUME NEW t \in Tabs, exchange' = [exchange EXCEPT ![t] = NoExchange],
             \A r \in Waiting(t) : req'[r].pc # "waiting",
             \A r \in Reqs \ Waiting(t) : req'[r] = req[r]
      PROVE  WaitersServed'
  <2>1. \A u \in Tabs \ {t} : exchange'[u] = exchange[u]
    BY <1>5 DEF TypeOK
  <2> QED BY <1>0, <1>5, <2>1 DEF WaitersServed, Waiting
<1>6. ASSUME NEW t \in Tabs, ExchangeStep(t) PROVE WaitersServed'
  <2>1. CASE Check(t) \/ Issue(t) \/ ExchangeFails(t)
    <3>1. UNCHANGED req /\ \A u \in Tabs \ {t} : exchange'[u] = exchange[u]
      BY <2>1 DEF Check, Issue, ExchangeFails, TypeOK
    <3>2. exchange'[t].pc \in {"checked", "refused", "issued"}
      BY <2>1 DEF Check, Issue, ExchangeFails, TypeOK, Exchanges
    <3> QED BY <3>1, <3>2, <1>0 DEF WaitersServed
  <2>2. CASE Refreshed(t)
    BY <2>2, <1>5 DEF Refreshed, Waiting, SentWith
  <2>3. CASE NotRefreshed(t)
    <3>1. CASE Unload(t)
      BY <3>1, <1>1
    <3>2. CASE /\ exchange' = [exchange EXCEPT ![t] = NoExchange]
               /\ req' = [q \in Reqs |-> IF q \in Waiting(t) THEN NoReq ELSE req[q]]
      BY <3>2, <1>5 DEF Waiting, NoReq
    <3> QED BY <2>3, <3>1, <3>2 DEF NotRefreshed, ForceLogout
  <2> QED BY <1>6, <2>1, <2>2, <2>3 DEF ExchangeStep
<1>7. CASE Expire \/ CookieExpires \/ UNCHANGED vars
  <2>1. UNCHANGED <<exchange, req>>
    BY <1>7 DEF Expire, CookieExpires, vars
  <2> QED BY <2>1, <1>0, <1>2
<1> QED BY <1>0, <1>3, <1>4, <1>6, <1>7 DEF Next

(* Whatever ends an exchange resumes or rejects all the requests that share    *)
(* its promise (Refreshed, NotRefreshed, Unload): none is left waiting behind *)
(* it, for any number of tabs and requests.                                   *)
THEOREM NoneLeftWaiting == Spec => []WaitersServed
<1>1. Init => ServedInv
  BY TypeInit DEF Init, ServedInv, WaitersServed, NoReq
<1>2. ServedInv => WaitersServed
  BY DEF ServedInv
<1> QED BY ServedNext, <1>1, <1>2, PTL DEF Spec
=============================================================================
