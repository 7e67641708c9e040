----------------------------- MODULE QueryCache -----------------------------
(* What a page of the console shows after the user changed something.          *)
(*                                                                            *)
(* The console (services/frontend) reads through React Query: a query is      *)
(* cached under its key, counts as fresh for staleTime (app/providers.tsx),   *)
(* and is read again when a page that shows it is opened later than that, when *)
(* its timer fires, or when the onSuccess of a mutation invalidates it.        *)
(* Keys do not influence each other, so a behaviour follows ONE query,         *)
(* `watched', through the pages that show it and the mutations that change     *)
(* what it returns.  The server's answer is a version number.                  *)
EXTENDS Integers, SequencesExt

CONSTANTS
  Query,      \* query name -> its key, what it reads and when it polls
  Op,         \* mutation name -> what it changes and the keys it invalidates by prefix
  Page,       \* page name -> what it shows and offers
  Layout,     \* queries of the dashboard's frame, which moving inside it does not remount
  Neutral,    \* pages standing for those that neither show nor touch the watched query
  LeftStale,  \* <<mutation, query>>: changed by it and knowingly not invalidated
  Calls,      \* the mutations that may be in flight at a time
  None,
  MaxVersion, \* bound: changes of the watched answer
  MaxMade,    \* bound: mutations the user starts
  MaxFaults   \* bound: requests that fail for good, and reloads

Queries == DOMAIN Query
Ops == DOMAIN Op
Pages == DOMAIN Page

ASSUME QueryAssumption ==
  \A q \in Queries : Query[q].poll \in {"never", "always", "busy"}
ASSUME OpAssumption == \A o \in Ops : Op[o].async \in BOOLEAN
ASSUME NoneAssumption == None \notin [ver : Nat, busy : BOOLEAN]
ASSUME PageAssumption ==
  Neutral \subseteq Pages /\ \A p \in Pages : Page[p].offers \subseteq Ops
ASSUME BoundAssumption == {MaxVersion, MaxMade, MaxFaults} \subseteq Nat

VARIABLES
  watched,  \* the query followed
  page,     \* the page open
  shown,    \* is the watched query mounted?
  server,   \* what the server would answer: a version, and whether a job is unfinished
  entry,    \* the cached answer: age and flags as React Query keeps them
  fetch,    \* the request of the watched query
  calls,    \* the mutations in flight
  own,      \* the newest version of the user's own confirmed changes
  made, faults

vars == <<watched, page, shown, server, entry, fetch, calls, own, made, faults>>

Answers == [ver : Nat, busy : BOOLEAN]

Entries == [data : Answers \cup {None}, fresh : BOOLEAN, invalid : BOOLEAN,
            error : BOOLEAN, late : BOOLEAN]
(* late, of an entry and of a request: a change was confirmed while the       *)
(* request was out, and it went on.                                           *)
Fetches == [pc : {"idle", "sent", "answered"}, data : Answers \cup {None},
            retried : BOOLEAN, late : BOOLEAN]
CallStates == [pc : {"idle", "sent", "committed"}, op : Ops \cup {None},
               ver : Nat, here : BOOLEAN]

NoEntryNull == [data |-> None, fresh |-> FALSE, invalid |-> FALSE, error |-> None,
                late |-> FALSE]

NoEntry == [data |-> None, fresh |-> FALSE, invalid |-> FALSE, error |-> FALSE,
            late |-> FALSE]
NoFetch == [pc |-> "idle", data |-> None, retried |-> FALSE, late |-> FALSE]
Request(again) == [NoFetch EXCEPT !.pc = "sent", !.retried = again]
NoCall == [pc |-> "idle", op |-> None, ver |-> 0, here |-> FALSE]

Affects(o, q) == Op[o].writes \cap Query[q].reads # {}
Matches(prefixes, key) == \E p \in prefixes : IsPrefix(p, key)
Invalidates(o, q) == Matches(Op[o].invalidates, Query[q].key)
Refetches(o, q) == q \in Op[o].refetches
Larger(m, n) == IF m > n THEN m ELSE n

(* Every mutation that changes what a query returns invalidates the query or   *)
(* reads it again, but for the pairs of LeftStale.                            *)
Covered ==
  \A q \in Queries, o \in Ops :
    Affects(o, q) /\ <<o, q>> \notin LeftStale => Invalidates(o, q) \/ Refetches(o, q)
ASSUME CoverAssumption == Covered

(* Can the watched query be mounted, or not, while page p is open?  Dialogs,   *)
(* tabs and filters mount and unmount queries without leaving the page.       *)
MayShow(p, s) == IF watched \in Page[p].shows THEN s
                 ELSE s => watched \in Page[p].filters

(* The mutations page p offers that change query q or make it read again.      *)
Offered ==
  [q \in Queries |-> [p \in Pages |->
     {o \in Page[p].offers :
       /\ <<o, q>> \notin LeftStale
       /\ Affects(o, q) \/ Invalidates(o, q) \/ Refetches(o, q)}]]

(* The pages that show query q or offer such a mutation, and the neutral ones. *)
Relevant ==
  [q \in Queries |->
     Neutral \cup {p \in Pages :
       q \in (Page[p].shows \ Layout) \cup Page[p].filters \/ Offered[q][p] # {}}]

Usable == entry.data # None /\ ~entry.invalid /\ entry.fresh

(* A mount fetches what is missing or stale; a request that is out serves it.  *)
AfterMount == IF Usable \/ fetch.pc # "idle" THEN fetch ELSE Request(FALSE)

Init ==
  /\ watched \in Queries
  /\ page \in Relevant[watched]
  /\ shown \in BOOLEAN /\ MayShow(page, shown)
  /\ server = [ver |-> 0, busy |-> FALSE]
  /\ entry = NoEntry
  /\ fetch = IF shown THEN Request(FALSE) ELSE NoFetch
  /\ calls = [c \in Calls |-> NoCall]
  /\ own = 0 /\ made = 0 /\ faults = 0

-----------------------------------------------------------------------------
(* The user moves about the console. *)

Open(p) ==
  /\ p # page /\ p \in Relevant[watched]
  /\ page' = p
  /\ shown' \in BOOLEAN /\ MayShow(p, shown')
  /\ fetch' = IF shown' /\ ~(shown /\ watched \in Layout) THEN AfterMount ELSE fetch
  /\ calls' = [c \in Calls |-> [calls[c] EXCEPT !.here = FALSE]]
  /\ UNCHANGED <<watched, server, entry, own, made, faults>>

(* A dialog, a tab, a page of a list or a filter mounts or unmounts the query. *)
Turn ==
  /\ watched \in Page[page].filters
  /\ shown' = ~shown
  /\ fetch' = IF shown' THEN AfterMount ELSE fetch
  /\ UNCHANGED <<watched, page, server, entry, calls, own, made, faults>>

Reload ==
  /\ faults < MaxFaults
  /\ faults' = faults + 1
  /\ entry' = NoEntry
  /\ fetch' = IF shown THEN Request(FALSE) ELSE NoFetch
  /\ calls' = [c \in Calls |-> NoCall]
  /\ UNCHANGED <<watched, page, shown, server, own, made>>

-----------------------------------------------------------------------------
(* The request of the watched query. *)

Serve ==
  /\ fetch.pc = "sent"
  /\ fetch' = [fetch EXCEPT !.pc = "answered", !.data = server]
  /\ UNCHANGED <<watched, page, shown, server, entry, calls, own, made, faults>>

(* The answer is stored; it clears the flags whatever happened meanwhile.     *)
Arrive ==
  /\ fetch.pc = "answered"
  /\ entry' = [NoEntry EXCEPT !.data = fetch.data, !.fresh = TRUE, !.late = fetch.late]
  /\ fetch' = NoFetch
  /\ UNCHANGED <<watched, page, shown, server, calls, own, made, faults>>

(* One retry, and only while something shows the query.                        *)
Retry ==
  /\ fetch.pc # "idle" /\ shown /\ ~fetch.retried
  /\ fetch' = Request(TRUE)
  /\ UNCHANGED <<watched, page, shown, server, entry, calls, own, made, faults>>

FetchFailsSilently ==
  /\ fetch.pc # "idle" /\ (shown => fetch.retried) /\ faults < MaxFaults
  /\ faults' = faults + 1
  /\ fetch' = NoFetch
  /\ entry' = [entry EXCEPT !.error = entry.data # None, !.invalid = TRUE]
  /\ UNCHANGED <<watched, page, shown, server, calls, own, made>>

(* The request has failed for good: the copy it was to replace is marked.      *)
FetchFails ==
  /\ fetch.pc # "idle" /\ (shown => fetch.retried) /\ faults < MaxFaults
  /\ faults' = faults + 1
  /\ fetch' = NoFetch
  /\ entry' = [entry EXCEPT !.error = TRUE, !.invalid = TRUE]
  /\ UNCHANGED <<watched, page, shown, server, calls, own, made>>

(* The Retry button of ErrorState. *)
Refetch ==
  /\ shown /\ entry.error /\ fetch.pc = "idle"
  /\ fetch' = Request(FALSE)
  /\ UNCHANGED <<watched, page, shown, server, entry, calls, own, made, faults>>

PollingCounters == shown /\ Query[watched].poll = "always"

Polling ==
  /\ shown
  /\ \/ Query[watched].poll = "always"
     \/ Query[watched].poll = "busy" /\ entry.data # None /\ entry.data.busy

PollUntilError ==
  /\ Polling /\ fetch.pc = "idle" /\ ~entry.error
  /\ fetch' = Request(FALSE)
  /\ UNCHANGED <<watched, page, shown, server, entry, calls, own, made, faults>>

Poll ==
  /\ Polling /\ fetch.pc = "idle"
  /\ fetch' = Request(FALSE)
  /\ UNCHANGED <<watched, page, shown, server, entry, calls, own, made, faults>>

(* staleTime has passed. *)
Age ==
  /\ entry.fresh
  /\ entry' = [entry EXCEPT !.fresh = FALSE]
  /\ UNCHANGED <<watched, page, shown, server, fetch, calls, own, made, faults>>

(* An entry nothing shows is dropped after a while. *)
Collect ==
  /\ ~shown /\ fetch.pc = "idle" /\ entry # NoEntry
  /\ entry' = NoEntry
  /\ UNCHANGED <<watched, page, shown, server, fetch, calls, own, made, faults>>

-----------------------------------------------------------------------------
(* Mutations.  One of a LeftStale pair is to the query as a change made        *)
(* elsewhere.  A button is disabled while its mutation is pending, but a page  *)
(* that was left and opened again has a new button.                           *)

Call(c, o) ==
  /\ calls[c].pc = "idle" /\ made < MaxMade
  /\ \A d \in Calls : calls[d].op = o => ~calls[d].here
  /\ calls' = [calls EXCEPT ![c] = [pc |-> "sent", op |-> o, ver |-> 0, here |-> TRUE]]
  /\ made' = made + 1
  /\ UNCHANGED <<watched, page, shown, server, entry, fetch, own, faults>>

Commit(c) ==
  /\ calls[c].pc = "sent"
  /\ IF Affects(calls[c].op, watched)
     THEN /\ server.ver < MaxVersion
          /\ server' = [ver |-> server.ver + 1,
                        busy |-> server.busy \/ Op[calls[c].op].async]
     ELSE UNCHANGED server
  /\ calls' = [calls EXCEPT ![c].pc = "committed", ![c].ver = server'.ver]
  /\ UNCHANGED <<watched, page, shown, entry, fetch, own, made, faults>>

(* Refused, lost on the way there, lost on the way back, or done in part       *)
(* (Promise.all over several rows): onError, which invalidates nothing.       *)
CallFails(c) ==
  /\ calls[c].pc # "idle" /\ faults < MaxFaults
  /\ calls' = [calls EXCEPT ![c] = NoCall]
  /\ faults' = faults + 1
  /\ UNCHANGED <<watched, page, shown, server, entry, fetch, own, made>>

(* invalidateQueries marks the query and reads it again if it is shown;        *)
(* refetch() reads it again at any rate.  A request that is out is cancelled   *)
(* if there is data to go on showing.  A first load, and the request of a      *)
(* query that is only marked, go on.                                          *)
Restarted(o) ==
  /\ (Invalidates(o, watched) /\ shown) \/ Refetches(o, watched)
  /\ fetch.pc = "idle" \/ entry.data # None
Exists == entry # NoEntry \/ fetch.pc # "idle"

SettleIfHere(c) ==
  LET o == calls[c].op IN
  /\ calls[c].pc = "committed"
  /\ calls' = [calls EXCEPT ![c] = NoCall]
  /\ own' = IF Affects(o, watched) THEN Larger(own, calls[c].ver) ELSE own
  /\ entry' = [entry EXCEPT !.invalid =
                  @ \/ (Invalidates(o, watched) /\ Exists /\ calls[c].here)]
  /\ fetch' = IF Restarted(o) /\ calls[c].here THEN Request(FALSE)
              ELSE [fetch EXCEPT !.late = @ \/ (fetch.pc # "idle" /\ Affects(o, watched))]
  /\ UNCHANGED <<watched, page, shown, server, made, faults>>

(* onSuccess runs although the page that made the call may be gone. *)
Settle(c) ==
  LET o == calls[c].op IN
  /\ calls[c].pc = "committed"
  /\ calls' = [calls EXCEPT ![c] = NoCall]
  /\ own' = IF Affects(o, watched) THEN Larger(own, calls[c].ver) ELSE own
  /\ entry' = [entry EXCEPT !.invalid = @ \/ (Invalidates(o, watched) /\ Exists)]
  /\ fetch' = IF Restarted(o) THEN Request(FALSE)
              ELSE [fetch EXCEPT !.late = @ \/ (fetch.pc # "idle" /\ Affects(o, watched))]
  /\ UNCHANGED <<watched, page, shown, server, made, faults>>

-----------------------------------------------------------------------------
(* Other users, the workers, the gateway and the mutations of LeftStale change *)
(* the answer as well.                                                        *)
Elsewhere ==
  /\ server.ver < MaxVersion
  /\ \E b \in BOOLEAN :
       /\ b => Query[watched].poll = "busy"
       /\ server' = [ver |-> server.ver + 1, busy |-> b]
  /\ UNCHANGED <<watched, page, shown, entry, fetch, calls, own, made, faults>>

(* A worker ends the last unfinished job. *)
Finish ==
  /\ server.busy
  /\ server' = [ver |-> server.ver + 1, busy |-> FALSE]
  /\ UNCHANGED <<watched, page, shown, entry, fetch, calls, own, made, faults>>

-----------------------------------------------------------------------------
CallStep(c) ==
  \/ \E o \in Offered[watched][page] : Call(c, o)
  \/ Commit(c) \/ CallFails(c) \/ Settle(c)

Next ==
  \/ \E p \in Pages : Open(p)
  \/ Turn \/ Reload
  \/ Serve \/ Arrive \/ Retry \/ FetchFails \/ Refetch \/ Poll \/ Age \/ Collect
  \/ \E c \in Calls : CallStep(c)
  \/ Elsewhere \/ Finish

(* Requests are answered (the axios instance gives up after 30 s), timers fire *)
(* while the page is visible, and the workers end their jobs.  Left out: a     *)
(* request that is denied while a token exchange stays unanswered              *)
(* (ConsoleSession), and React Query's pause while the browser is offline.     *)
Fairness == WF_vars(Serve) /\ WF_vars(Arrive) /\ WF_vars(Poll) /\ WF_vars(Finish)

Spec == Init /\ [][Next]_vars /\ Fairness

-----------------------------------------------------------------------------
TypeOK ==
  /\ watched \in Queries /\ page \in Pages /\ shown \in BOOLEAN
  /\ server \in Answers /\ entry \in Entries /\ fetch \in Fetches
  /\ calls \in [Calls -> CallStates]
  /\ own \in Nat /\ made \in 0..MaxMade /\ faults \in 0..MaxFaults

(* The answer that a page at rest holds has the user's own confirmed changes:  *)
(* whichever page made them, wherever the user was when the confirmation came, *)
(* and whatever else was in flight.  Four cases are excepted, each by name:    *)
(* the last read failed, the read was already out when the change was          *)
(* confirmed and could not be cancelled (late), the pairs of LeftStale, and    *)
(* a dialog that shows its own copy of a row instead of the answer             *)
(* (OutdatedCopies in ConsolePages).                                           *)
ReadYourWrites ==
  shown /\ fetch.pc = "idle" /\ entry.data # None /\ ~entry.error /\ ~entry.late
    => entry.data.ver >= own

(* No page waits for an answer nobody was asked for. *)
NoEndlessSpinner == shown /\ entry.data = None => fetch.pc # "idle" \/ entry.error

(* A counter that polls always is up to date at last, if it stays on screen. *)
PollCatchesUp ==
  (Query[watched].poll = "always" /\ <>[]shown) => <>[](entry.data = server)

(* The list of reports that stays open shows no report as unfinished for ever, *)
(* although it polls only while the copy it has holds an unfinished one.       *)
JobsShownFinished ==
  (Query[watched].poll = "busy" /\ <>[]shown)
    => []<>(entry.data # None => ~entry.data.busy)

=============================================================================
