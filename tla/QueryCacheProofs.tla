-------------------------- MODULE QueryCacheProofs --------------------------
(* Proofs about QueryCache for any tables of queries, mutations and pages.     *)
EXTENDS QueryCache, TLAPS

-----------------------------------------------------------------------------
(* Type correctness. *)

LEMMA RequestType == \A b \in BOOLEAN : Request(b) \in Fetches
BY DEF Request, NoFetch, Fetches

LEMMA NoFetchType == NoFetch \in Fetches
BY DEF NoFetch, Fetches

LEMMA NoEntryType == NoEntry \in Entries
BY DEF NoEntry, Entries

LEMMA NoCallType == NoCall \in CallStates
BY DEF NoCall, CallStates

LEMMA AfterMountType == fetch \in Fetches => AfterMount \in Fetches
BY RequestType DEF AfterMount

LEMMA RelevantPages == \A q \in Queries : Relevant[q] \subseteq Pages
BY PageAssumption DEF Relevant, Pages

(* What a page offers is a mutation, and none of a LeftStale pair. *)
LEMMA OfferedOps ==
  ASSUME NEW q \in Queries, NEW p \in Pages, NEW o \in Offered[q][p]
  PROVE  <<o, q>> \notin LeftStale /\ o \in Ops
BY PageAssumption DEF Offered, Queries, Pages

LEMMA TypeInit == Init => TypeOK
<1> SUFFICES ASSUME Init PROVE TypeOK
  OBVIOUS
<1>1. watched \in Queries /\ shown \in BOOLEAN
  BY DEF Init
<1>2. page \in Pages
  BY <1>1, RelevantPages DEF Init
<1>3. server \in Answers /\ entry \in Entries
  BY NoEntryType DEF Init, Answers
<1>4. fetch \in Fetches
  BY NoFetchType, RequestType DEF Init
<1>5. calls \in [Calls -> CallStates]
  BY NoCallType DEF Init
<1>6. own \in Nat /\ made \in 0..MaxMade /\ faults \in 0..MaxFaults
  BY BoundAssumption DEF Init
<1> QED BY <1>1, <1>2, <1>3, <1>4, <1>5, <1>6 DEF TypeOK

LEMMA CountUp == \A n \in Nat : \A i \in 0..n : i < n => i + 1 \in 0..n
OBVIOUS

(* One lemma for the steps of the page and of its request, one for the         *)
(* mutations, one for everybody else.                                         *)
LEMMA TypeFetch ==
  ASSUME TypeOK, Reload \/ Serve \/ Arrive \/ Retry \/ FetchFails \/ Refetch \/ Poll \/ Age
  PROVE  TypeOK'
<1> USE DEF TypeOK
<1>1. CASE Reload
  BY <1>1, NoEntryType, NoCallType, NoFetchType, RequestType, CountUp, BoundAssumption
  DEF Reload
<1>2. CASE Serve
  BY <1>2 DEF Serve, Fetches
<1>3. CASE Arrive
  BY <1>3, NoFetchType DEF Arrive, Fetches, Entries, NoEntry
<1>4. CASE FetchFails
  BY <1>4, NoFetchType, CountUp, BoundAssumption DEF FetchFails, Entries
<1>8. CASE Retry
  BY <1>8, RequestType DEF Retry
<1>5. CASE Refetch
  BY <1>5, RequestType DEF Refetch
<1>6. CASE Poll
  BY <1>6, RequestType DEF Poll
<1>7. CASE Age
  BY <1>7 DEF Age, Entries
<1> QED BY <1>1, <1>2, <1>3, <1>4, <1>5, <1>6, <1>7, <1>8

LEMMA TypeMove ==
  ASSUME TypeOK, Turn \/ Collect \/ Elsewhere \/ Finish \/ \E p \in Pages : Open(p)
  PROVE  TypeOK'
<1> USE DEF TypeOK
<1>1. ASSUME NEW p \in Pages, Open(p) PROVE TypeOK'
  <2>1. calls' \in [Calls -> CallStates]
    BY <1>1 DEF Open, CallStates
  <2> QED BY <1>1, <2>1, AfterMountType DEF Open
<1>2. CASE Turn
  BY <1>2, AfterMountType DEF Turn
<1>3. CASE Collect
  BY <1>3, NoEntryType DEF Collect
<1>4. CASE Elsewhere
  BY <1>4 DEF Elsewhere, Answers
<1>5. CASE Finish
  BY <1>5 DEF Finish, Answers
<1> QED BY <1>1, <1>2, <1>3, <1>4, <1>5

LEMMA TypeCall ==
  ASSUME TypeOK, NEW c \in Calls, CallStep(c)
  PROVE  TypeOK'
<1> USE DEF TypeOK
<1>1. ASSUME NEW o \in Offered[watched][page], Call(c, o) PROVE TypeOK'
  <2>1. o \in Ops
    BY <1>1, OfferedOps
  <2>2. calls' \in [Calls -> CallStates]
    BY <1>1, <2>1 DEF Call, CallStates
  <2> QED BY <1>1, <2>2, CountUp, BoundAssumption DEF Call
<1>2. CASE Commit(c)
  <2>1. calls[c] \in CallStates /\ calls[c].op \in Ops \cup {None}
    BY DEF CallStates
  <2>2. server' \in Answers
    <3> DEFINE b == server.busy \/ Op[calls[c].op].async
    <3>1. b \in BOOLEAN
      OBVIOUS
    <3>2. \/ server' = server
          \/ server' = [ver |-> server.ver + 1, busy |-> b]
      BY <1>2 DEF Commit
    <3> HIDE DEF b
    <3> QED BY <3>1, <3>2 DEF Answers
  <2>3. calls' \in [Calls -> CallStates]
    <3> DEFINE row == [calls[c] EXCEPT !.pc = "committed", !.ver = server'.ver]
    <3>1. row \in CallStates
      BY <2>1, <2>2 DEF CallStates, Answers
    <3>2. calls' = [calls EXCEPT ![c] = row]
      BY <1>2 DEF Commit
    <3> HIDE DEF row
    <3> QED BY <3>1, <3>2
  <2> QED BY <1>2, <2>2, <2>3 DEF Commit
<1>3. CASE CallFails(c)
  BY <1>3, NoCallType, CountUp, BoundAssumption DEF CallFails
<1>4. CASE Settle(c)
  <2>1. own' \in Nat
    BY <1>4 DEF Settle, Larger, CallStates
  <2>2. entry' \in Entries
    BY <1>4 DEF Settle, Entries, Invalidates, Exists
  <2>3. fetch' \in Fetches
    BY <1>4, RequestType DEF Settle, Fetches, Affects
  <2> QED BY <1>4, <2>1, <2>2, <2>3, NoCallType DEF Settle
<1> QED BY <1>1, <1>2, <1>3, <1>4 DEF CallStep

(* Every variable keeps its type, whatever the tables say. *)
THEOREM TypeCorrect == Spec => []TypeOK
<1>1. TypeOK /\ [Next]_vars => TypeOK'
  <2> SUFFICES ASSUME TypeOK, [Next]_vars PROVE TypeOK'
    OBVIOUS
  <2>1. CASE UNCHANGED vars
    BY <2>1 DEF vars, TypeOK
  <2>2. CASE Next
    BY <2>2, TypeFetch, TypeMove, TypeCall DEF Next
  <2> QED BY <2>1, <2>2
<1> QED BY TypeInit, <1>1, PTL DEF Spec

-----------------------------------------------------------------------------
(* A page at rest shows the user's own confirmed changes.                      *)

(* A mutation in flight is one that some page offered. *)
GoodCall(c) ==
  calls[c].pc # "idle" =>
    /\ calls[c].op \in Ops /\ <<calls[c].op, watched>> \notin LeftStale
    /\ calls[c].ver <= server.ver

(* An answer under way that no confirmation overtook is new enough. *)
GoodAnswer ==
  fetch.pc = "answered" => /\ fetch.data \in Answers
                           /\ ~fetch.late => fetch.data.ver >= own

(* So is the cached copy, if it is not marked and nothing is under way. *)
GoodEntry ==
  fetch.pc = "idle" /\ entry.data # None /\ ~entry.invalid /\ ~entry.late
    => entry.data.ver >= own

(* A marked copy is read again as soon as it is shown, until that fails. *)
MarkedIsRead ==
  shown /\ fetch.pc = "idle" /\ entry.data # None /\ entry.invalid => entry.error

IInv == /\ TypeOK /\ own <= server.ver
        /\ \A c \in Calls : GoodCall(c)
        /\ GoodAnswer /\ GoodEntry /\ MarkedIsRead /\ NoEndlessSpinner

LEMMA InitIInv == Init => IInv
<1> SUFFICES ASSUME Init PROVE IInv
  OBVIOUS
<1>1. TypeOK
  BY TypeInit
<1>2. entry.data = None /\ fetch.pc # "answered" /\ (shown => fetch.pc = "sent")
  BY DEF Init, NoEntry, NoFetch, Request
<1>3. \A c \in Calls : GoodCall(c)
  BY DEF Init, NoCall, GoodCall
<1>4. own <= server.ver
  BY DEF Init
<1>5. GoodAnswer /\ GoodEntry /\ MarkedIsRead /\ NoEndlessSpinner
  BY <1>2 DEF GoodAnswer, GoodEntry, MarkedIsRead, NoEndlessSpinner
<1> QED BY <1>1, <1>3, <1>4, <1>5 DEF IInv

(* Steps that change neither the server nor the mutations, but for resetting   *)
(* them, keep what is said of the two.                                        *)
LEMMA KeepCalls ==
  ASSUME IInv, TypeOK', UNCHANGED <<watched, own>>, server.ver <= server'.ver,
         UNCHANGED calls \/ calls' = [c \in Calls |-> NoCall]
                         \/ calls' = [c \in Calls |-> [calls[c] EXCEPT !.here = FALSE]]
  PROVE  own' <= server'.ver /\ \A c \in Calls : GoodCall(c)'
<1>1. own \in Nat /\ server.ver \in Nat /\ server'.ver \in Nat
  BY DEF IInv, TypeOK, Answers
<1>2. ASSUME NEW c \in Calls PROVE GoodCall(c)'
  <2>1. calls[c] \in CallStates /\ GoodCall(c)
    BY DEF IInv, TypeOK
  <2>2. \/ calls'[c] = calls[c]
        \/ calls'[c] = NoCall
        \/ calls'[c] = [calls[c] EXCEPT !.here = FALSE]
    OBVIOUS
  <2> QED BY <1>1, <2>1, <2>2 DEF GoodCall, NoCall, CallStates
<1> QED BY <1>1, <1>2 DEF IInv

LEMMA StepFetch ==
  ASSUME IInv, TypeOK', Reload \/ Serve \/ Arrive \/ Retry \/ FetchFails \/ Refetch \/ Poll \/ Age
  PROVE  IInv'
<1> USE DEF GoodAnswer, GoodEntry, MarkedIsRead, NoEndlessSpinner
<1>1. own' <= server'.ver /\ \A c \in Calls : GoodCall(c)'
  <2>1. UNCHANGED <<server, watched, own>>
    BY DEF Reload, Serve, Arrive, Retry, FetchFails, Refetch, Poll, Age
  <2>2. UNCHANGED calls \/ calls' = [c \in Calls |-> NoCall]
    BY DEF Reload, Serve, Arrive, Retry, FetchFails, Refetch, Poll, Age
  <2>3. server.ver <= server'.ver
    BY <2>1 DEF IInv, TypeOK, Answers
  <2> QED BY <2>1, <2>2, <2>3, KeepCalls
<1>2. GoodAnswer' /\ GoodEntry' /\ MarkedIsRead' /\ NoEndlessSpinner'
  <2>1. CASE Reload
    BY <2>1 DEF Reload, NoEntry, NoFetch, Request
  <2>2. CASE Serve
    BY <2>2 DEF Serve, IInv, TypeOK, Fetches, Answers
  <2>3. CASE Arrive
    <3>1. fetch.data # None
      BY <2>3, NoneAssumption DEF Arrive, IInv, Answers
    <3>2. /\ entry'.data = fetch.data /\ ~entry'.invalid /\ entry'.late = fetch.late
          /\ fetch'.pc = "idle" /\ UNCHANGED own
      BY <2>3 DEF Arrive, NoEntry, NoFetch
    <3> QED BY <2>3, <3>1, <3>2 DEF Arrive, IInv
  <2>4. CASE FetchFails
    <3>1. fetch'.pc = "idle"
      BY <2>4 DEF FetchFails, NoFetch
    <3>2. entry'.error /\ entry'.invalid
      BY <2>4 DEF FetchFails, IInv, TypeOK, Entries
    <3> QED BY <3>1, <3>2
  <2>8. CASE Retry
    BY <2>8 DEF Retry, NoFetch, Request
  <2>5. CASE Refetch
    BY <2>5 DEF Refetch, NoFetch, Request
  <2>6. CASE Poll
    BY <2>6 DEF Poll, NoFetch, Request
  <2>7. CASE Age
    <3>1. /\ entry'.data = entry.data /\ entry'.invalid = entry.invalid
          /\ entry'.late = entry.late /\ entry'.error = entry.error
          /\ UNCHANGED <<fetch, own, shown>>
      BY <2>7 DEF Age, IInv, TypeOK, Entries
    <3> QED BY <3>1 DEF IInv
  <2> QED BY <2>1, <2>2, <2>3, <2>4, <2>5, <2>6, <2>7, <2>8
<1> QED BY <1>1, <1>2 DEF IInv

(* What a page finds when it mounts the query. *)
LEMMA MountIsGood ==
  ASSUME IInv, UNCHANGED <<entry, own>>,
         \/ fetch' = AfterMount
         \/ fetch' = fetch /\ (shown' => shown)
  PROVE  GoodAnswer' /\ GoodEntry' /\ MarkedIsRead' /\ NoEndlessSpinner'
<1> USE DEF IInv, GoodAnswer, GoodEntry, MarkedIsRead, NoEndlessSpinner
<1>1. CASE fetch' = fetch /\ (shown' => shown)
  BY <1>1
<1>2. CASE fetch' = AfterMount
  <2>1. CASE Usable \/ fetch.pc # "idle"
    BY <1>2, <2>1 DEF AfterMount, Usable
  <2>2. CASE ~(Usable \/ fetch.pc # "idle")
    <3>1. fetch'.pc = "sent"
      BY <1>2, <2>2 DEF AfterMount, NoFetch, Request
    <3> QED BY <3>1
  <2> QED BY <2>1, <2>2
<1> QED BY <1>1, <1>2

LEMMA StepMove ==
  ASSUME IInv, TypeOK',
         Turn \/ Collect \/ Elsewhere \/ Finish \/ \E p \in Pages : Open(p)
  PROVE  IInv'
<1>1. own' <= server'.ver /\ \A c \in Calls : GoodCall(c)'
  <2>1. server.ver <= server'.ver /\ UNCHANGED <<watched, own>>
    BY DEF IInv, TypeOK, Answers, Turn, Collect, Elsewhere, Finish, Open
  <2>2. \/ UNCHANGED calls
        \/ calls' = [c \in Calls |-> [calls[c] EXCEPT !.here = FALSE]]
    BY DEF Turn, Collect, Elsewhere, Finish, Open
  <2> QED BY <2>1, <2>2, KeepCalls
<1>2. GoodAnswer' /\ GoodEntry' /\ MarkedIsRead' /\ NoEndlessSpinner'
  <2>1. ASSUME NEW p \in Pages, Open(p)
        PROVE  GoodAnswer' /\ GoodEntry' /\ MarkedIsRead' /\ NoEndlessSpinner'
    BY <2>1, MountIsGood DEF Open
  <2>2. CASE Turn
    BY <2>2, MountIsGood DEF Turn, IInv, TypeOK
  <2>3. CASE Collect
    BY <2>3 DEF Collect, NoEntry, GoodAnswer, GoodEntry, MarkedIsRead, NoEndlessSpinner
  <2>4. CASE Elsewhere \/ Finish
    BY <2>4 DEF Elsewhere, Finish, IInv, GoodAnswer, GoodEntry, MarkedIsRead,
                NoEndlessSpinner
  <2> QED BY <2>1, <2>2, <2>3, <2>4
<1> QED BY <1>1, <1>2 DEF IInv

LEMMA StepCall ==
  ASSUME IInv, TypeOK', NEW c \in Calls, CallStep(c)
  PROVE  IInv'
<1> DEFINE Cached == GoodAnswer /\ GoodEntry /\ MarkedIsRead /\ NoEndlessSpinner
<1>0. calls[c] \in CallStates /\ GoodCall(c) /\ own \in Nat /\ server.ver \in Nat
  BY DEF IInv, TypeOK, Answers
<1>1. ASSUME NEW d \in Calls, d # c, calls'[d] = calls[d], UNCHANGED watched,
             server'.ver \in Nat, server.ver <= server'.ver
      PROVE  GoodCall(d)'
  BY <1>0, <1>1 DEF GoodCall, IInv, TypeOK, CallStates
<1>2. ASSUME UNCHANGED <<entry, fetch, own, shown>> PROVE Cached'
  BY <1>2 DEF IInv, GoodAnswer, GoodEntry, MarkedIsRead, NoEndlessSpinner
<1>3. ASSUME NEW o \in Offered[watched][page], Call(c, o) PROVE IInv'
  <2>1. <<o, watched>> \notin LeftStale /\ o \in Ops
    BY OfferedOps DEF IInv, TypeOK
  <2>2. GoodCall(c)'
    BY <1>0, <1>3, <2>1 DEF Call, GoodCall, IInv, TypeOK
  <2>3. \A d \in Calls : GoodCall(d)'
    BY <1>0, <1>1, <1>3, <2>2 DEF Call, IInv, TypeOK
  <2> QED BY <1>2, <1>3, <2>3 DEF Call, IInv
<1>4. CASE Commit(c)
  <2>1. server'.ver \in Nat /\ server.ver <= server'.ver
    BY <1>0, <1>4 DEF Commit
  <2>2. GoodCall(c)'
    BY <1>0, <1>4, <2>1 DEF Commit, GoodCall, IInv, TypeOK, CallStates
  <2>3. \A d \in Calls : GoodCall(d)'
    BY <1>1, <1>4, <2>1, <2>2 DEF Commit, IInv, TypeOK
  <2>4. own' <= server'.ver
    BY <1>0, <1>4, <2>1 DEF Commit, IInv
  <2> QED BY <1>2, <1>4, <2>3, <2>4 DEF Commit, IInv
<1>5. CASE CallFails(c)
  <2>1. GoodCall(c)'
    BY <1>5 DEF CallFails, GoodCall, NoCall, IInv, TypeOK
  <2>2. \A d \in Calls : GoodCall(d)'
    BY <1>0, <1>1, <1>5, <2>1 DEF CallFails, IInv, TypeOK
  <2> QED BY <1>2, <1>5, <2>2 DEF CallFails, IInv
<1>6. CASE Settle(c)
  <2> DEFINE o == calls[c].op
  <2>1. GoodCall(c)'
    BY <1>6 DEF Settle, GoodCall, NoCall, IInv, TypeOK
  <2>2. \A d \in Calls : GoodCall(d)'
    BY <1>0, <1>1, <1>6, <2>1 DEF Settle, IInv, TypeOK
  <2>3. o \in Ops /\ <<o, watched>> \notin LeftStale /\ calls[c].ver <= server.ver
    BY <1>0, <1>6 DEF Settle, GoodCall
  <2>4. own' <= server'.ver
    BY <1>0, <1>6, <2>3 DEF Settle, Larger, IInv, CallStates
  <2>5. Affects(o, watched) => Invalidates(o, watched) \/ Refetches(o, watched)
    BY <2>3, CoverAssumption DEF Covered, IInv, TypeOK
  <2>6. /\ entry'.data = entry.data /\ entry'.late = entry.late
        /\ entry'.error = entry.error
        /\ entry'.invalid <=> entry.invalid \/ (Invalidates(o, watched) /\ Exists)
    BY <1>6 DEF Settle, IInv, TypeOK, Entries
  <2>7. CASE Restarted(o)
    <3>1. fetch'.pc = "sent"
      BY <1>6, <2>7 DEF Settle, NoFetch, Request
    <3>2. Cached'
      BY <3>1 DEF GoodAnswer, GoodEntry, MarkedIsRead, NoEndlessSpinner
    <3> QED BY <2>2, <2>4, <3>2 DEF IInv
  <2>8. CASE ~Restarted(o)
    <3>1. /\ fetch'.pc = fetch.pc /\ fetch'.data = fetch.data
          /\ fetch'.late <=> fetch.late \/ (fetch.pc # "idle" /\ Affects(o, watched))
      BY <1>6, <2>8 DEF Settle, IInv, TypeOK, Fetches
    <3>2. UNCHANGED own \/ Affects(o, watched)
      BY <1>6 DEF Settle
    <3>3. UNCHANGED shown
      BY <1>6 DEF Settle
    <3>4. GoodAnswer'
      BY <3>1, <3>2 DEF IInv, GoodAnswer
    <3>5. GoodEntry'
      <4> SUFFICES ASSUME fetch.pc = "idle", entry.data # None, ~entry'.invalid, ~entry.late
                   PROVE  entry.data.ver >= own'
        BY <2>6, <3>1 DEF GoodEntry
      <4>1. Exists
        BY DEF Exists, NoEntry
      <4>2. ~Invalidates(o, watched) /\ ~entry.invalid
        BY <2>6, <4>1
      <4>3. ~Affects(o, watched)
        BY <2>5, <2>8, <4>2 DEF Restarted
      <4> QED BY <3>2, <4>2, <4>3 DEF IInv, GoodEntry
    <3>6. MarkedIsRead'
      BY <2>6, <2>8, <3>1, <3>3 DEF IInv, MarkedIsRead, Restarted
    <3>7. NoEndlessSpinner'
      BY <2>6, <3>1, <3>3 DEF IInv, NoEndlessSpinner
    <3> QED BY <2>2, <2>4, <3>4, <3>5, <3>6, <3>7 DEF IInv
  <2> QED BY <2>7, <2>8
<1> QED BY <1>3, <1>4, <1>5, <1>6 DEF CallStep

LEMMA StepIInv == IInv /\ [Next]_vars => IInv'
<1> SUFFICES ASSUME IInv, [Next]_vars PROVE IInv'
  OBVIOUS
<1>1. CASE UNCHANGED vars
  BY <1>1 DEF vars, IInv, TypeOK, GoodCall, GoodAnswer, GoodEntry, MarkedIsRead,
              NoEndlessSpinner
<1>2. CASE Next
  <2>1. TypeOK'
    BY <1>2, TypeFetch, TypeMove, TypeCall DEF Next, IInv
  <2> QED BY <1>2, <2>1, StepFetch, StepMove, StepCall DEF Next
<1> QED BY <1>1, <1>2

LEMMA Inductive == Spec => []IInv
BY InitIInv, StepIInv, PTL DEF Spec

(* For any tables whose mutations are all Covered, which TLC evaluates for the *)
(* tables of the console, a page at rest shows the user's own confirmed       *)
(* changes, whatever overtakes what (Settle, Arrive).                         *)
THEOREM OwnChangesShown == Spec => []ReadYourWrites
<1>1. IInv => ReadYourWrites
  BY DEF IInv, GoodEntry, MarkedIsRead, ReadYourWrites
<1> QED BY Inductive, <1>1, PTL

-----------------------------------------------------------------------------
(* No page waits for an answer nobody was asked for. *)

Asked == /\ TypeOK /\ NoEndlessSpinner
         /\ fetch.pc = "answered" => fetch.data \in Answers

LEMMA AskedStep == Asked /\ [Next]_vars => Asked'
<1> SUFFICES ASSUME Asked, [Next]_vars PROVE Asked'
  OBVIOUS
<1> USE DEF NoEndlessSpinner
<1>1. TypeOK'
  <2>1. CASE UNCHANGED vars
    BY <2>1 DEF vars, Asked, TypeOK
  <2> QED BY <2>1, TypeFetch, TypeMove, TypeCall DEF Asked, Next
<1>2. CASE UNCHANGED <<entry, shown>> /\ (fetch'.pc = "sent" \/ fetch' = fetch)
  BY <1>1, <1>2 DEF Asked
<1>3. ASSUME NEW p \in Pages, Open(p) PROVE Asked'
  BY <1>1, <1>3 DEF Asked, Open, AfterMount, Usable, NoFetch, Request, TypeOK
<1>4. CASE Turn
  BY <1>1, <1>4 DEF Asked, Turn, AfterMount, Usable, NoFetch, Request, TypeOK
<1>5. CASE Reload
  BY <1>1, <1>5 DEF Asked, Reload, NoFetch, Request
<1>6. CASE Serve
  BY <1>1, <1>6 DEF Asked, Serve, TypeOK, Fetches
<1>7. CASE Arrive
  <2>1. fetch.data # None
    BY <1>7, NoneAssumption DEF Arrive, Asked, Answers
  <2> QED BY <1>1, <1>7, <2>1 DEF Asked, Arrive, NoEntry, NoFetch
<1>8. CASE FetchFails
  <2>1. fetch'.pc = "idle" /\ entry'.error
    BY <1>8 DEF FetchFails, NoFetch, Asked, TypeOK, Entries
  <2> QED BY <1>1, <2>1 DEF Asked
<1>9. CASE Refetch \/ Poll \/ Retry
  BY <1>2, <1>9 DEF Refetch, Poll, Retry, NoFetch, Request
<1>10. CASE Age
  BY <1>1, <1>10 DEF Asked, Age, TypeOK, Entries
<1>11. CASE Collect
  BY <1>1, <1>11 DEF Asked, Collect, NoEntry
<1>12. ASSUME NEW c \in Calls, Settle(c) PROVE Asked'
  <2>1. entry'.data = entry.data /\ entry'.error = entry.error /\ UNCHANGED shown
    BY <1>12 DEF Settle, Asked, TypeOK, Entries
  <2>2. fetch'.pc = "sent" \/ (fetch'.pc = fetch.pc /\ fetch'.data = fetch.data)
    BY <1>12 DEF Settle, Asked, TypeOK, Fetches, NoFetch, Request
  <2> QED BY <1>1, <2>1, <2>2 DEF Asked
<1>13. CASE Elsewhere \/ Finish \/ UNCHANGED vars
  BY <1>2, <1>13 DEF Elsewhere, Finish, vars
<1>14. ASSUME NEW c \in Calls, CallStep(c) PROVE Asked'
  BY <1>2, <1>12, <1>14 DEF CallStep, Call, Commit, CallFails
<1> QED BY <1>3, <1>4, <1>5, <1>6, <1>7, <1>8, <1>9, <1>10, <1>11, <1>13, <1>14 DEF Next

(* Whatever the tables say, a page that has nothing to show has a request out  *)
(* or shows its error with the Retry button (Open, Turn, FetchFails).         *)
THEOREM SpinnerEnds == Spec => []NoEndlessSpinner
<1>1. Init => Asked
  BY InitIInv DEF IInv, GoodAnswer, Asked
<1>2. Asked => NoEndlessSpinner
  BY DEF Asked
<1> QED BY <1>1, <1>2, AskedStep, PTL DEF Spec

=============================================================================
