------------------------- MODULE RightsReportProofs -------------------------
(* What RightsFulfillment records of an erasure is true, and no message leaves *)
(* the broker, and no deletion stays unrecorded, without one of the reasons    *)
(* that DeletionsRecorded names.                                              *)
EXTENDS RightsFulfillmentProofs

(* What grows or shrinks with every step.                                     *)
StoresShrink ==
    \A r \in Requests : holds'[r] \subseteq holds[r] /\ erased[r] \subseteq erased'[r]

LEMMA HistoryGrows ==
    ASSUME IInv, [Next]_vars
    PROVE  StoresShrink /\ failed \subseteq failed'
<1> DEFINE Grown == StoresShrink /\ failed \subseteq failed'
<1> SUFFICES Grown
  OBVIOUS
<1>1. ASSUME holds' = holds, erased' = erased, failed \subseteq failed' PROVE Grown
  BY <1>1 DEF StoresShrink
<1>2. ASSUME NEW w \in Workers, WorkerStep(w) PROVE Grown
  <2>1. CASE \E t \in Tasks : SearchStart(w, t) \/ EraseStart(w, t)
    BY <1>1, <2>1 DEF SearchStart, EraseStart, history
  <2>2. CASE \E s \in Sources : \/ SearchSource(w, s) \/ LeaveToOperator(w, s)
                               \/ EraseError(w, s)
    BY <1>1, <2>2 DEF SearchSource, LeaveToOperator, EraseError, history
  <2>3. CASE SearchLoad(w) \/ SearchCommit(w) \/ Ack(w)
    BY <1>1, <2>3 DEF SearchLoad, SearchCommit, Ack, history
  <2>4. CASE EraseCommit(w)
    BY <1>1, <2>4 DEF EraseCommit
  <2>5. CASE \E s \in Sources : EraseSource(w, s)
    BY <2>5 DEF EraseSource, IInv, TypeOK, StoresShrink
  <2> QED BY <1>2, <2>1, <2>2, <2>3, <2>4, <2>5 DEF WorkerStep
<1>3. CASE Failure
  BY <1>1, <1>3 DEF Failure, HandlerFail, TaskError, WorkerCrash, Redeliver, history
<1>4. ASSUME NEW h \in Handlers, HandlerStep(h) PROVE Grown
  BY <1>1, <1>4 DEF HandlerStep, VerifyRead, ApproveRead, UpdateRead, VerifyWrite,
     ApproveWrite, UpdateWrite, HandlerSend, history
<1>5. ASSUME NEW r \in Requests,
             \/ \E type \in RequestTypes : Create(r, type)
             \/ \E status \in OperatorStatuses : Update(r, status)
             \/ SearchPrincipal(r)
      PROVE  Grown
  BY <1>1, <1>5 DEF Create, Update, SearchPrincipal, history
<1>6. CASE UNCHANGED vars \/ \E s \in Sources : AssetStatus(s)
  BY <1>1, <1>6 DEF vars, AssetStatus, history
<1> HIDE DEF Grown
<1> QED BY <1>2, <1>3, <1>4, <1>5, <1>6 DEF Next

----------------------------------------------------------------------------
(* Where a report comes from.                                                 *)

(* Every row keeps its report.                                                *)
RowsKept ==
    \A r \in Requests :
        rr'[r].fulfilled => rr[r].fulfilled /\ rr'[r].result = rr[r].result

LEMMA RowWritten ==
    ASSUME TypeOK, NEW r \in Requests, NEW row, rr' = [rr EXCEPT ![r] = row],
           row.fulfilled = rr[r].fulfilled, row.result = rr[r].result
    PROVE  RowsKept
<1>1. \A q \in Requests : rr'[q] = IF q = r THEN row ELSE rr[q]
  BY DEF TypeOK
<1> QED BY <1>1 DEF RowsKept

LEMMA RowsUntouched == ASSUME rr' = rr PROVE RowsKept
BY DEF RowsKept

(* Every step but EraseCommit and UpdateWrite leaves the reports alone.       *)
LEMMA ReportsKept ==
    ASSUME IInv, [Next]_vars, \A w \in Workers : ~EraseCommit(w),
           \A h \in Handlers : ~UpdateWrite(h)
    PROVE  RowsKept
<1>1. ASSUME NEW r \in Requests, NEW type \in RequestTypes, Create(r, type)
      PROVE  RowsKept
  <2> DEFINE row == [NoRow EXCEPT !.type = type, !.status = "received"]
  <2>1. ~row.fulfilled
    BY DEF NoRow
  <2>2. rr' = [rr EXCEPT ![r] = row]
    BY <1>1 DEF Create
  <2> HIDE DEF row
  <2>3. \A q \in Requests : rr'[q] = IF q = r THEN row ELSE rr[q]
    BY <2>2 DEF IInv, TypeOK
  <2> QED BY <2>1, <2>3 DEF RowsKept
<1>2. ASSUME NEW r \in Requests, NEW status \in OperatorStatuses, Update(r, status)
      PROVE  RowsKept
  <2> DEFINE row == [rr[r] EXCEPT !.status = status]
  <2>1. rr[r] \in Rows /\ rr' = [rr EXCEPT ![r] = row]
    BY <1>2 DEF Update, IInv, TypeOK
  <2>2. row.fulfilled = rr[r].fulfilled /\ row.result = rr[r].result
    BY <2>1 DEF Rows
  <2> QED BY <2>1, <2>2, RowWritten DEF IInv
<1>3. ASSUME NEW h \in Handlers, HandlerStep(h)
      PROVE  RowsKept
  <2>1. CASE VerifyWrite(h)
    <3> DEFINE r == handler[h].req
               row == [rr[r] EXCEPT !.verified = TRUE,
                           !.status = IF handler[h].seen = "received" THEN "in_progress"
                                      ELSE handler[h].seen]
    <3>1. r \in Requests /\ handler[h] \in HandlerStates
      BY <2>1 DEF VerifyWrite, IInv, HandlerInv, TypeOK
    <3>2. rr[r] \in Rows /\ rr' = [rr EXCEPT ![r] = row]
      BY <2>1, <3>1 DEF VerifyWrite, IInv, TypeOK
    <3>3. row.fulfilled = rr[r].fulfilled /\ row.result = rr[r].result
      BY <3>1, <3>2 DEF Rows, HandlerStates, Statuses
    <3> QED BY <3>1, <3>2, <3>3, RowWritten DEF IInv
  <2>2. CASE ApproveWrite(h)
    <3> DEFINE r == handler[h].req
               row == [rr[r] EXCEPT !.approved = TRUE, !.status = "in_progress"]
    <3>1. r \in Requests
      BY <2>2 DEF ApproveWrite, IInv, HandlerInv
    <3>2. rr[r] \in Rows /\ rr' = [rr EXCEPT ![r] = row]
      BY <2>2, <3>1 DEF ApproveWrite, IInv, TypeOK
    <3>3. row.fulfilled = rr[r].fulfilled /\ row.result = rr[r].result
      BY <3>2 DEF Rows
    <3> QED BY <3>1, <3>2, <3>3, RowWritten DEF IInv
  <2>3. CASE \/ \E r \in Requests : \/ VerifyRead(h, r) \/ ApproveRead(h, r)
                                   \/ UpdateRead(h, r)
             \/ HandlerSend(h)
    BY <2>3, RowsUntouched DEF VerifyRead, ApproveRead, UpdateRead, HandlerSend
  <2> QED BY <1>3, <2>1, <2>2, <2>3 DEF HandlerStep
<1>4. ASSUME NEW w \in Workers, WorkerStep(w)
      PROVE  RowsKept
  <2>1. CASE SearchCommit(w)
    <3> DEFINE r == Req(w)
               seen == run[w].seen
               next == IF rr[r].type = "erasure" THEN "pending_approval"
                       ELSE IF seen = "received" THEN "in_progress" ELSE seen
               row == [rr[r] EXCEPT !.discovered = TRUE,
                           !.plan = IF rr[r].type = "erasure" THEN run[w].found ELSE @,
                           !.status = IF next # seen THEN next ELSE @]
    <3>1. r \in Requests /\ run[w] \in RunStates
      BY <2>1 DEF SearchCommit, IInv, WorkerInv, TaskInv, TypeOK, Req
    <3>2. rr[r] \in Rows /\ rr' = [rr EXCEPT ![r] = row]
      BY <2>1, <3>1 DEF SearchCommit, IInv, TypeOK
    <3>3. row.fulfilled = rr[r].fulfilled /\ row.result = rr[r].result
      BY <3>1, <3>2 DEF Rows, RunStates, Statuses, Exists
    <3> HIDE DEF row, next, seen, r
    <3> QED BY <3>1, <3>2, <3>3, RowWritten DEF IInv
  <2>2. CASE \E t \in Tasks : SearchStart(w, t) \/ EraseStart(w, t)
    BY <2>2, RowsUntouched DEF SearchStart, EraseStart
  <2>3. CASE \E s \in Sources : \/ SearchSource(w, s) \/ LeaveToOperator(w, s)
                               \/ EraseSource(w, s) \/ EraseError(w, s)
    BY <2>3, RowsUntouched DEF SearchSource, LeaveToOperator, EraseSource, EraseError
  <2>4. CASE SearchLoad(w) \/ Ack(w)
    BY <2>4, RowsUntouched DEF SearchLoad, Ack
  <2> QED BY <1>4, <2>1, <2>2, <2>3, <2>4 DEF WorkerStep
<1>5. CASE Failure
  BY <1>5, RowsUntouched DEF Failure, HandlerFail, TaskError, WorkerCrash, Redeliver
<1>6. ASSUME \/ \E r \in Requests : SearchPrincipal(r)
             \/ \E s \in Sources : AssetStatus(s)
             \/ UNCHANGED vars
      PROVE  RowsKept
  BY <1>6, RowsUntouched DEF SearchPrincipal, AssetStatus, vars
<1> QED BY <1>1, <1>2, <1>3, <1>4, <1>5, <1>6 DEF Next

(* A report was there before, or is the outcome of a run, or comes from an     *)
(* older copy of the row.                                                     *)
LEMMA ReportFrom ==
    ASSUME IInv, [Next]_vars, NEW r \in Requests, rr'[r].fulfilled
    PROVE  \/ rr[r].fulfilled /\ rr'[r].result = rr[r].result
           \/ \E w \in Workers : /\ run[w].pc = "erase" /\ Req(w) = r
                                 /\ rr'[r].result = run[w].outcome
           \/ \E h \in Handlers : /\ handler[h].pc = "update_write" /\ handler[h].req = r
                                  /\ handler[h].row.fulfilled
                                  /\ rr'[r].result = handler[h].row.result
<1>1. ASSUME NEW w \in Workers, EraseCommit(w)
      PROVE  \/ rr'[r] = rr[r]
             \/ run[w].pc = "erase" /\ Req(w) = r /\ rr'[r].result = run[w].outcome
  <2> DEFINE q == Req(w)
             row == [rr[q] EXCEPT !.fulfilled = TRUE, !.result = run[w].outcome,
                         !.status = IF run[w].seen # "completed" THEN "completed" ELSE @]
  <2>1. q \in Requests /\ rr[q] \in Rows /\ run[w].pc = "erase"
    BY <1>1 DEF IInv, TypeOK, WorkerInv, TaskInv, Req, EraseCommit
  <2>2. rr' = [rr EXCEPT ![q] = row] \/ rr' = rr
    BY <1>1 DEF EraseCommit
  <2>3. row.result = run[w].outcome
    BY <2>1 DEF Rows
  <2> HIDE DEF row, q
  <2>4. rr'[r] = rr[r] \/ (q = r /\ rr'[r] = row)
    BY <2>1, <2>2 DEF IInv, TypeOK
  <2> QED BY <2>1, <2>3, <2>4 DEF q
<1>2. ASSUME NEW h \in Handlers, UpdateWrite(h)
      PROVE  \/ rr'[r] = rr[r]
             \/ /\ handler[h].pc = "update_write" /\ handler[h].req = r
                /\ rr'[r] = handler[h].row
  BY <1>2 DEF UpdateWrite, IInv, TypeOK, HandlerInv
<1>3. CASE (\A w \in Workers : ~EraseCommit(w)) /\ \A h \in Handlers : ~UpdateWrite(h)
  BY <1>3, ReportsKept DEF RowsKept
<1> QED BY <1>1, <1>2, <1>3

----------------------------------------------------------------------------
(* Messages. *)

Live(t) == task[t].state \in {"queued", "unacked"}

(* A message that waits for an end keeps waiting until a worker that is done   *)
(* with it acknowledges it.                                                   *)
LEMMA MessagesKept ==
    ASSUME IInv, [Next]_vars
    PROVE  /\ TasksGrow
           /\ \A t \in Tasks : Live(t) => \/ Live(t)'
                                         \/ \E w \in Workers : Ack(w) /\ run[w].task = t
           /\ \A t \in Tasks : task'[t].state = "acked" => task[t].state = "acked" \/ Live(t)
<1> DEFINE Kept == /\ TasksGrow
                   /\ \A t \in Tasks : Live(t) => \/ Live(t)'
                                                  \/ \E w \in Workers :
                                                       Ack(w) /\ run[w].task = t
                   /\ \A t \in Tasks : task'[t].state = "acked" =>
                                           task[t].state = "acked" \/ Live(t)
<1> SUFFICES Kept
  OBVIOUS
<1>1. ASSUME task' = task PROVE Kept
  BY <1>1 DEF TasksGrow, Live
<1>2. ASSUME NEW t \in Tasks, NEW state \in {"queued", "unacked"},
             task[t].state # "unsent", task' = [task EXCEPT ![t].state = state]
      PROVE  Kept
  <2>1. \A u \in Tasks : u # t => task'[u] = task[u]
    BY <1>2 DEF IInv, TypeOK
  <2>2. task'[t].state = state /\ task'[t].kind = task[t].kind /\ task'[t].req = task[t].req
    BY <1>2 DEF IInv, TypeOK, TaskStates
  <2> QED BY <2>1, <2>2 DEF TasksGrow, Live
<1>3. ASSUME NEW kind, NEW r, Publish(kind, r) PROVE Kept
  BY <1>3 DEF Publish, TasksGrow, Live, IInv, TypeOK
<1>4. ASSUME NEW w \in Workers, NEW state \in {"acked", "queued"}, run[w].pc # "idle",
             task' = [task EXCEPT ![run[w].task].state = IF @ = "unacked" THEN state ELSE @],
             state = "acked" => Ack(w)
      PROVE  Kept
  <2> DEFINE t == run[w].task
             next == IF task[t].state = "unacked" THEN state ELSE task[t].state
  <2>1. t \in Tasks /\ task[t].state # "unsent" /\ task[t] \in TaskStates
    BY <1>4 DEF IInv, TypeOK, WorkerInv
  <2>2. \A u \in Tasks : u # t => task'[u] = task[u]
    BY <1>4 DEF IInv, TypeOK
  <2>3. task'[t].state = next /\ task'[t].kind = task[t].kind /\ task'[t].req = task[t].req
    BY <1>4, <2>1 DEF IInv, TypeOK, TaskStates
  <2> QED BY <1>4, <2>1, <2>2, <2>3 DEF TasksGrow, Live
<1>5. ASSUME NEW w \in Workers, WorkerStep(w) PROVE Kept
  <2>1. CASE \E t \in Tasks : SearchStart(w, t) \/ EraseStart(w, t)
    BY <2>1, <1>2 DEF SearchStart, EraseStart, Take
  <2>2. CASE Ack(w)
    BY <2>2, <1>4 DEF Ack
  <2>3. CASE \E s \in Sources : \/ SearchSource(w, s) \/ LeaveToOperator(w, s)
                               \/ EraseSource(w, s) \/ EraseError(w, s)
    BY <2>3, <1>1 DEF SearchSource, LeaveToOperator, EraseSource, EraseError
  <2>4. CASE SearchLoad(w) \/ SearchCommit(w) \/ EraseCommit(w)
    BY <2>4, <1>1 DEF SearchLoad, SearchCommit, EraseCommit
  <2> QED BY <1>5, <2>1, <2>2, <2>3, <2>4 DEF WorkerStep
<1>6. ASSUME NEW h \in Handlers, HandlerStep(h) PROVE Kept
  BY <1>6, <1>1, <1>3 DEF HandlerStep, VerifyRead, ApproveRead, UpdateRead, VerifyWrite,
     ApproveWrite, UpdateWrite, HandlerSend
<1>7. CASE Failure
  <2>1. CASE \E h \in Handlers : HandlerFail(h)
    BY <2>1, <1>1 DEF HandlerFail
  <2>2. CASE \E w \in Workers : TaskError(w)
    BY <2>2, <1>1 DEF TaskError
  <2>3. CASE \E w \in Workers : WorkerCrash(w)
    BY <2>3, <1>4 DEF WorkerCrash
  <2>4. CASE \E t \in Tasks : Redeliver(t)
    BY <2>4, <1>2 DEF Redeliver
  <2> QED BY <1>7, <2>1, <2>2, <2>3, <2>4 DEF Failure
<1>8. ASSUME NEW r \in Requests,
             \/ \E type \in RequestTypes : Create(r, type)
             \/ \E status \in OperatorStatuses : Update(r, status)
             \/ SearchPrincipal(r)
      PROVE  Kept
  BY <1>8, <1>1, <1>3 DEF Create, Update, SearchPrincipal
<1>9. ASSUME NEW s \in Sources, AssetStatus(s) PROVE Kept
  BY <1>9, <1>1 DEF AssetStatus
<1>11. CASE UNCHANGED vars
  BY <1>11, <1>1 DEF vars
<1> HIDE DEF Kept
<1> QED BY <1>5, <1>6, <1>7, <1>8, <1>9, <1>11 DEF Next

----------------------------------------------------------------------------
(* The report is true: what a run notes of a source stays so, because records *)
(* never come back and the history of deletions only grows.                   *)

Claims(r, note) ==
    \A s \in Sources : /\ note[s] = "erased_nothing" => s \notin holds[r]
                       /\ note[s] = "erased" => s \in erased[r]

OutcomeTrue == \A w \in Workers : run[w].pc = "erase" => Claims(Req(w), run[w].outcome)

CopyTrue ==
    \A h \in Handlers : handler[h].pc = "update_write" /\ handler[h].row.fulfilled =>
        Claims(handler[h].req, handler[h].row.result)

TruthInv == IInv /\ OutcomeTrue /\ CopyTrue /\ ReportTruthful

(* What a step may do to the locals of a worker that erases: nothing, or note *)
(* that a source was not erased, or start with an empty note.                 *)
NotesKept ==
    \A w \in Workers : run'[w].pc = "erase" => \A s \in Sources :
        \/ run'[w].outcome[s] \notin {"erased", "erased_nothing"}
        \/ /\ run[w].pc = "erase" /\ run'[w].task = run[w].task
           /\ run'[w].outcome[s] = run[w].outcome[s]

LEMMA ReqKept ==
    ASSUME IInv, TasksGrow, NEW w \in Workers, run[w].pc # "idle",
           run'[w].task = run[w].task
    PROVE  task'[run'[w].task].req = Req(w) /\ Req(w) \in Requests
BY DEF IInv, WorkerInv, TaskInv, TasksGrow, Req

LEMMA OutcomeFrame ==
    ASSUME TruthInv, TasksGrow, StoresShrink, NotesKept
    PROVE  OutcomeTrue'
<1> SUFFICES ASSUME NEW w \in Workers, run'[w].pc = "erase", NEW s \in Sources,
                    run'[w].outcome[s] \in {"erased", "erased_nothing"}
             PROVE  LET r == task'[run'[w].task].req
                    IN  /\ run'[w].outcome[s] = "erased_nothing" => s \notin holds'[r]
                        /\ run'[w].outcome[s] = "erased" => s \in erased'[r]
  BY DEF OutcomeTrue, Claims, Req
<1>1. /\ run[w].pc = "erase" /\ run'[w].task = run[w].task
      /\ run'[w].outcome[s] = run[w].outcome[s]
  BY DEF NotesKept
<1>2. task'[run'[w].task].req = Req(w) /\ Req(w) \in Requests
  BY <1>1, ReqKept DEF TruthInv
<1>3. Claims(Req(w), run[w].outcome)
  BY <1>1 DEF TruthInv, OutcomeTrue
<1> QED BY <1>1, <1>2, <1>3 DEF Claims, StoresShrink

(* A worker replaced by one that notes nothing new.                           *)
LEMMA NotesSame ==
    ASSUME IInv, NEW w \in Workers, NEW st, run' = [run EXCEPT ![w] = st],
           st.pc = "erase" => \A s \in Sources :
               \/ st.outcome[s] \notin {"erased", "erased_nothing"}
               \/ /\ run[w].pc = "erase" /\ st.task = run[w].task
                  /\ st.outcome[s] = run[w].outcome[s]
    PROVE  NotesKept
<1>1. \A v \in Workers : run'[v] = IF v = w THEN st ELSE run[v]
  BY DEF IInv, TypeOK
<1> QED BY <1>1 DEF NotesKept

LEMMA NotesOfStep ==
    ASSUME IInv, [Next]_vars, \A w \in Workers, s \in Sources : ~EraseSource(w, s)
    PROVE  NotesKept
<1>1. ASSUME run' = run PROVE NotesKept
  BY <1>1 DEF NotesKept
<1>2. ASSUME NEW w \in Workers, NEW pc \in {"idle", "search", "search_commit", "ack"}, NEW st,
             run' = [run EXCEPT ![w] = st], st.pc = pc
      PROVE  NotesKept
  BY <1>2, NotesSame
<1>3. ASSUME NEW w \in Workers, Leave(w) PROVE NotesKept
  <2> DEFINE st == [IdleRun EXCEPT !.pc = "ack", !.task = run[w].task]
  <2>1. run' = [run EXCEPT ![w] = st] /\ st.pc = "ack"
    BY <1>3 DEF Leave, IdleRun
  <2> HIDE DEF st
  <2> QED BY <2>1, <1>2
<1>4. ASSUME NEW w \in Workers, WorkerStep(w) PROVE NotesKept
  <2>1. ASSUME NEW t \in Tasks, SearchStart(w, t) PROVE NotesKept
    <3> DEFINE st == [IdleRun EXCEPT !.pc = "search", !.task = t, !.todo = connected]
    <3>1. run' = [run EXCEPT ![w] = st] /\ st.pc = "search"
      BY <2>1 DEF SearchStart, IdleRun
    <3> HIDE DEF st
    <3> QED BY <3>1, <1>2
  <2>2. ASSUME NEW t \in Tasks, EraseStart(w, t) PROVE NotesKept
    <3> DEFINE row == rr[task[t].req]
               on == [IdleRun EXCEPT !.pc = "erase", !.task = t, !.todo = row.plan,
                                     !.assets = connected, !.seen = row.status]
               off == [IdleRun EXCEPT !.pc = "ack", !.task = t]
               st == IF row.type = "erasure" /\ row.approved THEN on ELSE off
    <3>1. run' = [run EXCEPT ![w] = st]
      BY <2>2 DEF EraseStart
    <3>2. \A s \in Sources : st.outcome[s] = "none"
      BY DEF IdleRun, NoOutcome
    <3> HIDE DEF st
    <3> QED BY <3>1, <3>2, NotesSame
  <2>3. ASSUME NEW s \in Sources, SearchSource(w, s) PROVE NotesKept
    <3>1. PICK hit \in BOOLEAN :
             run' = [run EXCEPT ![w].todo = @ \ {s},
                                ![w].found = IF hit THEN @ \cup {s} ELSE @]
      BY <2>3 DEF SearchSource
    <3> DEFINE st == [run[w] EXCEPT !.todo = @ \ {s},
                                    !.found = IF hit THEN @ \cup {s} ELSE @]
    <3>2. run' = [run EXCEPT ![w] = st] /\ st.pc = "search"
      BY <2>3, <3>1 DEF IInv, TypeOK, RunStates, SearchSource
    <3> HIDE DEF st
    <3> QED BY <3>2, <1>2
  <2>4. ASSUME NEW s \in Sources, LeaveToOperator(w, s) \/ EraseError(w, s) PROVE NotesKept
    <3>1. PICK outcome \in {"manual_required", "error"} : Record(w, s, outcome)
      BY <2>4 DEF LeaveToOperator, EraseError
    <3> DEFINE st == [run[w] EXCEPT !.todo = @ \ {s}, !.outcome = [@ EXCEPT ![s] = outcome]]
    <3>2. run' = [run EXCEPT ![w] = st]
      BY <3>1 DEF Record
    <3>3. run[w] \in RunStates /\ run[w].pc = "erase"
      BY <2>4 DEF IInv, TypeOK, LeaveToOperator, EraseError
    <3>4. /\ st.task = run[w].task
          /\ \A x \in Sources : st.outcome[x] = IF x = s THEN outcome ELSE run[w].outcome[x]
      BY <3>3 DEF RunStates
    <3> HIDE DEF st
    <3> QED BY <3>2, <3>3, <3>4, NotesSame
  <2>5. CASE SearchLoad(w)
    <3> DEFINE st == [run[w] EXCEPT !.pc = "search_commit", !.seen = rr[Req(w)].status]
    <3>1. run' = [run EXCEPT ![w] = st] /\ st.pc = "search_commit"
      BY <2>5 DEF SearchLoad, IInv, TypeOK, RunStates
    <3> HIDE DEF st
    <3> QED BY <3>1, <1>2
  <2>6. CASE SearchCommit(w) \/ EraseCommit(w)
    BY <2>6, <1>3 DEF SearchCommit, EraseCommit
  <2>7. CASE Ack(w)
    BY <2>7, <1>2 DEF Ack, IdleRun
  <2> QED BY <1>4, <2>1, <2>2, <2>3, <2>4, <2>5, <2>6, <2>7 DEF WorkerStep
<1>5. CASE Failure
  <2>1. CASE \E w \in Workers : TaskError(w)
    BY <2>1, <1>3 DEF TaskError
  <2>2. CASE \E w \in Workers : WorkerCrash(w)
    BY <2>2, <1>2 DEF WorkerCrash, IdleRun
  <2>3. CASE \/ \E h \in Handlers : HandlerFail(h)
             \/ \E t \in Tasks : Redeliver(t)
    BY <2>3, <1>1 DEF HandlerFail, Redeliver
  <2> QED BY <1>5, <2>1, <2>2, <2>3 DEF Failure
<1>6. ASSUME NEW h \in Handlers, HandlerStep(h) PROVE NotesKept
  BY <1>6, <1>1 DEF HandlerStep, VerifyRead, ApproveRead, UpdateRead, VerifyWrite,
     ApproveWrite, UpdateWrite, HandlerSend
<1>7. ASSUME NEW r \in Requests,
             \/ \E type \in RequestTypes : Create(r, type)
             \/ \E status \in OperatorStatuses : Update(r, status)
             \/ SearchPrincipal(r)
      PROVE  NotesKept
  BY <1>7, <1>1 DEF Create, Update, SearchPrincipal
<1>8. ASSUME NEW s \in Sources, AssetStatus(s) PROVE NotesKept
  BY <1>8, <1>1 DEF AssetStatus
<1>9. CASE UNCHANGED vars
  BY <1>9, <1>1 DEF vars
<1> QED BY <1>4, <1>5, <1>6, <1>7, <1>8, <1>9 DEF Next

LEMMA OutcomeOfDeletion ==
    ASSUME TruthInv, NEW w \in Workers, NEW s \in Sources, EraseSource(w, s), StoresShrink
    PROVE  OutcomeTrue'
<1> DEFINE r == Req(w)
           note == IF s \in holds[r] THEN "erased" ELSE "erased_nothing"
           st == [run[w] EXCEPT !.todo = @ \ {s}, !.outcome = [@ EXCEPT ![s] = note]]
<1> USE DEF TruthInv
<1>1. run[w].pc = "erase" /\ rr' = rr /\ task' = task /\ run[w] \in RunStates
  BY DEF EraseSource, IInv, TypeOK
<1>2. \A v \in Workers : run[v].pc = "erase" => Req(v) \in Requests
  BY DEF IInv, WorkerInv, TaskInv, Req
<1>3. s \in holds[r] => s \in erased'[r]
  BY <1>1, <1>2 DEF EraseSource, IInv, TypeOK
<1>4. \A v \in Workers : run'[v] = IF v = w THEN st ELSE run[v]
  BY DEF EraseSource, Record, IInv, TypeOK
<1>5. /\ st.pc = "erase" /\ st.task = run[w].task
      /\ \A x \in Sources : st.outcome[x] = IF x = s THEN note ELSE run[w].outcome[x]
  BY <1>1 DEF RunStates
<1>6. \A v \in Workers : task'[run'[v].task].req = Req(v)
  BY <1>1, <1>4, <1>5 DEF Req
<1> HIDE DEF st
<1> SUFFICES ASSUME NEW v \in Workers, run'[v].pc = "erase", NEW x \in Sources
             PROVE  /\ run'[v].outcome[x] = "erased_nothing" => x \notin holds'[Req(v)]
                    /\ run'[v].outcome[x] = "erased" => x \in erased'[Req(v)]
  BY <1>6 DEF OutcomeTrue, Claims, Req
<1>7. run[v].pc = "erase" /\ Req(v) \in Requests
  BY <1>1, <1>2, <1>4
<1>8. holds'[Req(v)] \subseteq holds[Req(v)] /\ erased[Req(v)] \subseteq erased'[Req(v)]
  BY <1>7 DEF StoresShrink
<1>9. CASE v = w /\ x = s
  BY <1>3, <1>4, <1>5, <1>8, <1>9
<1>10. CASE ~(v = w /\ x = s)
  <2>1. run'[v].outcome[x] = run[v].outcome[x]
    BY <1>4, <1>5, <1>10
  <2>2. Claims(Req(v), run[v].outcome)
    BY <1>7 DEF OutcomeTrue
  <2> QED BY <1>8, <2>1, <2>2 DEF Claims
<1> QED BY <1>9, <1>10

(* A copy of a row is taken by UpdateRead alone.                              *)
LEMMA CopyTaken ==
    ASSUME IInv, [Next]_vars, NEW h \in Handlers, handler'[h].pc = "update_write"
    PROVE  \/ handler'[h] = handler[h]
           \/ handler'[h].req \in Requests /\ handler'[h].row = rr[handler'[h].req]
<1> DEFINE Kept == \/ handler'[h] = handler[h]
                   \/ /\ handler'[h].req \in Requests
                      /\ handler'[h].row = rr[handler'[h].req]
<1> SUFFICES Kept
  OBVIOUS
<1>1. ASSUME handler' = handler PROVE Kept
  BY <1>1
<1>2. ASSUME NEW g \in Handlers, NEW st, handler' = [handler EXCEPT ![g] = st],
             st.pc # "update_write"
      PROVE  Kept
  BY <1>2 DEF IInv, TypeOK
<1>3. ASSUME NEW g \in Handlers, HandlerStep(g) PROVE Kept
  <2>0. handler[g] \in HandlerStates
    BY DEF IInv, TypeOK
  <2>1. ASSUME NEW r \in Requests, UpdateRead(g, r) PROVE Kept
    <3> DEFINE st == [IdleHandler EXCEPT !.pc = "update_write", !.req = r, !.row = rr[r]]
    <3>1. handler' = [handler EXCEPT ![g] = st] /\ st.req = r /\ st.row = rr[r]
      BY <2>1 DEF UpdateRead, IdleHandler
    <3> HIDE DEF st
    <3> QED BY <3>1 DEF IInv, TypeOK
  <2>2. ASSUME NEW r \in Requests, VerifyRead(g, r) \/ ApproveRead(g, r) PROVE Kept
    <3>1. PICK st : handler' = [handler EXCEPT ![g] = st] /\ st.pc # "update_write"
      <4>1. CASE VerifyRead(g, r)
        <5> DEFINE st == [IdleHandler EXCEPT !.pc = "verify_write", !.req = r,
                                             !.seen = rr[r].status]
        <5>1. handler' = [handler EXCEPT ![g] = st] /\ st.pc # "update_write"
          BY <4>1 DEF VerifyRead, IdleHandler
        <5> QED BY <5>1
      <4>2. CASE ApproveRead(g, r)
        <5> DEFINE st == [IdleHandler EXCEPT !.pc = "approve_write", !.req = r]
        <5>1. handler' = [handler EXCEPT ![g] = st] /\ st.pc # "update_write"
          BY <4>2 DEF ApproveRead, IdleHandler
        <5> QED BY <5>1
      <4> QED BY <2>2, <4>1, <4>2
    <3> QED BY <1>2, <3>1
  <2>3. CASE VerifyWrite(g) \/ ApproveWrite(g)
    <3>1. PICK pc \in {"verify_send", "approve_send"} :
             handler' = [handler EXCEPT ![g].pc = pc]
      BY <2>3 DEF VerifyWrite, ApproveWrite
    <3> DEFINE st == [handler[g] EXCEPT !.pc = pc]
    <3>2. handler' = [handler EXCEPT ![g] = st] /\ st.pc # "update_write"
      BY <2>0, <3>1 DEF HandlerStates
    <3> HIDE DEF st
    <3> QED BY <1>2, <3>2
  <2>4. CASE UpdateWrite(g) \/ HandlerSend(g)
    <3>1. handler' = [handler EXCEPT ![g] = IdleHandler] /\ IdleHandler.pc # "update_write"
      BY <2>4 DEF UpdateWrite, HandlerSend, IdleHandler
    <3> QED BY <1>2, <3>1
  <2> QED BY <1>3, <2>1, <2>2, <2>3, <2>4 DEF HandlerStep
<1>4. ASSUME NEW w \in Workers, WorkerStep(w) PROVE Kept
  BY <1>1, <1>4 DEF WorkerStep, SearchStart, EraseStart, SearchSource, LeaveToOperator,
     EraseSource, EraseError, SearchLoad, SearchCommit, EraseCommit, Ack
<1>5. CASE Failure
  <2>1. ASSUME NEW g \in Handlers, HandlerFail(g) PROVE Kept
    <3>1. handler' = [handler EXCEPT ![g] = IdleHandler] /\ IdleHandler.pc # "update_write"
      BY <2>1 DEF HandlerFail, IdleHandler
    <3> QED BY <1>2, <3>1
  <2> QED BY <1>1, <1>5, <2>1 DEF Failure, TaskError, WorkerCrash, Redeliver
<1>6. ASSUME NEW r \in Requests,
             \/ \E type \in RequestTypes : Create(r, type)
             \/ \E status \in OperatorStatuses : Update(r, status)
             \/ SearchPrincipal(r)
      PROVE  Kept
  BY <1>1, <1>6 DEF Create, Update, SearchPrincipal
<1>7. CASE UNCHANGED vars \/ \E s \in Sources : AssetStatus(s)
  BY <1>1, <1>7 DEF vars, AssetStatus
<1> HIDE DEF Kept
<1> QED BY <1>3, <1>4, <1>5, <1>6, <1>7 DEF Next

LEMMA TruthStep == TruthInv /\ [Next]_vars => TruthInv'
<1> SUFFICES ASSUME TruthInv, [Next]_vars PROVE TruthInv'
  OBVIOUS
<1>1. IInv' /\ TasksGrow /\ StoresShrink
  BY StepInv, MessagesKept, HistoryGrows DEF TruthInv
<1>2. OutcomeTrue'
  <2>1. CASE \E w \in Workers, s \in Sources : EraseSource(w, s)
    BY <1>1, <2>1, OutcomeOfDeletion
  <2>2. CASE \A w \in Workers, s \in Sources : ~EraseSource(w, s)
    BY <1>1, <2>2, NotesOfStep, OutcomeFrame DEF TruthInv
  <2> QED BY <2>1, <2>2
<1>3. CopyTrue'
  <2> SUFFICES ASSUME NEW h \in Handlers, handler'[h].pc = "update_write",
                      handler'[h].row.fulfilled, NEW s \in Sources
               PROVE  LET r == handler'[h].req
                          note == handler'[h].row.result
                      IN  /\ note[s] = "erased_nothing" => s \notin holds'[r]
                          /\ note[s] = "erased" => s \in erased'[r]
    BY DEF CopyTrue, Claims
  <2>1. CASE handler'[h] = handler[h]
    <3>1. handler[h].req \in Requests /\ Claims(handler[h].req, handler[h].row.result)
      BY <2>1 DEF TruthInv, IInv, HandlerInv, CopyTrue
    <3> QED BY <1>1, <2>1, <3>1 DEF Claims, StoresShrink
  <2>2. CASE handler'[h].req \in Requests /\ handler'[h].row = rr[handler'[h].req]
    BY <1>1, <2>2 DEF TruthInv, ReportTruthful, StoresShrink
  <2> QED BY <2>1, <2>2, CopyTaken DEF TruthInv
<1>4. ReportTruthful'
  <2> SUFFICES ASSUME NEW r \in Requests, rr'[r].fulfilled, NEW s \in Sources
               PROVE  /\ rr'[r].result[s] = "erased_nothing" => s \notin holds'[r]
                      /\ rr'[r].result[s] = "erased" => s \in erased'[r]
    BY DEF ReportTruthful
  <2>1. Claims(r, rr'[r].result)
    BY ReportFrom DEF TruthInv, OutcomeTrue, CopyTrue, ReportTruthful, Claims
  <2> QED BY <1>1, <2>1 DEF Claims, StoresShrink
<1> QED BY <1>1, <1>2, <1>3, <1>4 DEF TruthInv

(* Whatever runs, crashes, is delivered twice or is written back: a source     *)
(* that a stored report names without deleted rows holds no record, and rows  *)
(* it claims deleted were deleted.                                            *)
THEOREM ReportsTrue == Spec => []ReportTruthful
<1>1. Init => TruthInv
  BY InitInv DEF Init, TruthInv, OutcomeTrue, CopyTrue, ReportTruthful, NoRow, IdleRun,
     IdleHandler
<1>2. TruthInv => ReportTruthful
  BY DEF TruthInv
<1> QED BY TruthStep, <1>1, <1>2, PTL DEF Spec

----------------------------------------------------------------------------
(* Nothing is lost: a message waits with the broker until it is finished.      *)

Waiting == {t \in Tasks : Live(t)}
Finished == {t \in Tasks : task[t].state # "unsent" /\ (Served(t) \/ t \in failed)}

(* What a worker is to do with its message, and when it may acknowledge it.   *)
WorkerKind ==
    \A w \in Workers :
        /\ run[w].pc \in {"search", "search_commit"} => task[run[w].task].kind = "search"
        /\ run[w].pc = "erase" => /\ task[run[w].task].kind = "erasure"
                                  /\ run[w].task \in Waiting \cup Finished
        /\ run[w].pc = "ack" => run[w].task \in Finished

(* As long as records are gone and no report is stored, a message of the       *)
(* erasure waits, unless it is finished without one.                          *)
Pending ==
    \A r \in Requests : erased[r] # {} =>
        \E t \in ErasureOf(r) : t \in Waiting \cup Finished

Acked == \A t \in Tasks : task[t].state = "acked" => t \in Finished

RecordInv == IInv /\ WorkerKind /\ Pending /\ Acked

LEMMA FinishedStays ==
    ASSUME IInv, [Next]_vars
    PROVE  TasksGrow /\ Finished \subseteq Finished'
<1>1. TasksGrow /\ RowsGrow /\ failed \subseteq failed'
  BY StepInv, MessagesKept, HistoryGrows
<1>2. ASSUME NEW t \in Tasks, task[t].state # "unsent", Served(t) \/ t \in failed
      PROVE  task'[t].state # "unsent" /\ (Served(t)' \/ t \in failed')
  <2>1. /\ task'[t].state # "unsent" /\ task'[t].kind = task[t].kind
        /\ task'[t].req = task[t].req /\ task[t].req \in Requests
    BY <1>1, <1>2 DEF TasksGrow, IInv, TaskInv
  <2>2. \A m \in Marks : Passed(task[t].req, m) => Passed(task[t].req, m)'
    <3> DEFINE r == task[t].req
    <3> HIDE DEF r
    <3>1. r \in Requests => \A m \in Marks : Passed(r, m) =>
             rr'[r][m] \/ m \in undone'[r]
      BY <1>1 DEF RowsGrow, Passed
    <3> QED BY <2>1, <3>1 DEF Passed, r
  <2>3. undone[task[t].req] \subseteq undone'[task[t].req]
    BY <1>1, <2>1 DEF RowsGrow
  <2> QED BY <1>1, <1>2, <2>1, <2>2, <2>3 DEF Served, Marks
<1> QED BY <1>1, <1>2 DEF Finished

(* A message stops waiting only when it is finished.                          *)
LEMMA WaitsUntilFinished ==
    ASSUME RecordInv, [Next]_vars
    PROVE  Waiting \cup Finished \subseteq Waiting' \cup Finished'
<1>1. ASSUME NEW w \in Workers, Ack(w) PROVE run[w].task \in Finished
  BY <1>1 DEF Ack, RecordInv, WorkerKind
<1>2. Finished \subseteq Finished'
  BY FinishedStays DEF RecordInv
<1>3. \A t \in Tasks : Live(t) => Live(t)' \/ \E w \in Workers : Ack(w) /\ run[w].task = t
  BY MessagesKept DEF RecordInv
<1> QED BY <1>1, <1>2, <1>3 DEF Waiting

(* What WorkerKind asks of locals st, on messages and rows after the step.    *)
KindOf(st) ==
    /\ st.pc \in {"search", "search_commit"} => task'[st.task].kind = "search"
    /\ st.pc = "erase" => /\ task'[st.task].kind = "erasure"
                          /\ st.task \in Waiting' \cup Finished'
    /\ st.pc = "ack" => st.task \in Finished'

(* A worker that does not move keeps its kind.                                *)
LEMMA KindKept ==
    ASSUME RecordInv, [Next]_vars, NEW w \in Workers
    PROVE  KindOf(run[w])
<1>1. CASE run[w].pc = "idle"
  BY <1>1 DEF KindOf
<1>2. CASE run[w].pc # "idle"
  <2> DEFINE t == run[w].task
  <2>1. t \in Tasks /\ task[t].state # "unsent"
    BY <1>2 DEF RecordInv, IInv, WorkerInv
  <2>2. task'[t].kind = task[t].kind
    BY <2>1, FinishedStays DEF TasksGrow, RecordInv
  <2>3. /\ Finished \subseteq Finished'
        /\ Waiting \cup Finished \subseteq Waiting' \cup Finished'
    BY FinishedStays, WaitsUntilFinished DEF RecordInv
  <2> QED BY <2>2, <2>3 DEF KindOf, RecordInv, WorkerKind
<1> QED BY <1>1, <1>2

LEMMA KindUnmoved ==
    ASSUME RecordInv, [Next]_vars, run' = run
    PROVE  WorkerKind'
<1>1. \A w \in Workers : KindOf(run[w])
  BY KindKept
<1> QED BY <1>1 DEF KindOf, WorkerKind

LEMMA KindMoved ==
    ASSUME RecordInv, [Next]_vars, NEW w \in Workers, NEW st,
           run' = [run EXCEPT ![w] = st], KindOf(st)
    PROVE  WorkerKind'
<1>1. \A v \in Workers : run'[v] = IF v = w THEN st ELSE run[v]
  BY DEF RecordInv, IInv, TypeOK
<1>2. \A v \in Workers : KindOf(run[v])
  BY KindKept
<1>3. \A v \in Workers : KindOf(run'[v])
  BY <1>1, <1>2
<1> QED BY <1>3 DEF KindOf, WorkerKind

(* A worker that goes on with its task.                                       *)
LEMMA KindSame ==
    ASSUME RecordInv, [Next]_vars, NEW w \in Workers, NEW st,
           run' = [run EXCEPT ![w] = st], st.task = run[w].task,
           \/ st.pc = run[w].pc
           \/ run[w].pc = "search" /\ st.pc = "search_commit"
    PROVE  WorkerKind'
<1>1. KindOf(run[w])
  BY KindKept
<1>2. KindOf(st)
  BY <1>1 DEF KindOf
<1> QED BY <1>2, KindMoved

(* A worker that leaves its task has finished it.                             *)
LEMMA KindLeft ==
    ASSUME RecordInv, [Next]_vars, NEW w \in Workers, run[w].pc # "idle", Leave(w),
           task' = task,
           LET t == run[w].task
           IN  \/ t \in failed'
               \/ task[t].kind = "search" /\ rr'[task[t].req].discovered
               \/ task[t].kind = "erasure" /\ rr'[task[t].req].fulfilled
    PROVE  WorkerKind'
<1>1. PICK st \in RunStates : /\ run' = [run EXCEPT ![w] = st]
                              /\ st.pc = "ack" /\ st.task = run[w].task
  BY Left DEF RecordInv, IInv
<1>2. run[w].task \in Tasks /\ task[run[w].task].state # "unsent"
  BY DEF RecordInv, IInv, WorkerInv
<1>3. run[w].task \in Finished'
  BY <1>2 DEF Finished, Served, Passed
<1> QED BY <1>1, <1>3, KindMoved DEF KindOf

(* The commit of a search stores the discovery.                               *)
LEMMA SearchStores ==
    ASSUME IInv, NEW w \in Workers, SearchCommit(w)
    PROVE  rr'[Req(w)].discovered
<1>1. Req(w) \in Requests /\ rr[Req(w)] \in Rows
  BY DEF SearchCommit, IInv, WorkerInv, TaskInv, TypeOK, Req
<1> QED BY <1>1 DEF SearchCommit, IInv, TypeOK, Rows

(* The commit of an erasure stores the report, or the run fails.              *)
LEMMA CommitStores ==
    ASSUME IInv, NEW w \in Workers, EraseCommit(w)
    PROVE  rr'[Req(w)].fulfilled \/ run[w].task \in failed'
<1>1. Req(w) \in Requests /\ rr[Req(w)] \in Rows
  BY DEF EraseCommit, IInv, WorkerInv, TaskInv, TypeOK, Req
<1> QED BY <1>1 DEF EraseCommit, IInv, TypeOK, Rows

LEMMA KindStep ==
    ASSUME RecordInv, [Next]_vars
    PROVE  WorkerKind'
<1> SUFFICES WorkerKind'
  OBVIOUS
<1>1. ASSUME NEW w \in Workers, WorkerStep(w) PROVE WorkerKind'
  <2>0. run[w] \in RunStates
    BY DEF RecordInv, IInv, TypeOK
  <2>1. ASSUME NEW t \in Tasks, SearchStart(w, t) PROVE WorkerKind'
    <3> DEFINE st == [IdleRun EXCEPT !.pc = "search", !.task = t, !.todo = connected]
    <3>1. run' = [run EXCEPT ![w] = st] /\ st.pc = "search" /\ st.task = t
      BY <2>1 DEF SearchStart, IdleRun
    <3>2. task'[t].kind = "search"
      BY <2>1, FinishedStays DEF SearchStart, Take, TasksGrow, RecordInv
    <3> HIDE DEF st
    <3> QED BY <3>1, <3>2, KindMoved DEF KindOf
  <2>2. ASSUME NEW t \in Tasks, EraseStart(w, t) PROVE WorkerKind'
    <3> DEFINE row == rr[task[t].req]
               on == [IdleRun EXCEPT !.pc = "erase", !.task = t, !.todo = row.plan,
                                     !.assets = connected, !.seen = row.status]
               off == [IdleRun EXCEPT !.pc = "ack", !.task = t]
    <3>1. /\ Passed(task[t].req, "approved") /\ row.type = "erasure"
          /\ task[t].kind = "erasure" /\ task[t].state = "queued" /\ task[t] \in TaskStates
      BY <2>2 DEF EraseStart, Take, RecordInv, IInv, TypeOK, TaskInv, RowInv
    <3>2. /\ task'[t].kind = "erasure" /\ task'[t].state = "unacked"
          /\ task'[t].req = task[t].req
      BY <2>2, <3>1 DEF EraseStart, Take, RecordInv, IInv, TypeOK, TaskStates
    <3>3. CASE row.approved
      <4>1. run' = [run EXCEPT ![w] = on] /\ on.pc = "erase" /\ on.task = t
        BY <2>2, <3>1, <3>3 DEF EraseStart, IdleRun
      <4>2. t \in Waiting'
        BY <3>2 DEF Waiting, Live
      <4> HIDE DEF on
      <4> QED BY <3>2, <4>1, <4>2, KindMoved DEF KindOf
    <3>4. CASE ~row.approved
      <4>1. run' = [run EXCEPT ![w] = off] /\ off.pc = "ack" /\ off.task = t
        BY <2>2, <3>4 DEF EraseStart, IdleRun
      <4>2. t \in Finished
        BY <3>1, <3>4 DEF Finished, Served, Passed
      <4>3. t \in Finished'
        BY <4>2, FinishedStays DEF RecordInv
      <4> HIDE DEF off
      <4> QED BY <4>1, <4>3, KindMoved DEF KindOf
    <3> QED BY <3>3, <3>4
  <2>3. ASSUME NEW s \in Sources, SearchSource(w, s) PROVE WorkerKind'
    <3>1. PICK hit \in BOOLEAN :
             run' = [run EXCEPT ![w].todo = @ \ {s},
                                ![w].found = IF hit THEN @ \cup {s} ELSE @]
      BY <2>3 DEF SearchSource
    <3> DEFINE st == [run[w] EXCEPT !.todo = @ \ {s},
                                    !.found = IF hit THEN @ \cup {s} ELSE @]
    <3>2. run' = [run EXCEPT ![w] = st] /\ st.pc = run[w].pc /\ st.task = run[w].task
      BY <2>0, <3>1 DEF RunStates
    <3> HIDE DEF st
    <3> QED BY <3>2, KindSame
  <2>4. ASSUME NEW s \in Sources,
               LeaveToOperator(w, s) \/ EraseError(w, s) \/ EraseSource(w, s)
        PROVE  WorkerKind'
    <3>1. PICK outcome \in Outcomes : Record(w, s, outcome)
      BY <2>4 DEF LeaveToOperator, EraseError, EraseSource, Outcomes
    <3>2. PICK st \in RunStates : /\ run' = [run EXCEPT ![w] = st]
                                  /\ st.pc = run[w].pc /\ st.task = run[w].task
      BY <3>1, Recorded DEF RecordInv, IInv
    <3> QED BY <3>2, KindSame
  <2>5. CASE SearchLoad(w)
    <3> DEFINE st == [run[w] EXCEPT !.pc = "search_commit", !.seen = rr[Req(w)].status]
    <3>1. run' = [run EXCEPT ![w] = st] /\ st.pc = "search_commit" /\ st.task = run[w].task
      BY <2>0, <2>5 DEF SearchLoad, RunStates
    <3> HIDE DEF st
    <3> QED BY <2>5, <3>1, KindSame DEF SearchLoad
  <2>6. CASE SearchCommit(w)
    <3>1. rr'[Req(w)].discovered
      BY <2>6, SearchStores DEF RecordInv
    <3>2. task[run[w].task].kind = "search"
      BY <2>6 DEF SearchCommit, RecordInv, WorkerKind
    <3> QED BY <2>6, <3>1, <3>2, KindLeft DEF SearchCommit, Req
  <2>7. CASE EraseCommit(w)
    <3>1. rr'[Req(w)].fulfilled \/ run[w].task \in failed'
      BY <2>7, CommitStores DEF RecordInv
    <3>2. task[run[w].task].kind = "erasure"
      BY <2>7 DEF EraseCommit, RecordInv, WorkerKind
    <3> QED BY <2>7, <3>1, <3>2, KindLeft DEF EraseCommit, Req
  <2>8. CASE Ack(w)
    <3>1. run' = [run EXCEPT ![w] = IdleRun] /\ IdleRun.pc = "idle"
      BY <2>8 DEF Ack, IdleRun
    <3> QED BY <3>1, KindMoved DEF KindOf
  <2> QED BY <1>1, <2>1, <2>2, <2>3, <2>4, <2>5, <2>6, <2>7, <2>8 DEF WorkerStep
<1>2. CASE Failure
  <2>1. ASSUME NEW w \in Workers, WorkerCrash(w) PROVE WorkerKind'
    <3>1. run' = [run EXCEPT ![w] = IdleRun] /\ IdleRun.pc = "idle"
      BY <2>1 DEF WorkerCrash, IdleRun
    <3> QED BY <3>1, KindMoved DEF KindOf
  <2>2. ASSUME NEW w \in Workers, TaskError(w) PROVE WorkerKind'
    BY <2>2, KindLeft DEF TaskError
  <2>3. CASE \/ \E h \in Handlers : HandlerFail(h)
             \/ \E t \in Tasks : Redeliver(t)
    BY <2>3, KindUnmoved DEF HandlerFail, Redeliver
  <2> QED BY <1>2, <2>1, <2>2, <2>3 DEF Failure
<1>3. ASSUME NEW h \in Handlers, HandlerStep(h) PROVE WorkerKind'
  BY <1>3, KindUnmoved DEF HandlerStep, VerifyRead, ApproveRead, UpdateRead,
     VerifyWrite, ApproveWrite, UpdateWrite, HandlerSend
<1>4. ASSUME NEW r \in Requests,
             \/ \E type \in RequestTypes : Create(r, type)
             \/ \E status \in OperatorStatuses : Update(r, status)
             \/ SearchPrincipal(r)
      PROVE  WorkerKind'
  BY <1>4, KindUnmoved DEF Create, Update, SearchPrincipal
<1>5. ASSUME NEW s \in Sources, AssetStatus(s) PROVE WorkerKind'
  BY <1>5, KindUnmoved DEF AssetStatus
<1>6. CASE UNCHANGED vars
  BY <1>6, KindUnmoved DEF vars
<1> QED BY <1>1, <1>2, <1>3, <1>4, <1>5, <1>6 DEF Next

(* Only a deletion adds to the history of deletions.                          *)
LEMMA DeletionErases ==
    ASSUME IInv, [Next]_vars, \A w \in Workers, s \in Sources : ~EraseSource(w, s)
    PROVE  erased' = erased
<1> DEFINE Kept == erased' = erased
<1> SUFFICES Kept
  OBVIOUS
<1>1. ASSUME NEW w \in Workers, WorkerStep(w) PROVE Kept
  <2>1. CASE \E t \in Tasks : SearchStart(w, t) \/ EraseStart(w, t)
    BY <2>1 DEF SearchStart, EraseStart, history
  <2>2. CASE \E s \in Sources : \/ SearchSource(w, s) \/ LeaveToOperator(w, s)
                               \/ EraseError(w, s)
    BY <2>2 DEF SearchSource, LeaveToOperator, EraseError, history
  <2>3. CASE SearchLoad(w) \/ SearchCommit(w) \/ EraseCommit(w) \/ Ack(w)
    BY <2>3 DEF SearchLoad, SearchCommit, EraseCommit, Ack, history
  <2> QED BY <1>1, <2>1, <2>2, <2>3 DEF WorkerStep
<1>2. CASE Failure
  BY <1>2 DEF Failure, HandlerFail, TaskError, WorkerCrash, Redeliver, history
<1>3. ASSUME NEW h \in Handlers, HandlerStep(h) PROVE Kept
  BY <1>3 DEF HandlerStep, VerifyRead, ApproveRead, UpdateRead, VerifyWrite,
     ApproveWrite, UpdateWrite, HandlerSend, history
<1>4. ASSUME NEW r \in Requests,
             \/ \E type \in RequestTypes : Create(r, type)
             \/ \E status \in OperatorStatuses : Update(r, status)
             \/ SearchPrincipal(r)
      PROVE  Kept
  BY <1>4 DEF Create, Update, SearchPrincipal, history
<1>5. ASSUME NEW s \in Sources, AssetStatus(s) PROVE Kept
  BY <1>5 DEF AssetStatus, history
<1>6. CASE UNCHANGED vars
  BY <1>6 DEF vars, history
<1> QED BY <1>1, <1>2, <1>3, <1>4, <1>5, <1>6 DEF Next

LEMMA PendingStep ==
    ASSUME RecordInv, [Next]_vars
    PROVE  Pending'
<1> SUFFICES ASSUME NEW r \in Requests, erased'[r] # {}
             PROVE  \E t \in Tasks : /\ task'[t].kind = "erasure" /\ task'[t].req = r
                                   /\ t \in Waiting' \cup Finished'
  BY DEF Pending, ErasureOf
<1>1. ASSUME NEW t \in ErasureOf(r), t \in Waiting \cup Finished
      PROVE  /\ task'[t].kind = "erasure" /\ task'[t].req = r
             /\ t \in Waiting' \cup Finished'
  <2>1. t \in Tasks /\ task[t].state # "unsent"
    BY <1>1 DEF ErasureOf, Waiting, Finished, Live
  <2> QED BY <1>1, <2>1, FinishedStays, WaitsUntilFinished
          DEF ErasureOf, TasksGrow, RecordInv
<1>2. CASE erased[r] # {}
  BY <1>1, <1>2 DEF RecordInv, Pending, ErasureOf
<1>3. CASE erased[r] = {}
  <2>1. PICK w \in Workers, s \in Sources : EraseSource(w, s)
    BY <1>3, DeletionErases DEF RecordInv
  <2>2. Req(w) = r
    BY <1>3, <2>1 DEF EraseSource, RecordInv, IInv, TypeOK
  <2>3. run[w].task \in ErasureOf(r) /\ run[w].task \in Waiting \cup Finished
    BY <2>1, <2>2 DEF EraseSource, RecordInv, IInv, WorkerInv, WorkerKind, ErasureOf, Req
  <2> QED BY <1>1, <2>3 DEF ErasureOf
<1> QED BY <1>2, <1>3

LEMMA AckedStep ==
    ASSUME RecordInv, [Next]_vars
    PROVE  Acked'
<1> SUFFICES ASSUME NEW t \in Tasks, task'[t].state = "acked" PROVE t \in Finished'
  BY DEF Acked
<1>1. task[t].state = "acked" \/ Live(t)
  BY MessagesKept DEF RecordInv
<1>2. t \in Waiting \cup Finished
  BY <1>1 DEF RecordInv, Acked, Waiting
<1> QED BY <1>2, WaitsUntilFinished DEF Waiting, Live

LEMMA RecordInit == Init => RecordInv
BY InitInv DEF Init, RecordInv, WorkerKind, Pending, Acked, IdleRun

LEMMA RecordStep == RecordInv /\ [Next]_vars => RecordInv'
BY StepInv, KindStep, PendingStep, AckedStep DEF RecordInv

(* Records that an erasure removed are reported once it has settled, unless a  *)
(* run raised or an empty Update took the approval or the report back:        *)
(* crashes, double deliveries and failing handlers lose no report.            *)
THEOREM DeletionsGetRecorded == Spec => []DeletionsRecorded
<1>1. RecordInv => DeletionsRecorded
  BY DEF RecordInv, Pending, DeletionsRecorded, Settled, Waiting, Finished, Served, Live,
     ErasureOf
<1> QED BY RecordInit, RecordStep, <1>1, PTL DEF Spec

(* A message leaves the broker only with its effect in the row, a run of it    *)
(* that raised, or an approval that was taken back, for any number of         *)
(* workers, crashes and double deliveries.                                    *)
THEOREM MessagesServed == Spec => []AckedServed
<1>1. RecordInv => AckedServed
  BY DEF RecordInv, Acked, AckedServed, Finished
<1> QED BY RecordInit, RecordStep, <1>1, PTL DEF Spec
=============================================================================
