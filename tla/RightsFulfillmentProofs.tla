----------------------- MODULE RightsFulfillmentProofs -----------------------
(* Proofs about RightsFulfillment, for every set of requests, sources,        *)
(* handlers, workers and tasks, every alert schema and any faults.            *)
EXTENDS RightsFulfillment, TLAPS

(* The inductive invariant follows the gates along the pipeline: the row, the *)
(* handler that has read it, the message in the broker, the worker.           *)
RowInv ==
    \A r \in Requests :
        /\ ~Exists(r) => rr[r].plan = {} /\ \A m \in Marks : ~Passed(r, m)
        /\ Passed(r, "approved") => Passed(r, "verified") /\ rr[r].type = "erasure"
        /\ rr[r].plan # {} => Passed(r, "discovered")

(* What a copy of the row of r claims was passed at some time.                *)
Copied(r, row) ==
    /\ row.status # "none" /\ row.type = rr[r].type
    /\ \A m \in Marks : row[m] => Passed(r, m)
    /\ row.plan # {} => Passed(r, "discovered")
HandlerInv ==
    \A h \in Handlers :
        LET r == handler[h].req
        IN  /\ handler[h].pc # "idle" => r \in Requests /\ Exists(r)
            /\ handler[h].pc = "approve_write" =>
                   Passed(r, "verified") /\ rr[r].type = "erasure"
            /\ handler[h].pc = "approve_send" => Passed(r, "approved")
            /\ handler[h].pc = "update_write" => Copied(r, handler[h].row)
TaskInv ==
    \A t \in Tasks : task[t].state # "unsent" =>
        LET r == task[t].req
        IN  /\ r \in Requests /\ Exists(r)
            /\ task[t].kind = "erasure" => Passed(r, "approved")
WorkerInv ==
    \A w \in Workers : run[w].pc # "idle" =>
        /\ run[w].task \in Tasks /\ task[run[w].task].state # "unsent"
        /\ run[w].pc = "erase" =>
              /\ Passed(Req(w), "approved")
              /\ run[w].todo # {} => Passed(Req(w), "discovered")

IInv == TypeOK /\ RowInv /\ HandlerInv /\ TaskInv /\ WorkerInv /\ ErasureGated

----------------------------------------------------------------------------
(* Frames: what a step that only opens gates leaves true.                     *)

RowsGrow ==
    \A r \in Requests :
        /\ Exists(r) => Exists(r)' /\ rr'[r].type = rr[r].type
        /\ \A m \in Marks : Passed(r, m) => Passed(r, m)'
        /\ undone[r] \subseteq undone'[r]

TasksGrow ==
    \A t \in Tasks : task[t].state # "unsent" =>
        /\ task'[t].state # "unsent"
        /\ task'[t].kind = task[t].kind /\ task'[t].req = task[t].req

(* Handlers that do not move keep what they rely on.                          *)
LEMMA HandlerFrame ==
    ASSUME HandlerInv, RowsGrow, handler' = handler
    PROVE  HandlerInv'
BY DEF HandlerInv, RowsGrow, Exists, Copied, Marks

(* Messages that do not change keep what they rely on.                        *)
LEMMA TaskFrame ==
    ASSUME TaskInv, RowsGrow, task' = task
    PROVE  TaskInv'
BY DEF TaskInv, RowsGrow, Exists, Marks

(* Workers that do not move keep what they rely on.                           *)
LEMMA WorkerFrame ==
    ASSUME WorkerInv, TaskInv, RowsGrow, TasksGrow, run' = run
    PROVE  WorkerInv'
BY DEF WorkerInv, TaskInv, RowsGrow, TasksGrow, Req, Marks

(* Gates that were passed stay passed.                                        *)
LEMMA ErasedFrame ==
    ASSUME ErasureGated, RowInv, RowsGrow, erased' = erased
    PROVE  ErasureGated'
BY DEF ErasureGated, RowInv, RowsGrow, Marks, Exists

(* A row replaced by one of its type that keeps its gates, or loses them to    *)
(* undone, keeps RowInv.                                                      *)
LEMMA RowUpdate ==
    ASSUME TypeOK, RowInv,
           NEW r \in Requests, NEW row \in Rows, rr' = [rr EXCEPT ![r] = row],
           row.status # "none", Exists(r) => row.type = rr[r].type,
           NEW lost \in SUBSET Marks, undone' = [undone EXCEPT ![r] = lost],
           undone[r] \subseteq lost, \A m \in lost : Passed(r, m),
           \A m \in Marks : rr[r][m] => row[m] \/ m \in lost,
           row.approved => Passed(r, "verified") /\ row.type = "erasure",
           row.plan # {} => Passed(r, "discovered") \/ row.discovered
    PROVE  /\ rr' \in [Requests -> Rows]
           /\ undone' \in [Requests -> SUBSET Marks]
           /\ RowInv'
           /\ RowsGrow
<1>1. /\ \A q \in Requests : rr'[q] = IF q = r THEN row ELSE rr[q]
      /\ \A q \in Requests : undone'[q] = IF q = r THEN lost ELSE undone[q]
  <2>1. \A q \in Requests : rr'[q] = IF q = r THEN row ELSE rr[q]
    BY DEF TypeOK
  <2>2. \A q \in Requests : undone'[q] = IF q = r THEN lost ELSE undone[q]
    BY DEF TypeOK
  <2> QED BY <2>1, <2>2
<1>2. rr' \in [Requests -> Rows] /\ undone' \in [Requests -> SUBSET Marks]
  BY DEF TypeOK
<1>3. \A q \in Requests, m \in Marks :
         /\ Passed(q, m) => Passed(q, m)'
         /\ q # r => (Passed(q, m)' <=> Passed(q, m))
         /\ Passed(r, m)' <=> row[m] \/ m \in lost
  <2> TAKE q \in Requests, m \in Marks
  <2>1. rr'[r] = row /\ undone'[r] = lost
    BY <1>1
  <2>2. q # r => rr'[q] = rr[q] /\ undone'[q] = undone[q]
    BY <1>1
  <2> QED BY <2>1, <2>2 DEF Passed
<1>4. RowInv'
  <2> SUFFICES ASSUME NEW q \in Requests
               PROVE  /\ ~Exists(q)' => /\ rr'[q].plan = {}
                                        /\ \A m \in Marks : ~Passed(q, m)'
                      /\ Passed(q, "approved")' =>
                             Passed(q, "verified")' /\ rr'[q].type = "erasure"
                      /\ rr'[q].plan # {} => Passed(q, "discovered")'
    BY DEF RowInv
  <2>1. CASE q # r
    BY <1>1, <1>3, <2>1 DEF RowInv, Exists, Marks
  <2>2. CASE q = r
    <3>1. Exists(r)' /\ rr'[r] = row
      BY <1>1 DEF Exists
    <3>2. Passed(r, "approved")' => Passed(r, "verified") /\ row.type = "erasure"
      BY <1>3 DEF RowInv, Marks
    <3>3. row.plan # {} => Passed(r, "discovered")'
      BY <1>3 DEF Marks
    <3> QED BY <1>3, <2>2, <3>1, <3>2, <3>3 DEF Marks
  <2> QED BY <2>1, <2>2
<1>5. RowsGrow
  <2> SUFFICES ASSUME NEW q \in Requests
               PROVE  /\ Exists(q) => Exists(q)' /\ rr'[q].type = rr[q].type
                      /\ undone[q] \subseteq undone'[q]
    BY <1>3 DEF RowsGrow
  <2> QED BY <1>1 DEF Exists
<1> QED BY <1>2, <1>4, <1>5

(* The same for a write of columns, which undoes nothing.                     *)
LEMMA RowColumns ==
    ASSUME TypeOK, RowInv,
           NEW r \in Requests, NEW row \in Rows, rr' = [rr EXCEPT ![r] = row],
           undone' = undone, row.status # "none", Exists(r) => row.type = rr[r].type,
           \A m \in Marks : rr[r][m] => row[m],
           row.approved => Passed(r, "verified") /\ row.type = "erasure",
           row.plan # {} => Passed(r, "discovered") \/ row.discovered
    PROVE  rr' \in [Requests -> Rows] /\ RowInv' /\ RowsGrow
<1> DEFINE lost == undone[r]
<1>1. lost \in SUBSET Marks /\ undone' = [undone EXCEPT ![r] = lost]
  BY DEF TypeOK
<1>2. \A m \in lost : Passed(r, m)
  BY DEF Passed
<1>3. undone[r] \subseteq lost
  OBVIOUS
<1> HIDE DEF lost
<1> QED BY <1>1, <1>2, <1>3, RowUpdate

(* A write that leaves type and plan alone and takes no mark back.            *)
LEMMA ColumnsKept ==
    ASSUME TypeOK, RowInv,
           NEW r \in Requests, NEW row \in Rows, rr' = [rr EXCEPT ![r] = row],
           undone' = undone, row.status # "none", row.type = rr[r].type,
           rr[r].verified => row.verified, rr[r].discovered => row.discovered,
           row.approved = rr[r].approved, rr[r].fulfilled => row.fulfilled,
           row.plan = rr[r].plan
    PROVE  rr' \in [Requests -> Rows] /\ RowInv' /\ RowsGrow
<1>1. \A m \in Marks : rr[r][m] => row[m]
  BY DEF Marks
<1>2. row.approved => Passed(r, "verified") /\ row.type = "erasure"
  BY DEF RowInv, Passed
<1>3. row.plan # {} => Passed(r, "discovered")
  BY DEF RowInv
<1> QED BY <1>1, <1>2, <1>3, RowColumns

(* A step that leaves the rows alone.                                         *)
LEMMA RowsSame ==
    ASSUME RowInv, rr' = rr, undone' = undone
    PROVE  RowInv' /\ RowsGrow
BY DEF RowInv, RowsGrow, Exists, Passed

(* A message that is queued, taken, acknowledged or taken back is still the   *)
(* same message.                                                              *)
LEMMA TaskMoved ==
    ASSUME TypeOK, TaskInv, RowsGrow, NEW t \in Tasks, task[t].state # "unsent",
           NEW state \in {"queued", "unacked", "acked"},
           task' = [task EXCEPT ![t].state = state]
    PROVE  task' \in [Tasks -> TaskStates] /\ TaskInv' /\ TasksGrow
<1> DEFINE msg == [task[t] EXCEPT !.state = state]
<1>1. task[t] \in TaskStates
  BY DEF TypeOK
<1>2. /\ msg \in TaskStates
      /\ msg.state # "unsent" /\ msg.kind = task[t].kind /\ msg.req = task[t].req
  BY <1>1 DEF TaskStates
<1>3. task' = [task EXCEPT ![t] = msg]
  OBVIOUS
<1> HIDE DEF msg
<1>4. \A u \in Tasks : task'[u] = IF u = t THEN msg ELSE task[u]
  BY <1>3 DEF TypeOK
<1>5. task' \in [Tasks -> TaskStates]
  BY <1>2, <1>3 DEF TypeOK
<1>6. TasksGrow
  BY <1>2, <1>4 DEF TasksGrow
<1>7. TaskInv'
  BY <1>2, <1>4 DEF TaskInv, RowsGrow, Marks
<1> QED BY <1>5, <1>6, <1>7

(* A message that is published carries an id that was not in use.             *)
LEMMA Published ==
    ASSUME TypeOK, TaskInv, RowsGrow, NEW r \in Requests, Exists(r),
           NEW kind \in {"search", "erasure"},
           kind = "erasure" => Passed(r, "approved"),
           Publish(kind, r)
    PROVE  task' \in [Tasks -> TaskStates] /\ TaskInv' /\ TasksGrow
<1>1. PICK t \in Tasks : /\ task[t].state = "unsent"
                         /\ task' = [task EXCEPT ![t] =
                                [state |-> "queued", kind |-> kind, req |-> r]]
  BY DEF Publish
<1>2. \A u \in Tasks : task'[u] =
         IF u = t THEN [state |-> "queued", kind |-> kind, req |-> r] ELSE task[u]
  BY <1>1 DEF TypeOK
<1>3. task' \in [Tasks -> TaskStates]
  BY <1>1 DEF TypeOK, TaskStates
<1>4. TasksGrow
  BY <1>1, <1>2 DEF TasksGrow
<1>5. TaskInv'
  BY <1>2 DEF TaskInv, RowsGrow, Marks
<1> QED BY <1>3, <1>4, <1>5

(* A worker replaced by one that satisfies what workers rely on.              *)
LEMMA WorkerMoved ==
    ASSUME TypeOK, WorkerInv, TaskInv, RowsGrow, TasksGrow,
           NEW w \in Workers, NEW st \in RunStates, run' = [run EXCEPT ![w] = st],
           st.pc # "idle" => /\ st.task \in Tasks
                             /\ task[st.task].state # "unsent",
           st.pc = "erase" =>
              LET r == task[st.task].req
              IN  Passed(r, "approved") /\ (st.todo # {} => Passed(r, "discovered"))
    PROVE  run' \in [Workers -> RunStates] /\ WorkerInv'
<1>1. \A v \in Workers : run'[v] = IF v = w THEN st ELSE run[v]
  BY DEF TypeOK
<1>2. run' \in [Workers -> RunStates]
  BY DEF TypeOK
<1>3. WorkerInv'
  BY <1>1 DEF WorkerInv, TaskInv, TasksGrow, RowsGrow, Req, Marks
<1> QED BY <1>2, <1>3

(* The same for handlers.                                                     *)
LEMMA HandlerMoved ==
    ASSUME TypeOK, HandlerInv, RowsGrow,
           NEW h \in Handlers, NEW st \in HandlerStates,
           handler' = [handler EXCEPT ![h] = st],
           st.pc # "idle" => st.req \in Requests /\ Exists(st.req),
           st.pc = "approve_write" =>
              Passed(st.req, "verified") /\ rr[st.req].type = "erasure",
           st.pc = "approve_send" => Passed(st.req, "approved") \/ rr'[st.req].approved,
           st.pc = "update_write" => Copied(st.req, st.row)
    PROVE  handler' \in [Handlers -> HandlerStates] /\ HandlerInv'
<1>1. \A g \in Handlers : handler'[g] = IF g = h THEN st ELSE handler[g]
  BY DEF TypeOK
<1>2. handler' \in [Handlers -> HandlerStates]
  BY DEF TypeOK
<1>3. HandlerInv'
  BY <1>1 DEF HandlerInv, RowsGrow, Copied, Marks, Passed
<1> QED BY <1>2, <1>3

LEMMA IdleTypes ==
    /\ IdleHandler \in HandlerStates
    /\ IdleRun \in RunStates
    /\ NoRow \in Rows
BY DEF IdleHandler, HandlerStates, Statuses, IdleRun, RunStates, NoOutcome, Outcomes,
       NoRow, Rows, RequestTypes

(* Leaving a task puts the worker before its acknowledgement.                 *)
LEMMA Left ==
    ASSUME TypeOK, NEW w \in Workers, run[w].pc # "idle", Leave(w)
    PROVE  \E st \in RunStates : /\ run' = [run EXCEPT ![w] = st]
                                 /\ st.pc = "ack" /\ st.task = run[w].task
<1> DEFINE st == [IdleRun EXCEPT !.pc = "ack", !.task = run[w].task]
<1>1. run[w] \in RunStates
  BY DEF TypeOK
<1>2. st \in RunStates /\ st.pc = "ack" /\ st.task = run[w].task
  BY <1>1, IdleTypes DEF IdleRun, RunStates
<1>3. run' = [run EXCEPT ![w] = st]
  BY DEF Leave
<1> QED BY <1>2, <1>3

----------------------------------------------------------------------------
(* Initial states *)

LEMMA InitInv == Init => IInv
<1> SUFFICES ASSUME Init PROVE IInv
  OBVIOUS
<1>1. TypeOK
  BY IdleTypes DEF Init, TypeOK, TaskStates
<1>2. RowInv
  BY DEF Init, RowInv, Exists, NoRow, Passed, Marks
<1>3. HandlerInv /\ TaskInv
  BY DEF Init, HandlerInv, TaskInv, IdleHandler
<1>4. WorkerInv /\ ErasureGated
  BY DEF Init, WorkerInv, ErasureGated, IdleRun
<1> QED BY <1>1, <1>2, <1>3, <1>4 DEF IInv

----------------------------------------------------------------------------
(* Control plane *)

LEMMA CreateStep ==
    ASSUME IInv, NEW r \in Requests, NEW type \in RequestTypes, Create(r, type)
    PROVE  IInv' /\ RowsGrow
<1> DEFINE row == [NoRow EXCEPT !.type = type, !.status = "received"]
<1>1. row \in Rows
  BY IdleTypes DEF Rows, Statuses, NoRow
<1>2. rr' = [rr EXCEPT ![r] = row] /\ ~Exists(r)
  BY DEF Create
<1>3. row.status # "none" /\ ~row.approved /\ row.plan = {}
  BY DEF NoRow
<1>4. undone' = undone /\ \A m \in Marks : ~rr[r][m]
  BY <1>2 DEF IInv, RowInv, Passed, Create, history
<1> HIDE DEF row
<1>5. rr' \in [Requests -> Rows] /\ RowInv' /\ RowsGrow
  BY <1>1, <1>2, <1>3, <1>4, RowColumns DEF IInv
<1>6. TasksGrow
  BY DEF Create, TasksGrow
<1> QED BY <1>5, <1>6, HandlerFrame, TaskFrame, WorkerFrame, ErasedFrame
        DEF IInv, TypeOK, Create, history

LEMMA UpdateStep ==
    ASSUME IInv, NEW r \in Requests, NEW status \in OperatorStatuses, Update(r, status)
    PROVE  IInv' /\ RowsGrow
<1> DEFINE row == [rr[r] EXCEPT !.status = status]
<1>1. rr[r] \in Rows
  BY DEF IInv, TypeOK
<1>2. /\ row \in Rows /\ row.status # "none"
      /\ row.type = rr[r].type /\ row.verified = rr[r].verified
      /\ row.discovered = rr[r].discovered /\ row.approved = rr[r].approved
      /\ row.fulfilled = rr[r].fulfilled /\ row.plan = rr[r].plan
  BY <1>1, StatusAssumption DEF Rows, Statuses
<1>3. rr' = [rr EXCEPT ![r] = row] /\ undone' = undone
  BY DEF Update, history
<1> HIDE DEF row
<1>4. rr' \in [Requests -> Rows] /\ RowInv' /\ RowsGrow
  BY <1>2, <1>3, ColumnsKept DEF IInv
<1>5. TasksGrow
  BY DEF Update, TasksGrow
<1> QED BY <1>4, <1>5, HandlerFrame, TaskFrame, WorkerFrame, ErasedFrame
        DEF IInv, TypeOK, Update, history

(* An Update without a column writes an older copy of the row.                *)
LEMMA UpdateWriteStep ==
    ASSUME IInv, NEW h \in Handlers, UpdateWrite(h)
    PROVE  IInv' /\ RowsGrow
<1> DEFINE r == handler[h].req
           row == handler[h].row
           lost == undone[r] \cup {m \in Marks : rr[r][m] /\ ~row[m]}
<1>1. /\ r \in Requests /\ Exists(r) /\ row \in Rows /\ Copied(r, row)
      /\ handler[h] \in HandlerStates
  BY DEF IInv, TypeOK, HandlerInv, UpdateWrite, HandlerStates
<1>2. /\ rr' = [rr EXCEPT ![r] = row] /\ undone' = [undone EXCEPT ![r] = lost]
      /\ handler' = [handler EXCEPT ![h] = IdleHandler]
  BY DEF UpdateWrite
<1>3. /\ lost \in SUBSET Marks /\ undone[r] \subseteq lost
      /\ \A m \in lost : Passed(r, m)
      /\ \A m \in Marks : rr[r][m] => row[m] \/ m \in lost
  BY <1>1 DEF IInv, TypeOK, Passed
<1>4. /\ row.status # "none" /\ row.type = rr[r].type
      /\ row.plan # {} => Passed(r, "discovered")
      /\ row.approved => Passed(r, "verified") /\ row.type = "erasure"
  BY <1>1 DEF IInv, RowInv, Copied, Marks
<1> HIDE DEF r, row, lost
<1>5. /\ rr' \in [Requests -> Rows] /\ undone' \in [Requests -> SUBSET Marks]
      /\ RowInv' /\ RowsGrow
  BY <1>1, <1>2, <1>3, <1>4, RowUpdate DEF IInv
<1>6. handler' \in [Handlers -> HandlerStates] /\ HandlerInv'
  BY <1>2, <1>5, IdleTypes, HandlerMoved DEF IInv, IdleHandler
<1>7. TasksGrow
  BY DEF UpdateWrite, TasksGrow
<1> QED BY <1>5, <1>6, <1>7, TaskFrame, WorkerFrame, ErasedFrame
        DEF IInv, TypeOK, UpdateWrite

LEMMA SearchPrincipalStep ==
    ASSUME IInv, NEW r \in Requests, SearchPrincipal(r)
    PROVE  IInv' /\ RowsGrow
<1>1. RowInv' /\ RowsGrow
  BY RowsSame DEF IInv, SearchPrincipal, history
<1>2. task' \in [Tasks -> TaskStates] /\ TaskInv' /\ TasksGrow
  BY <1>1, Published DEF IInv, SearchPrincipal
<1> QED BY <1>1, <1>2, HandlerFrame, WorkerFrame, ErasedFrame
        DEF IInv, TypeOK, SearchPrincipal, history

(* The three reads: the handler moves, nothing else does.                     *)
LEMMA HandlerReadStep ==
    ASSUME IInv, NEW h \in Handlers, NEW r \in Requests,
           VerifyRead(h, r) \/ ApproveRead(h, r) \/ UpdateRead(h, r)
    PROVE  IInv' /\ RowsGrow
<1>1. /\ Exists(r) /\ rr' = rr /\ task' = task /\ run' = run /\ erased' = erased
      /\ undone' = undone /\ rr[r] \in Rows /\ rr[r].status \in Statuses
  BY DEF IInv, TypeOK, Rows, Exists, VerifyRead, ApproveRead, UpdateRead, history
<1>2. Copied(r, rr[r])
  BY <1>1 DEF IInv, RowInv, Copied, Exists, Passed
<1>3. PICK st \in HandlerStates :
        /\ handler' = [handler EXCEPT ![h] = st]
        /\ st.req = r /\ st.pc \in {"verify_write", "approve_write", "update_write"}
        /\ st.pc = "approve_write" => Passed(r, "verified") /\ rr[r].type = "erasure"
        /\ st.pc = "update_write" => Copied(r, st.row)
  <2>1. CASE VerifyRead(h, r)
    <3> DEFINE st == [IdleHandler EXCEPT !.pc = "verify_write", !.req = r,
                                         !.seen = rr[r].status]
    <3>1. st \in HandlerStates /\ st.req = r /\ st.pc = "verify_write"
      BY <1>1, IdleTypes DEF HandlerStates, IdleHandler
    <3> QED BY <2>1, <3>1 DEF VerifyRead
  <2>2. CASE ApproveRead(h, r)
    <3> DEFINE st == [IdleHandler EXCEPT !.pc = "approve_write", !.req = r]
    <3>1. st \in HandlerStates /\ st.req = r /\ st.pc = "approve_write"
      BY <1>1, IdleTypes DEF HandlerStates, IdleHandler
    <3> QED BY <2>2, <3>1 DEF ApproveRead, Passed
  <2>3. CASE UpdateRead(h, r)
    <3> DEFINE st == [IdleHandler EXCEPT !.pc = "update_write", !.req = r, !.row = rr[r]]
    <3>1. st \in HandlerStates /\ st.req = r /\ st.pc = "update_write" /\ st.row = rr[r]
      BY <1>1, IdleTypes DEF HandlerStates, IdleHandler
    <3> QED BY <1>2, <2>3, <3>1 DEF UpdateRead
  <2> QED BY <2>1, <2>2, <2>3
<1>4. RowInv' /\ RowsGrow /\ TasksGrow
  BY <1>1, RowsSame DEF IInv, TasksGrow
<1>5. handler' \in [Handlers -> HandlerStates] /\ HandlerInv'
  BY <1>1, <1>3, <1>4, HandlerMoved DEF IInv
<1> QED BY <1>1, <1>4, <1>5, TaskFrame, WorkerFrame, ErasedFrame
        DEF IInv, TypeOK, VerifyRead, ApproveRead, UpdateRead, history

LEMMA VerifyWriteStep ==
    ASSUME IInv, NEW h \in Handlers, VerifyWrite(h)
    PROVE  IInv' /\ RowsGrow
<1> DEFINE r == handler[h].req
           next == IF handler[h].seen = "received" THEN "in_progress"
                   ELSE handler[h].seen
           row == [rr[r] EXCEPT !.verified = TRUE, !.status = next]
           st == [handler[h] EXCEPT !.pc = "verify_send"]
<1>1. /\ handler[h] \in HandlerStates /\ r \in Requests /\ Exists(r)
      /\ rr[r] \in Rows /\ rr' = [rr EXCEPT ![r] = row]
      /\ handler' = [handler EXCEPT ![h] = st]
  BY DEF IInv, TypeOK, HandlerInv, VerifyWrite
<1>2. next \in Statuses /\ "none" \notin Statuses
  BY <1>1 DEF HandlerStates, Statuses
<1>3. /\ row \in Rows /\ row.status # "none" /\ row.verified
      /\ row.type = rr[r].type /\ row.discovered = rr[r].discovered
      /\ row.approved = rr[r].approved /\ row.fulfilled = rr[r].fulfilled
      /\ row.plan = rr[r].plan
  BY <1>1, <1>2 DEF Rows
<1>4. st \in HandlerStates /\ st.pc = "verify_send" /\ st.req = r
  BY <1>1 DEF HandlerStates
<1> HIDE DEF row, st
<1>5. rr' \in [Requests -> Rows] /\ RowInv' /\ RowsGrow
  BY <1>1, <1>3, ColumnsKept DEF IInv, VerifyWrite, history
<1>6. handler' \in [Handlers -> HandlerStates] /\ HandlerInv'
  BY <1>1, <1>4, <1>5, HandlerMoved DEF IInv
<1>7. TasksGrow
  BY DEF VerifyWrite, TasksGrow
<1> QED BY <1>5, <1>6, <1>7, TaskFrame, WorkerFrame, ErasedFrame
        DEF IInv, TypeOK, VerifyWrite, history

LEMMA ApproveWriteStep ==
    ASSUME IInv, NEW h \in Handlers, ApproveWrite(h)
    PROVE  IInv' /\ RowsGrow
<1> DEFINE r == handler[h].req
           row == [rr[r] EXCEPT !.approved = TRUE, !.status = "in_progress"]
           st == [handler[h] EXCEPT !.pc = "approve_send"]
<1>1. /\ handler[h] \in HandlerStates /\ r \in Requests /\ Exists(r)
      /\ rr[r] \in Rows /\ Passed(r, "verified") /\ rr[r].type = "erasure"
      /\ undone' = undone
      /\ rr' = [rr EXCEPT ![r] = row]
      /\ handler' = [handler EXCEPT ![h] = st]
  BY DEF IInv, TypeOK, HandlerInv, ApproveWrite
<1>2. /\ row \in Rows /\ row.status # "none" /\ row.approved
      /\ row.type = rr[r].type /\ row.discovered = rr[r].discovered
      /\ row.verified = rr[r].verified /\ row.fulfilled = rr[r].fulfilled
      /\ row.plan = rr[r].plan
  BY <1>1 DEF Rows, Statuses
<1>3. st \in HandlerStates /\ st.pc = "approve_send" /\ st.req = r
  BY <1>1 DEF HandlerStates
<1> HIDE DEF row, st
<1>4. rr' \in [Requests -> Rows] /\ RowInv' /\ RowsGrow
  <2>1. row.plan # {} => Passed(r, "discovered")
    BY <1>1, <1>2 DEF IInv, RowInv
  <2>2. \A m \in Marks : rr[r][m] => row[m]
    BY <1>2 DEF Marks
  <2> QED BY <1>1, <1>2, <2>1, <2>2, RowColumns DEF IInv
<1>5. rr'[r].approved
  BY <1>1, <1>2 DEF IInv, TypeOK
<1>6. handler' \in [Handlers -> HandlerStates] /\ HandlerInv'
  BY <1>1, <1>3, <1>4, <1>5, HandlerMoved DEF IInv
<1>7. authorised' \in [Requests -> SUBSET Sources]
  BY <1>1 DEF IInv, TypeOK, Rows, ApproveWrite
<1>8. TasksGrow
  BY DEF ApproveWrite, TasksGrow
<1> QED BY <1>4, <1>6, <1>7, <1>8, TaskFrame, WorkerFrame, ErasedFrame
        DEF IInv, TypeOK, ApproveWrite

LEMMA HandlerSendStep ==
    ASSUME IInv, NEW h \in Handlers, HandlerSend(h)
    PROVE  IInv' /\ RowsGrow
<1>1. rr' = rr /\ undone' = undone /\ handler' = [handler EXCEPT ![h] = IdleHandler]
  BY DEF HandlerSend, history
<1>2. RowInv' /\ RowsGrow
  BY <1>1, RowsSame DEF IInv
<1>3. handler' \in [Handlers -> HandlerStates] /\ HandlerInv'
  BY <1>1, <1>2, IdleTypes, HandlerMoved DEF IInv, IdleHandler
<1>4. task' \in [Tasks -> TaskStates] /\ TaskInv' /\ TasksGrow
  BY <1>1, <1>2, Published DEF IInv, HandlerInv, HandlerSend
<1> QED BY <1>2, <1>3, <1>4, WorkerFrame, ErasedFrame DEF IInv, TypeOK, HandlerSend, history

LEMMA HandlerFailStep ==
    ASSUME IInv, NEW h \in Handlers, HandlerFail(h)
    PROVE  IInv' /\ RowsGrow
<1>1. /\ rr' = rr /\ undone' = undone /\ task' = task
      /\ handler' = [handler EXCEPT ![h] = IdleHandler]
  BY DEF HandlerFail, history
<1>2. RowInv' /\ RowsGrow /\ TasksGrow
  BY <1>1, RowsSame DEF IInv, TasksGrow
<1>3. handler' \in [Handlers -> HandlerStates] /\ HandlerInv'
  BY <1>1, <1>2, IdleTypes, HandlerMoved DEF IInv, IdleHandler
<1> QED BY <1>1, <1>2, <1>3, TaskFrame, WorkerFrame, ErasedFrame
        DEF IInv, TypeOK, HandlerFail, Fault, history

LEMMA AssetStatusStep ==
    ASSUME IInv, NEW s \in Sources, AssetStatus(s)
    PROVE  IInv' /\ RowsGrow
<1>1. connected' \in SUBSET Sources
  BY DEF IInv, TypeOK, AssetStatus
<1>2. RowInv' /\ RowsGrow /\ TasksGrow
  BY RowsSame DEF IInv, AssetStatus, TasksGrow, history
<1> QED BY <1>1, <1>2, HandlerFrame, TaskFrame, WorkerFrame, ErasedFrame
        DEF IInv, TypeOK, AssetStatus, history

----------------------------------------------------------------------------
(* Workers *)

LEMMA SearchStartStep ==
    ASSUME IInv, NEW w \in Workers, NEW t \in Tasks, SearchStart(w, t)
    PROVE  IInv' /\ RowsGrow
<1> DEFINE st == [IdleRun EXCEPT !.pc = "search", !.task = t, !.todo = connected]
<1>1. /\ rr' = rr /\ run' = [run EXCEPT ![w] = st] /\ erased' = erased
      /\ undone' = undone
  BY DEF SearchStart, history
<1>2. st \in RunStates /\ st.pc = "search" /\ st.task = t
  BY IdleTypes DEF IInv, TypeOK, IdleRun, RunStates
<1> HIDE DEF st
<1>3. RowInv' /\ RowsGrow
  BY <1>1, RowsSame DEF IInv
<1>4. task' \in [Tasks -> TaskStates] /\ TaskInv' /\ TasksGrow
  BY <1>3, TaskMoved DEF IInv, SearchStart, Take
<1>5. run' \in [Workers -> RunStates] /\ WorkerInv'
  <2>1. task[t].state # "unsent"
    BY DEF SearchStart, Take
  <2> QED BY <1>1, <1>2, <1>3, <1>4, <2>1, WorkerMoved DEF IInv
<1> QED BY <1>1, <1>3, <1>4, <1>5, HandlerFrame, ErasedFrame
        DEF IInv, TypeOK, SearchStart, history

LEMMA EraseStartStep ==
    ASSUME IInv, NEW w \in Workers, NEW t \in Tasks, EraseStart(w, t)
    PROVE  IInv' /\ RowsGrow
<1> DEFINE row == rr[task[t].req]
           st == IF row.type = "erasure" /\ row.approved
                 THEN [IdleRun EXCEPT !.pc = "erase", !.task = t, !.todo = row.plan,
                                      !.assets = connected, !.seen = row.status]
                 ELSE [IdleRun EXCEPT !.pc = "ack", !.task = t]
<1>1. /\ rr' = rr /\ run' = [run EXCEPT ![w] = st] /\ erased' = erased
      /\ undone' = undone
  BY DEF EraseStart, history
<1>2. task[t].state # "unsent" /\ task[t].req \in Requests /\ Exists(task[t].req)
  BY DEF IInv, TaskInv, EraseStart, Take
<1>3. row \in Rows /\ row.status \in Statuses
  BY <1>2 DEF IInv, TypeOK, Rows, Exists
<1>4. /\ st \in RunStates /\ st.task = t
      /\ st.pc = "erase" => row.approved /\ st.todo = row.plan
  BY <1>3, IdleTypes DEF IInv, TypeOK, IdleRun, RunStates, Rows
<1> HIDE DEF st
<1>5. RowInv' /\ RowsGrow
  BY <1>1, RowsSame DEF IInv
<1>6. task' \in [Tasks -> TaskStates] /\ TaskInv' /\ TasksGrow
  BY <1>2, <1>5, TaskMoved DEF IInv, EraseStart, Take
<1>7. run' \in [Workers -> RunStates] /\ WorkerInv'
  <2>1. row.plan # {} => Passed(task[t].req, "discovered")
    BY <1>2 DEF IInv, RowInv
  <2>2. row.approved => Passed(task[t].req, "approved")
    BY DEF Passed
  <2> QED BY <1>1, <1>2, <1>4, <1>5, <1>6, <2>1, <2>2, WorkerMoved DEF IInv
<1> QED BY <1>1, <1>5, <1>6, <1>7, HandlerFrame, ErasedFrame
        DEF IInv, TypeOK, EraseStart, history

(* A worker that moves on within its task: only run changes.                  *)
LEMMA WithinTask ==
    ASSUME IInv, NEW w \in Workers, run[w].pc # "idle",
           NEW st \in RunStates, run' = [run EXCEPT ![w] = st],
           st.task = run[w].task,
           st.pc = "erase" => run[w].pc = "erase" /\ st.todo \subseteq run[w].todo,
           rr' = rr, undone' = undone, task' = task
    PROVE  /\ run' \in [Workers -> RunStates] /\ WorkerInv'
           /\ RowInv' /\ RowsGrow /\ TaskInv'
<1>1. RowInv' /\ RowsGrow /\ TasksGrow
  BY RowsSame DEF IInv, TasksGrow
<1>2. run[w].task \in Tasks /\ task[run[w].task].state # "unsent"
  BY DEF IInv, WorkerInv
<1>3. st.pc = "erase" =>
         LET r == task[st.task].req
         IN  Passed(r, "approved") /\ (st.todo # {} => Passed(r, "discovered"))
  BY DEF IInv, WorkerInv, Req
<1>4. run' \in [Workers -> RunStates] /\ WorkerInv'
  BY <1>1, <1>2, <1>3, WorkerMoved DEF IInv
<1> QED BY <1>1, <1>4, TaskFrame DEF IInv

LEMMA SearchSourceStep ==
    ASSUME IInv, NEW w \in Workers, NEW s \in Sources, SearchSource(w, s)
    PROVE  IInv' /\ RowsGrow
<1>1. PICK hit \in BOOLEAN :
         run' = [run EXCEPT ![w].todo = @ \ {s},
                            ![w].found = IF hit THEN @ \cup {s} ELSE @]
  BY DEF SearchSource
<1> DEFINE st == [run[w] EXCEPT !.todo = @ \ {s}, !.found = IF hit THEN @ \cup {s} ELSE @]
<1>2. run' = [run EXCEPT ![w] = st]
  BY <1>1
<1>3. st \in RunStates /\ st.task = run[w].task /\ st.pc = "search"
  <2>1. run[w] \in RunStates /\ run[w].pc = "search"
    BY DEF IInv, TypeOK, SearchSource
  <2> QED BY <2>1 DEF RunStates
<1> HIDE DEF st
<1>4. /\ run' \in [Workers -> RunStates] /\ WorkerInv'
      /\ RowInv' /\ RowsGrow /\ TaskInv'
  BY <1>2, <1>3, WithinTask DEF SearchSource, history
<1> QED BY <1>4, HandlerFrame, ErasedFrame DEF IInv, TypeOK, SearchSource, history

LEMMA SearchLoadStep ==
    ASSUME IInv, NEW w \in Workers, SearchLoad(w)
    PROVE  IInv' /\ RowsGrow
<1> DEFINE st == [run[w] EXCEPT !.pc = "search_commit", !.seen = rr[Req(w)].status]
<1>1. run' = [run EXCEPT ![w] = st]
  BY DEF SearchLoad
<1>2. rr[Req(w)].status \in Statuses
  BY DEF IInv, TypeOK, WorkerInv, TaskInv, Req, Exists, Rows, SearchLoad
<1>3. st \in RunStates /\ st.task = run[w].task /\ st.pc = "search_commit"
  BY <1>2 DEF IInv, TypeOK, RunStates
<1> HIDE DEF st
<1>4. /\ run' \in [Workers -> RunStates] /\ WorkerInv'
      /\ RowInv' /\ RowsGrow /\ TaskInv'
  BY <1>1, <1>3, WithinTask DEF SearchLoad, history
<1> QED BY <1>4, HandlerFrame, ErasedFrame DEF IInv, TypeOK, SearchLoad, history

LEMMA SearchCommitStep ==
    ASSUME IInv, NEW w \in Workers, SearchCommit(w)
    PROVE  IInv' /\ RowsGrow
<1> DEFINE r == Req(w)
           seen == run[w].seen
           next == IF rr[r].type = "erasure" THEN "pending_approval"
                   ELSE IF seen = "received" THEN "in_progress" ELSE seen
           row == [rr[r] EXCEPT !.discovered = TRUE,
                       !.plan = IF rr[r].type = "erasure" THEN run[w].found ELSE @,
                       !.status = IF next # seen THEN next ELSE @]
<1>1. /\ r \in Requests /\ Exists(r) /\ rr[r] \in Rows
      /\ run[w] \in RunStates /\ run[w].pc = "search_commit"
      /\ run[w].task \in Tasks /\ task[run[w].task].state # "unsent"
  BY DEF IInv, TypeOK, WorkerInv, TaskInv, Req, SearchCommit
<1>2. rr' = [rr EXCEPT ![r] = row] /\ task' = task /\ undone' = undone
  BY DEF SearchCommit, history
<1>3. next \in Statuses /\ "none" \notin Statuses
  BY <1>1 DEF Statuses, RunStates
<1>4. row.status # "none" /\ row \in Rows
  BY <1>1, <1>3 DEF Rows, RunStates, Exists
<1>5. /\ row.discovered /\ row.type = rr[r].type
      /\ row.verified = rr[r].verified /\ row.approved = rr[r].approved
      /\ row.fulfilled = rr[r].fulfilled
  BY <1>1 DEF Rows
<1> HIDE DEF row, next
<1>6. rr' \in [Requests -> Rows] /\ RowInv' /\ RowsGrow
  <2>1. row.approved => Passed(r, "verified") /\ row.type = "erasure"
    BY <1>1, <1>5 DEF IInv, RowInv, Passed
  <2>2. \A m \in Marks : rr[r][m] => row[m]
    BY <1>5 DEF Marks
  <2> QED BY <1>1, <1>2, <1>4, <1>5, <2>1, <2>2, RowColumns DEF IInv
<1>7. TasksGrow
  BY <1>2 DEF TasksGrow
<1>8. run' \in [Workers -> RunStates] /\ WorkerInv'
  <2>1. PICK st \in RunStates : /\ run' = [run EXCEPT ![w] = st]
                                /\ st.pc = "ack" /\ st.task = run[w].task
    BY <1>1, Left DEF IInv, SearchCommit
  <2> QED BY <1>1, <1>2, <1>6, <1>7, <2>1, WorkerMoved DEF IInv
<1> QED BY <1>6, <1>7, <1>8, HandlerFrame, TaskFrame, ErasedFrame
        DEF IInv, TypeOK, SearchCommit, history

(* Recording an outcome removes the location from what is left to do.         *)
LEMMA Recorded ==
    ASSUME TypeOK, NEW w \in Workers, NEW s \in Sources, NEW outcome \in Outcomes,
           Record(w, s, outcome)
    PROVE  \E st \in RunStates :
              /\ run' = [run EXCEPT ![w] = st]
              /\ st.pc = run[w].pc /\ st.task = run[w].task
              /\ st.todo \subseteq run[w].todo
<1> DEFINE st == [run[w] EXCEPT !.todo = @ \ {s}, !.outcome = [@ EXCEPT ![s] = outcome]]
<1>1. run[w] \in RunStates
  BY DEF TypeOK
<1>2. st \in RunStates
  BY <1>1 DEF RunStates
<1>3. /\ st.pc = run[w].pc /\ st.task = run[w].task
      /\ st.todo \subseteq run[w].todo
  BY <1>1 DEF RunStates
<1>4. run' = [run EXCEPT ![w] = st]
  BY DEF Record
<1> HIDE DEF st
<1> QED BY <1>2, <1>3, <1>4

(* The two outcomes that remove nothing.                                      *)
LEMMA NotErasedStep ==
    ASSUME IInv, NEW w \in Workers, NEW s \in Sources,
           LeaveToOperator(w, s) \/ EraseError(w, s)
    PROVE  IInv' /\ RowsGrow
<1>1. PICK outcome \in Outcomes : Record(w, s, outcome)
  BY DEF LeaveToOperator, EraseError, Outcomes
<1>2. PICK st \in RunStates : /\ run' = [run EXCEPT ![w] = st]
                              /\ st.pc = run[w].pc /\ st.task = run[w].task
                              /\ st.todo \subseteq run[w].todo
  BY <1>1, Recorded DEF IInv
<1>3. /\ run[w].pc = "erase" /\ rr' = rr /\ task' = task
      /\ handler' = handler /\ erased' = erased /\ undone' = undone
  BY DEF LeaveToOperator, EraseError, history
<1>4. /\ run' \in [Workers -> RunStates] /\ WorkerInv'
      /\ RowInv' /\ RowsGrow /\ TaskInv'
  BY <1>2, <1>3, WithinTask
<1> QED BY <1>3, <1>4, HandlerFrame, ErasedFrame
        DEF IInv, TypeOK, LeaveToOperator, EraseError, history

(* The deletion itself: the worker holds an approved, discovered request.     *)
LEMMA EraseSourceStep ==
    ASSUME IInv, NEW w \in Workers, NEW s \in Sources, EraseSource(w, s)
    PROVE  IInv' /\ RowsGrow
<1>1. PICK outcome \in Outcomes : Record(w, s, outcome)
  BY DEF EraseSource, Outcomes
<1>2. PICK st \in RunStates : /\ run' = [run EXCEPT ![w] = st]
                              /\ st.pc = run[w].pc /\ st.task = run[w].task
                              /\ st.todo \subseteq run[w].todo
  BY <1>1, Recorded DEF IInv
<1>3. /\ run[w].pc = "erase" /\ s \in run[w].todo /\ rr' = rr /\ task' = task
      /\ undone' = undone
  BY DEF EraseSource
<1>4. /\ run' \in [Workers -> RunStates] /\ WorkerInv'
      /\ RowInv' /\ RowsGrow /\ TaskInv'
  BY <1>2, <1>3, WithinTask
<1>5. /\ Req(w) \in Requests /\ Passed(Req(w), "approved")
      /\ Passed(Req(w), "discovered") /\ Passed(Req(w), "verified")
      /\ rr[Req(w)].type = "erasure" /\ s \in Erasable
  BY <1>3 DEF IInv, WorkerInv, TaskInv, RowInv, Req, EraseSource
<1>6. /\ holds' \in [Requests -> SUBSET Sources]
      /\ erased' \in [Requests -> SUBSET Sources]
  BY DEF IInv, TypeOK, EraseSource
<1>7. ErasureGated'
  <2>1. \A r \in Requests : erased'[r] = erased[r] \/ (r = Req(w) /\ erased'[r] = erased[r] \cup {s})
    BY <1>5 DEF IInv, TypeOK, EraseSource
  <2> QED BY <1>3, <1>5, <2>1 DEF IInv, ErasureGated, Passed
<1> QED BY <1>3, <1>4, <1>6, <1>7, HandlerFrame DEF IInv, TypeOK, EraseSource

LEMMA EraseCommitStep ==
    ASSUME IInv, NEW w \in Workers, EraseCommit(w)
    PROVE  IInv' /\ RowsGrow
<1> DEFINE r == Req(w)
           row == [rr[r] EXCEPT !.fulfilled = TRUE, !.result = run[w].outcome,
                       !.status = IF run[w].seen # "completed" THEN "completed" ELSE @]
<1>1. /\ r \in Requests /\ Exists(r) /\ rr[r] \in Rows
      /\ run[w] \in RunStates /\ run[w].pc = "erase"
      /\ run[w].task \in Tasks /\ task[run[w].task].state # "unsent"
  BY DEF IInv, TypeOK, WorkerInv, TaskInv, Req, EraseCommit
<1>2. (rr' = [rr EXCEPT ![r] = row] \/ rr' = rr) /\ undone' = undone
  BY DEF EraseCommit
<1>3. /\ row \in Rows /\ row.status # "none" /\ row.fulfilled
      /\ row.type = rr[r].type /\ row.discovered = rr[r].discovered
      /\ row.verified = rr[r].verified /\ row.approved = rr[r].approved
      /\ row.plan = rr[r].plan
  BY <1>1 DEF Rows, RunStates, Statuses, Exists
<1> HIDE DEF row
<1>4. rr' \in [Requests -> Rows] /\ RowInv' /\ RowsGrow
  <2>1. CASE rr' = rr
    BY <1>2, <2>1, RowsSame DEF IInv, TypeOK
  <2>2. CASE rr' = [rr EXCEPT ![r] = row]
    BY <1>1, <1>2, <1>3, <2>2, ColumnsKept DEF IInv
  <2> QED BY <1>2, <2>1, <2>2
<1>5. TasksGrow
  BY DEF EraseCommit, TasksGrow
<1>6. run' \in [Workers -> RunStates] /\ WorkerInv'
  <2>1. PICK st \in RunStates : /\ run' = [run EXCEPT ![w] = st]
                                /\ st.pc = "ack" /\ st.task = run[w].task
    BY <1>1, Left DEF IInv, EraseCommit
  <2> QED BY <1>1, <1>4, <1>5, <2>1, WorkerMoved DEF IInv, EraseCommit
<1>7. alerted' \in SUBSET Requests /\ failed' \in SUBSET Tasks
  BY <1>1 DEF IInv, TypeOK, EraseCommit
<1> QED BY <1>4, <1>5, <1>6, <1>7, HandlerFrame, TaskFrame, ErasedFrame
        DEF IInv, TypeOK, EraseCommit

----------------------------------------------------------------------------
(* Celery *)

(* A worker that becomes idle while its message is moved by the broker.       *)
LEMMA WorkerReleased ==
    ASSUME IInv, NEW w \in Workers, run[w].pc # "idle",
           NEW state \in {"queued", "acked"}, rr' = rr, undone' = undone,
           run' = [run EXCEPT ![w] = IdleRun],
           task' = [task EXCEPT ![run[w].task].state =
                        IF @ = "unacked" THEN state ELSE @]
    PROVE  /\ run' \in [Workers -> RunStates] /\ WorkerInv'
           /\ task' \in [Tasks -> TaskStates] /\ TaskInv'
           /\ RowInv' /\ RowsGrow
<1> DEFINE t == run[w].task
           next == IF task[t].state = "unacked" THEN state ELSE task[t].state
<1>1. t \in Tasks /\ task[t].state # "unsent" /\ task[t] \in TaskStates
  BY DEF IInv, TypeOK, WorkerInv
<1>2. next \in {"queued", "unacked", "acked"}
  BY <1>1 DEF TaskStates
<1>3. task' = [task EXCEPT ![t].state = next]
  OBVIOUS
<1> HIDE DEF next
<1>4. RowInv' /\ RowsGrow
  BY RowsSame DEF IInv
<1>5. task' \in [Tasks -> TaskStates] /\ TaskInv' /\ TasksGrow
  BY <1>1, <1>2, <1>3, <1>4, TaskMoved DEF IInv
<1>6. run' \in [Workers -> RunStates] /\ WorkerInv'
  BY <1>4, <1>5, IdleTypes, WorkerMoved DEF IInv, IdleRun
<1> QED BY <1>4, <1>5, <1>6

LEMMA AckStep ==
    ASSUME IInv, NEW w \in Workers, Ack(w)
    PROVE  IInv' /\ RowsGrow
<1>1. /\ run' \in [Workers -> RunStates] /\ WorkerInv'
      /\ task' \in [Tasks -> TaskStates] /\ TaskInv'
      /\ RowInv' /\ RowsGrow
  BY WorkerReleased DEF Ack, history
<1> QED BY <1>1, HandlerFrame, ErasedFrame DEF IInv, TypeOK, Ack, history

LEMMA WorkerCrashStep ==
    ASSUME IInv, NEW w \in Workers, WorkerCrash(w)
    PROVE  IInv' /\ RowsGrow
<1>1. /\ run' \in [Workers -> RunStates] /\ WorkerInv'
      /\ task' \in [Tasks -> TaskStates] /\ TaskInv'
      /\ RowInv' /\ RowsGrow
  BY WorkerReleased DEF WorkerCrash, history
<1> QED BY <1>1, HandlerFrame, ErasedFrame DEF IInv, TypeOK, WorkerCrash, Fault, history

LEMMA TaskErrorStep ==
    ASSUME IInv, NEW w \in Workers, TaskError(w)
    PROVE  IInv' /\ RowsGrow
<1>1. PICK st \in RunStates : /\ run' = [run EXCEPT ![w] = st]
                              /\ st.pc = "ack" /\ st.task = run[w].task
  BY Left DEF IInv, TaskError
<1>2. /\ run' \in [Workers -> RunStates] /\ WorkerInv'
      /\ RowInv' /\ RowsGrow /\ TaskInv'
  BY <1>1, WithinTask DEF TaskError
<1>3. failed' \in SUBSET Tasks
  BY DEF IInv, TypeOK, WorkerInv, TaskError
<1> QED BY <1>2, <1>3, HandlerFrame, ErasedFrame DEF IInv, TypeOK, TaskError, Fault

LEMMA RedeliverStep ==
    ASSUME IInv, NEW t \in Tasks, Redeliver(t)
    PROVE  IInv' /\ RowsGrow
<1>1. RowInv' /\ RowsGrow
  BY RowsSame DEF IInv, Redeliver, history
<1>2. task' \in [Tasks -> TaskStates] /\ TaskInv' /\ TasksGrow
  BY <1>1, TaskMoved DEF IInv, Redeliver
<1> QED BY <1>1, <1>2, HandlerFrame, WorkerFrame, ErasedFrame
        DEF IInv, TypeOK, Redeliver, Fault, history

----------------------------------------------------------------------------
(* Theorems *)

LEMMA StepInv == IInv /\ [Next]_vars => IInv' /\ RowsGrow
<1> SUFFICES ASSUME IInv, [Next]_vars PROVE IInv' /\ RowsGrow
  OBVIOUS
<1>1. CASE UNCHANGED vars
  <2>1. RowInv' /\ RowsGrow /\ TasksGrow
    BY <1>1, RowsSame DEF IInv, vars, history, TasksGrow
  <2> QED BY <1>1, <2>1, HandlerFrame, TaskFrame, WorkerFrame, ErasedFrame
          DEF IInv, TypeOK, vars, history
<1>2. ASSUME NEW r \in Requests, NEW type \in RequestTypes, Create(r, type)
      PROVE  IInv' /\ RowsGrow
  BY <1>2, CreateStep
<1>3. ASSUME NEW r \in Requests, NEW status \in OperatorStatuses, Update(r, status)
      PROVE  IInv' /\ RowsGrow
  BY <1>3, UpdateStep
<1>4. ASSUME NEW r \in Requests, SearchPrincipal(r)
      PROVE  IInv' /\ RowsGrow
  BY <1>4, SearchPrincipalStep
<1>5. ASSUME NEW h \in Handlers, HandlerStep(h)
      PROVE  IInv' /\ RowsGrow
  BY <1>5, HandlerReadStep, VerifyWriteStep, ApproveWriteStep, UpdateWriteStep,
     HandlerSendStep
     DEF HandlerStep
<1>6. ASSUME NEW s \in Sources, AssetStatus(s)
      PROVE  IInv' /\ RowsGrow
  BY <1>6, AssetStatusStep
<1>7. ASSUME NEW w \in Workers, WorkerStep(w)
      PROVE  IInv' /\ RowsGrow
  BY <1>7, SearchStartStep, EraseStartStep, SearchSourceStep, SearchLoadStep,
     SearchCommitStep, NotErasedStep, EraseSourceStep, EraseCommitStep, AckStep
     DEF WorkerStep
<1>8. CASE Failure
  BY <1>8, HandlerFailStep, TaskErrorStep, WorkerCrashStep, RedeliverStep DEF Failure
<1> QED BY <1>1, <1>2, <1>3, <1>4, <1>5, <1>6, <1>7, <1>8 DEF Next

(* The inductive invariant holds in every reachable state.                    *)
THEOREM Invariance == Spec => []IInv
<1> QED BY InitInv, StepInv, PTL DEF Spec

(* Rows, handlers, messages and workers keep their shape.                     *)
THEOREM TypeCorrect == Spec => []TypeOK
<1>1. IInv => TypeOK
  BY DEF IInv
<1> QED BY <1>1, Invariance, PTL

(* Destructive deletion never runs without an approval on a verified,         *)
(* discovered erasure request, and never on a source that is not erasable.    *)
THEOREM DeletionGated == Spec => []ErasureGated
<1>1. IInv => ErasureGated
  BY DEF IInv
<1> QED BY <1>1, Invariance, PTL

(* A worker that takes an erasure task never meets the refusal of             *)
(* execute_erasure: approval is committed before the dispatch.                *)
THEOREM ErasureNeverRefused == Spec => []ErasureTaskApproved
<1>1. IInv => ErasureTaskApproved
  BY DEF IInv, TaskInv, RowInv, ErasureTaskApproved
<1> QED BY <1>1, Invariance, PTL

----------------------------------------------------------------------------
(* Refinement of ErasureGate *)

Verified == {r \in Requests : Passed(r, "verified")}
Discovered == {r \in Requests : Passed(r, "discovered")}
Approved == {r \in Requests : Passed(r, "approved")}

(* What a write of columns does to what was passed.                           *)
LEMMA PassedWrite ==
    ASSUME TypeOK, NEW r \in Requests, NEW row, rr' = [rr EXCEPT ![r] = row],
           undone' = undone
    PROVE  \A q \in Requests, m \in Marks :
              Passed(q, m)' <=> IF q = r THEN row[m] \/ m \in undone[r] ELSE Passed(q, m)
<1>1. \A q \in Requests : rr'[q] = IF q = r THEN row ELSE rr[q]
  BY DEF TypeOK
<1> QED BY <1>1 DEF Passed

(* A row that changes no gate maps to a stutter.                              *)
LEMMA GatesSame ==
    ASSUME TypeOK, NEW r \in Requests, NEW row, rr' = [rr EXCEPT ![r] = row],
           undone' = undone,
           row.verified = rr[r].verified, row.discovered = rr[r].discovered,
           row.approved = rr[r].approved
    PROVE  UNCHANGED <<Verified, Discovered, Approved>>
BY PassedWrite DEF Verified, Discovered, Approved, Passed, Marks

LEMMA GateInitially == Init => Gate!GateInit
BY DEF Init, NoRow, Gate!GateInit, Passed, Marks

(* What a step of the workflow does to the gates.                             *)
GateStep == [Gate!GateNext]_(Gate!gateVars)

LEMMA GateStutter ==
    ASSUME UNCHANGED <<Verified, Discovered, Approved>>, erased' = erased
    PROVE  GateStep
BY DEF GateStep, Gate!gateVars, Verified, Discovered, Approved

LEMMA CreateGate ==
    ASSUME IInv, NEW r \in Requests, NEW type \in RequestTypes, Create(r, type)
    PROVE  GateStep
<1> DEFINE row == [NoRow EXCEPT !.type = type, !.status = "received"]
<1>1. /\ rr' = [rr EXCEPT ![r] = row] /\ ~Exists(r) /\ erased' = erased
      /\ undone' = undone
  BY DEF Create, history
<1>2. ~row.verified /\ ~row.discovered /\ ~row.approved
  BY DEF NoRow
<1>3. ~rr[r].verified /\ ~rr[r].discovered /\ ~rr[r].approved
  BY <1>1 DEF IInv, RowInv, Passed, Marks
<1>4. rr[r] \in Rows /\ row \in Rows
  BY IdleTypes DEF IInv, TypeOK, Rows, Statuses, NoRow
<1>5. /\ row.verified = rr[r].verified /\ row.discovered = rr[r].discovered
      /\ row.approved = rr[r].approved
  BY <1>2, <1>3, <1>4 DEF Rows
<1> HIDE DEF row
<1> QED BY <1>1, <1>5, GatesSame, GateStutter DEF IInv

LEMMA UpdateGate ==
    ASSUME IInv, NEW r \in Requests, NEW status \in OperatorStatuses, Update(r, status)
    PROVE  GateStep
<1> DEFINE row == [rr[r] EXCEPT !.status = status]
<1>1. rr' = [rr EXCEPT ![r] = row] /\ erased' = erased /\ undone' = undone
  BY DEF Update, history
<1>2. /\ row.verified = rr[r].verified /\ row.discovered = rr[r].discovered
      /\ row.approved = rr[r].approved
  BY DEF IInv, TypeOK, Rows
<1> HIDE DEF row
<1> QED BY <1>1, <1>2, GatesSame, GateStutter DEF IInv

(* The write of an older copy takes no gate back that was passed.             *)
LEMMA UpdateWriteGate ==
    ASSUME IInv, NEW h \in Handlers, UpdateWrite(h)
    PROVE  GateStep
<1> DEFINE r == handler[h].req
           row == handler[h].row
<1>1. /\ r \in Requests /\ Copied(r, row) /\ erased' = erased
      /\ rr' = [rr EXCEPT ![r] = row]
      /\ undone' = [undone EXCEPT ![r] = @ \cup {m \in Marks : rr[r][m] /\ ~row[m]}]
  BY DEF IInv, HandlerInv, UpdateWrite
<1> HIDE DEF r, row
<1>2. \A q \in Requests : rr'[q] = IF q = r THEN row ELSE rr[q]
  BY <1>1 DEF IInv, TypeOK
<1> DEFINE taken == {m \in Marks : rr[r][m] /\ ~row[m]}
<1>3. /\ undone'[r] = undone[r] \cup taken
      /\ \A q \in Requests : q # r => undone'[q] = undone[q]
  BY <1>1 DEF IInv, TypeOK
<1>4. \A q \in Requests, m \in Marks : Passed(q, m)' <=> Passed(q, m)
  <2> SUFFICES ASSUME NEW q \in Requests, NEW m \in Marks
               PROVE  Passed(q, m)' <=> Passed(q, m)
    OBVIOUS
  <2>1. CASE q # r
    BY <1>2, <1>3, <2>1 DEF Passed
  <2>2. CASE q = r
    <3>1. row[m] => Passed(r, m)
      BY <1>1 DEF Copied
    <3> QED BY <1>2, <1>3, <2>2, <3>1 DEF Passed
  <2> QED BY <2>1, <2>2
<1>5. UNCHANGED <<Verified, Discovered, Approved>>
  BY <1>4 DEF Verified, Discovered, Approved, Marks
<1> QED BY <1>1, <1>5, GateStutter

(* The write of Verify opens the gate of identity.                            *)
LEMMA VerifyGate ==
    ASSUME IInv, NEW h \in Handlers, VerifyWrite(h)
    PROVE  GateStep
<1> DEFINE r == handler[h].req
           next == IF handler[h].seen = "received" THEN "in_progress"
                   ELSE handler[h].seen
           row == [rr[r] EXCEPT !.verified = TRUE, !.status = next]
<1>1. /\ r \in Requests /\ rr[r] \in Rows
      /\ rr' = [rr EXCEPT ![r] = row] /\ erased' = erased /\ undone' = undone
  BY DEF IInv, TypeOK, HandlerInv, VerifyWrite, history
<1>2. /\ row.verified /\ row.discovered = rr[r].discovered
      /\ row.approved = rr[r].approved
  BY <1>1 DEF Rows
<1> HIDE DEF row
<1>3. \A q \in Requests, m \in Marks :
         Passed(q, m)' <=> IF q = r THEN row[m] \/ m \in undone[r] ELSE Passed(q, m)
  BY <1>1, PassedWrite DEF IInv
<1>4. \A q \in Requests :
         /\ Passed(q, "verified")' <=> Passed(q, "verified") \/ q = r
         /\ Passed(q, "discovered")' <=> Passed(q, "discovered")
         /\ Passed(q, "approved")' <=> Passed(q, "approved")
  BY <1>2, <1>3 DEF Passed, Marks
<1>5. Gate!Identify(r)
  BY <1>1, <1>4 DEF Gate!Identify
<1>6. \E q \in Requests : Gate!Identify(q)
  BY <1>1, <1>5 DEF Gate!Identify
<1> QED BY <1>6 DEF GateStep, Gate!GateNext

(* The write of Approve opens the gate of approval behind that of identity.   *)
LEMMA ApproveGate ==
    ASSUME IInv, NEW h \in Handlers, ApproveWrite(h)
    PROVE  GateStep
<1> DEFINE r == handler[h].req
           row == [rr[r] EXCEPT !.approved = TRUE, !.status = "in_progress"]
<1>1. /\ r \in Requests /\ rr[r] \in Rows /\ Passed(r, "verified")
      /\ rr' = [rr EXCEPT ![r] = row] /\ erased' = erased /\ undone' = undone
  BY DEF IInv, TypeOK, HandlerInv, ApproveWrite
<1>2. /\ row.approved /\ row.discovered = rr[r].discovered
      /\ row.verified = rr[r].verified
  BY <1>1 DEF Rows
<1> HIDE DEF row
<1>3. \A q \in Requests, m \in Marks :
         Passed(q, m)' <=> IF q = r THEN row[m] \/ m \in undone[r] ELSE Passed(q, m)
  BY <1>1, PassedWrite DEF IInv
<1>4. Gate!Approve(r)
  <2>1. \A q \in Requests :
           /\ Passed(q, "verified")' <=> Passed(q, "verified")
           /\ Passed(q, "discovered")' <=> Passed(q, "discovered")
           /\ Passed(q, "approved")' <=> Passed(q, "approved") \/ q = r
    BY <1>2, <1>3 DEF Passed, Marks
  <2> QED BY <1>1, <2>1 DEF Gate!Approve
<1>5. \E q \in Requests : Gate!Approve(q)
  BY <1>1, <1>4 DEF Gate!Approve
<1> QED BY <1>5 DEF GateStep, Gate!GateNext

(* The commit of a search opens the gate of discovery.                        *)
LEMMA DiscoveryGate ==
    ASSUME IInv, NEW w \in Workers, SearchCommit(w)
    PROVE  GateStep
<1> DEFINE r == Req(w)
           seen == run[w].seen
           next == IF rr[r].type = "erasure" THEN "pending_approval"
                   ELSE IF seen = "received" THEN "in_progress" ELSE seen
           row == [rr[r] EXCEPT !.discovered = TRUE,
                       !.plan = IF rr[r].type = "erasure" THEN run[w].found ELSE @,
                       !.status = IF next # seen THEN next ELSE @]
<1>1. /\ r \in Requests /\ rr[r] \in Rows
      /\ rr' = [rr EXCEPT ![r] = row] /\ erased' = erased /\ undone' = undone
  BY DEF IInv, TypeOK, WorkerInv, TaskInv, Req, SearchCommit, history
<1>2. /\ row.discovered /\ row.approved = rr[r].approved
      /\ row.verified = rr[r].verified
  BY <1>1 DEF Rows
<1> HIDE DEF row
<1>3. \A q \in Requests, m \in Marks :
         Passed(q, m)' <=> IF q = r THEN row[m] \/ m \in undone[r] ELSE Passed(q, m)
  BY <1>1, PassedWrite DEF IInv
<1>4. \A q \in Requests :
         /\ Passed(q, "verified")' <=> Passed(q, "verified")
         /\ Passed(q, "discovered")' <=> Passed(q, "discovered") \/ q = r
         /\ Passed(q, "approved")' <=> Passed(q, "approved")
  BY <1>2, <1>3 DEF Passed, Marks
<1>5. Gate!Locate(r)
  BY <1>1, <1>4 DEF Gate!Locate
<1>6. \E q \in Requests : Gate!Locate(q)
  BY <1>1, <1>5 DEF Gate!Locate
<1> QED BY <1>6 DEF GateStep, Gate!GateNext

(* A deletion happens behind all gates.                                       *)
LEMMA DeletionGate ==
    ASSUME IInv, NEW w \in Workers, NEW s \in Sources, EraseSource(w, s)
    PROVE  GateStep
<1>1. /\ Req(w) \in Requests /\ Passed(Req(w), "approved")
      /\ Passed(Req(w), "discovered") /\ Passed(Req(w), "verified")
      /\ s \in Erasable
  BY DEF IInv, WorkerInv, TaskInv, RowInv, Req, EraseSource
<1>2. rr' = rr /\ undone' = undone
  BY DEF EraseSource
<1>3. CASE s \in holds[Req(w)]
  <2>1. Gate!Remove(Req(w), s)
    BY <1>1, <1>2, <1>3 DEF Gate!Remove, EraseSource, Passed
  <2> QED BY <1>1, <2>1 DEF GateStep, Gate!GateNext
<1>4. CASE s \notin holds[Req(w)]
  <2>1. erased' = erased
    BY <1>1, <1>4 DEF IInv, TypeOK, EraseSource
  <2> QED BY <1>2, <2>1, GateStutter DEF Verified, Discovered, Approved, Passed
<1> QED BY <1>3, <1>4

(* The last transaction of an erasure leaves the gates alone.                 *)
LEMMA CommitGate ==
    ASSUME IInv, NEW w \in Workers, EraseCommit(w)
    PROVE  GateStep
<1> DEFINE r == Req(w)
           row == [rr[r] EXCEPT !.fulfilled = TRUE, !.result = run[w].outcome,
                       !.status = IF run[w].seen # "completed" THEN "completed" ELSE @]
<1>1. /\ r \in Requests /\ rr[r] \in Rows /\ erased' = erased /\ undone' = undone
  BY DEF IInv, TypeOK, WorkerInv, TaskInv, Req, EraseCommit
<1>2. /\ row.verified = rr[r].verified /\ row.discovered = rr[r].discovered
      /\ row.approved = rr[r].approved
  BY <1>1 DEF Rows
<1>3. rr' = [rr EXCEPT ![r] = row] \/ rr' = rr
  BY DEF EraseCommit
<1> HIDE DEF row
<1>4. CASE rr' = rr
  BY <1>1, <1>4, GateStutter DEF Verified, Discovered, Approved, Passed
<1>5. CASE rr' = [rr EXCEPT ![r] = row]
  BY <1>1, <1>2, <1>5, GatesSame, GateStutter DEF IInv
<1> QED BY <1>3, <1>4, <1>5

LEMMA StepGate == IInv /\ [Next]_vars => GateStep
<1> SUFFICES ASSUME IInv, [Next]_vars PROVE GateStep
  OBVIOUS
<1> USE DEF Verified, Discovered, Approved, Passed, history
<1>1. CASE UNCHANGED vars
  BY <1>1, GateStutter DEF vars
<1>2. ASSUME NEW r \in Requests, NEW type \in RequestTypes, Create(r, type)
      PROVE  GateStep
  BY <1>2, CreateGate
<1>3. ASSUME NEW r \in Requests, NEW status \in OperatorStatuses, Update(r, status)
      PROVE  GateStep
  BY <1>3, UpdateGate
<1>4. ASSUME NEW r \in Requests, SearchPrincipal(r)
      PROVE  GateStep
  BY <1>4, GateStutter DEF SearchPrincipal
<1>5. ASSUME NEW h \in Handlers, HandlerStep(h)
      PROVE  GateStep
  <2>1. ASSUME NEW r \in Requests, VerifyRead(h, r) \/ ApproveRead(h, r) \/ UpdateRead(h, r)
        PROVE  GateStep
    BY <2>1, GateStutter DEF VerifyRead, ApproveRead, UpdateRead
  <2>2. CASE HandlerSend(h)
    BY <2>2, GateStutter DEF HandlerSend
  <2> QED BY <1>5, <2>1, <2>2, VerifyGate, ApproveGate, UpdateWriteGate
         DEF HandlerStep
<1>6. ASSUME NEW s \in Sources, AssetStatus(s)
      PROVE  GateStep
  BY <1>6, GateStutter DEF AssetStatus
<1>7. ASSUME NEW w \in Workers, WorkerStep(w)
      PROVE  GateStep
  <2>1. ASSUME NEW t \in Tasks, SearchStart(w, t) \/ EraseStart(w, t)
        PROVE  GateStep
    BY <2>1, GateStutter DEF SearchStart, EraseStart
  <2>2. ASSUME NEW s \in Sources,
               SearchSource(w, s) \/ LeaveToOperator(w, s) \/ EraseError(w, s)
        PROVE  GateStep
    BY <2>2, GateStutter DEF SearchSource, LeaveToOperator, EraseError
  <2>3. CASE SearchLoad(w) \/ Ack(w)
    BY <2>3, GateStutter DEF SearchLoad, Ack
  <2> QED BY <1>7, <2>1, <2>2, <2>3, DiscoveryGate, DeletionGate, CommitGate DEF WorkerStep
<1>8. CASE Failure
  BY <1>8, GateStutter DEF Failure, HandlerFail, TaskError, WorkerCrash, Redeliver
<1> QED BY <1>1, <1>2, <1>3, <1>4, <1>5, <1>6, <1>7, <1>8 DEF Next

(* The workflow implements its promise: every behaviour, with any operators,  *)
(* interleavings and faults, is one of ErasureGate.                           *)
THEOREM GateRefined == Spec => ImplementsGate
<1>1. IInv /\ [Next]_vars => [Gate!GateNext]_(Gate!gateVars)
  BY StepGate DEF GateStep
<1> QED BY <1>1, GateInitially, Invariance, PTL DEF Spec, ImplementsGate, Gate!GateSpec
=============================================================================
