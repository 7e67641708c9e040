-------------------------- MODULE RightsFulfillment --------------------------
(* The fulfilment workflow of Data Subject Requests (DSR).                    *)
(*                                                                            *)
(* Control plane: internal/services/rights_service.go. A handler reads the   *)
(* row, checks it, writes it and dispatches a task: separate statements with  *)
(* no transaction and no row lock, so each of them is an action.              *)
(* Broker: the Redis list "rights" (worker_service.go, celery_app.py).        *)
(* acks_late and reject_on_worker_lost give at-least-once delivery.           *)
(* Workers: app/tasks/rights.py. A search builds the erasure plan of the row; *)
(* an erasure deletes records in the tenant's own data stores, source by      *)
(* source, each deletion committed on its own, and then updates the row.      *)
(*                                                                            *)
(* Left out: notes, assignees, response_data, e-mail addresses, audit rows.   *)
EXTENDS Naturals, FiniteSets

CONSTANTS
    Requests,   \* ids of rights_requests rows that may be created
    Sources,    \* (asset, table) pairs of the tenant that can hold records
    Erasable,   \* sources whose asset type is in _ERASABLE_TYPES
    Handlers,   \* concurrent control-plane requests of operators
    Workers,    \* Celery worker processes serving the queue "rights"
    Tasks,      \* ids of dispatched tasks: bounds the number of dispatches
    NoRequest,  \* the request of an idle handler or an unused task id
    NoTask,     \* the task of an idle worker
    OperatorStatuses, \* statuses that operators write with Update
    AlertTypes, \* alert types the CHECK of table alerts admits
    FaultKinds, \* faults that may occur, subset of AllFaults
    MaxFaults   \* bound on the number of faults in a behaviour

AllFaults == {"handler", "crash", "redeliver", "error"}

ASSUME ErasableAssumption == Erasable \subseteq Sources
ASSUME NoValueAssumption == NoRequest \notin Requests /\ NoTask \notin Tasks
ASSUME StatusAssumption == OperatorStatuses \subseteq
    {"received", "in_progress", "pending_approval", "completed", "rejected"}
ASSUME FaultAssumption == FaultKinds \subseteq AllFaults /\ MaxFaults \in Nat

VARIABLES
    rr,         \* table rights_requests
    holds,      \* request -> sources that hold records of its data principal
    connected,  \* sources whose asset has status "connected"
    handler,    \* handler -> where it is and what it has read
    task,       \* task -> broker state and message
    run,        \* worker -> where it is and its locals
    alerted,    \* requests with a dsr_erasure_completed row in table alerts
    faults,     \* number of faults so far
    erased,     \* history: request -> sources an erasure removed records from
    authorised, \* history: request -> sources in the plans that were approved
    undone,     \* history: request -> what an older copy of its row took back
    failed      \* history: tasks of which a run raised

(* No action reads the history.                                               *)
history == <<erased, authorised, undone, failed>>
vars == <<rr, holds, connected, handler, task, run, alerted, faults, history>>

(* "access" stands for the four types the workflow treats alike: access,      *)
(* correction, portability and nomination.                                    *)
RequestTypes == {"access", "erasure"}
Statuses == {"received", "in_progress", "pending_approval", "completed", "rejected"}
Closed == {"completed", "rejected"}

(* Outcome of one plan location; "erased" is split by whether rows went away. *)
Outcomes == {"none", "erased", "erased_nothing", "manual_required", "error"}
NoOutcome == [s \in Sources |-> "none"]

CompletionAlert == "dsr_erasure_completed"

(* A row of rights_requests: timestamps are kept as "is set". Status "none"   *)
(* stands for a row that does not exist yet.                                  *)
NoRow == [type |-> "access", status |-> "none", verified |-> FALSE,
          discovered |-> FALSE, approved |-> FALSE, plan |-> {},
          fulfilled |-> FALSE, result |-> NoOutcome]

(* What an operation sets once and for all, as columns of the row.            *)
Marks == {"verified", "discovered", "approved", "fulfilled"}

IdleHandler == [pc |-> "idle", req |-> NoRequest, seen |-> "received", row |-> NoRow]
IdleRun == [pc |-> "idle", task |-> NoTask, todo |-> {}, found |-> {},
            seen |-> "received", assets |-> {}, outcome |-> NoOutcome]

Rows == [type: RequestTypes, status: Statuses \cup {"none"}, verified: BOOLEAN,
         discovered: BOOLEAN, approved: BOOLEAN, plan: SUBSET Sources,
         fulfilled: BOOLEAN, result: [Sources -> Outcomes]]
HandlerStates == [pc: {"idle", "verify_write", "verify_send", "approve_write",
                       "approve_send", "update_write"},
                  req: Requests \cup {NoRequest}, seen: Statuses, row: Rows]
TaskStates == [state: {"unsent", "queued", "unacked", "acked"},
               kind: {"search", "erasure"}, req: Requests \cup {NoRequest}]
RunStates == [pc: {"idle", "search", "search_commit", "erase", "ack"},
              task: Tasks \cup {NoTask}, todo: SUBSET Sources, found: SUBSET Sources,
              seen: Statuses, assets: SUBSET Sources,
              outcome: [Sources -> Outcomes]]

TypeOK ==
    /\ rr \in [Requests -> Rows]
    /\ holds \in [Requests -> SUBSET Sources]
    /\ connected \in SUBSET Sources
    /\ handler \in [Handlers -> HandlerStates]
    /\ task \in [Tasks -> TaskStates]
    /\ run \in [Workers -> RunStates]
    /\ alerted \in SUBSET Requests
    /\ faults \in Nat
    /\ erased \in [Requests -> SUBSET Sources]
    /\ authorised \in [Requests -> SUBSET Sources]
    /\ undone \in [Requests -> SUBSET Marks]
    /\ failed \in SUBSET Tasks

Exists(r) == rr[r].status # "none"

Init ==
    /\ rr = [r \in Requests |-> NoRow]
    /\ holds \in [Requests -> SUBSET Sources]
    /\ connected = Sources
    /\ handler = [h \in Handlers |-> IdleHandler]
    /\ task = [t \in Tasks |->
                  [state |-> "unsent", kind |-> "search", req |-> NoRequest]]
    /\ run = [w \in Workers |-> IdleRun]
    /\ alerted = {}
    /\ faults = 0
    /\ erased = [r \in Requests |-> {}]
    /\ authorised = [r \in Requests |-> {}]
    /\ undone = [r \in Requests |-> {}]
    /\ failed = {}

----------------------------------------------------------------------------
(* Control plane *)

(* RightsService.Create *)
Create(r, type) ==
    /\ ~Exists(r)
    /\ rr' = [rr EXCEPT ![r] = [NoRow EXCEPT !.type = type, !.status = "received"]]
    /\ UNCHANGED <<holds, connected, handler, task, run, alerted, faults, history>>

(* RightsService.Update and its callers Complete, Reject and Assign, with a    *)
(* body: only the given columns are written, whatever the row's state is, so  *)
(* that GetByID before serves the 404 alone.                                  *)
Update(r, status) ==
    /\ Exists(r)
    /\ rr' = [rr EXCEPT ![r].status = status]
    /\ UNCHANGED <<holds, connected, handler, task, run, alerted, faults, history>>

(* GetByID in an Update whose body gives no column.                           *)
UpdateRead(h, r) ==
    /\ handler[h].pc = "idle"
    /\ Exists(r)
    /\ handler' = [handler EXCEPT ![h] =
                      [IdleHandler EXCEPT !.pc = "update_write", !.req = r, !.row = rr[r]]]
    /\ UNCHANGED <<rr, holds, connected, task, run, alerted, faults, history>>

(* Its UPDATE: without any Set bun writes every column of the struct that was *)
(* read, so whatever was written in between is taken back.                    *)
UpdateWrite(h) ==
    LET r == handler[h].req
        row == handler[h].row
    IN  /\ handler[h].pc = "update_write"
        /\ rr' = [rr EXCEPT ![r] = row]
        /\ undone' = [undone EXCEPT ![r] = @ \cup {m \in Marks : rr[r][m] /\ ~row[m]}]
        /\ handler' = [handler EXCEPT ![h] = IdleHandler]
        /\ UNCHANGED <<holds, connected, task, run, alerted, faults, erased, authorised,
                       failed>>

(* The first half of Verify: GetByID and the check for a closed request.      *)
VerifyRead(h, r) ==
    /\ handler[h].pc = "idle"
    /\ Exists(r)
    /\ rr[r].status \notin Closed
    /\ handler' = [handler EXCEPT ![h] =
                      [IdleHandler EXCEPT !.pc = "verify_write", !.req = r, !.seen = rr[r].status]]
    /\ UNCHANGED <<rr, holds, connected, task, run, alerted, faults, history>>

(* The UPDATE of Verify writes the status computed from the row read before.  *)
VerifyWrite(h) ==
    LET r == handler[h].req
        next == IF handler[h].seen = "received" THEN "in_progress"
                ELSE handler[h].seen
    IN  /\ handler[h].pc = "verify_write"
        /\ rr' = [rr EXCEPT ![r].verified = TRUE, ![r].status = next]
        /\ handler' = [handler EXCEPT ![h].pc = "verify_send"]
        /\ UNCHANGED <<holds, connected, task, run, alerted, faults, history>>

(* Mutant of ApproveRead: the check of verified_at is missing.                *)
ApproveReadUnverified(h, r) ==
    /\ handler[h].pc = "idle"
    /\ rr[r].type = "erasure"
    /\ rr[r].status = "pending_approval"
    /\ handler' = [handler EXCEPT ![h] =
                      [IdleHandler EXCEPT !.pc = "approve_write", !.req = r]]
    /\ UNCHANGED <<rr, holds, connected, task, run, alerted, faults, history>>

(* Mutant of ApproveRead: the task is dispatched without the UPDATE before it.*)
ApproveReadDispatchFirst(h, r) ==
    /\ handler[h].pc = "idle"
    /\ rr[r].type = "erasure" /\ rr[r].status = "pending_approval" /\ rr[r].verified
    /\ handler' = [handler EXCEPT ![h] =
                      [IdleHandler EXCEPT !.pc = "approve_send", !.req = r]]
    /\ UNCHANGED <<rr, holds, connected, task, run, alerted, faults, history>>

(* The first half of Approve: GetByID and the three checks.                   *)
ApproveRead(h, r) ==
    /\ handler[h].pc = "idle"
    /\ Exists(r)
    /\ rr[r].type = "erasure"
    /\ rr[r].status = "pending_approval"
    /\ rr[r].verified
    /\ handler' = [handler EXCEPT ![h] =
                      [IdleHandler EXCEPT !.pc = "approve_write", !.req = r]]
    /\ UNCHANGED <<rr, holds, connected, task, run, alerted, faults, history>>

(* Mutant of ApproveWrite: a status the table does not know.                  *)
ApproveWriteApproved(h) ==
    LET r == handler[h].req
    IN  /\ handler[h].pc = "approve_write"
        /\ rr' = [rr EXCEPT ![r].approved = TRUE, ![r].status = "approved"]
        /\ authorised' = [authorised EXCEPT ![r] = @ \cup rr[r].plan]
        /\ handler' = [handler EXCEPT ![h].pc = "approve_send"]
        /\ UNCHANGED <<holds, connected, task, run, alerted, faults, erased, undone,
                       failed>>

(* The UPDATE of Approve.                                                     *)
ApproveWrite(h) ==
    LET r == handler[h].req
    IN  /\ handler[h].pc = "approve_write"
        /\ rr' = [rr EXCEPT ![r].approved = TRUE, ![r].status = "in_progress"]
        /\ authorised' = [authorised EXCEPT ![r] = @ \cup rr[r].plan]
        /\ handler' = [handler EXCEPT ![h].pc = "approve_send"]
        /\ UNCHANGED <<holds, connected, task, run, alerted, faults, erased, undone,
                       failed>>

(* WorkerService.publish: LPUSH of a message with a fresh task id.            *)
Publish(kind, r) ==
    \E t \in Tasks :
        /\ task[t].state = "unsent"
        /\ task' = [task EXCEPT ![t] = [state |-> "queued", kind |-> kind, req |-> r]]

(* The dispatch at the end of Verify and of Approve.                          *)
HandlerSend(h) ==
    /\ \/ handler[h].pc = "verify_send" /\ Publish("search", handler[h].req)
       \/ handler[h].pc = "approve_send" /\ Publish("erasure", handler[h].req)
    /\ handler' = [handler EXCEPT ![h] = IdleHandler]
    /\ UNCHANGED <<rr, holds, connected, run, alerted, faults, history>>

(* RightsService.SearchPrincipal: allowed in every state of the request.      *)
SearchPrincipal(r) ==
    /\ Exists(r)
    /\ Publish("search", r)
    /\ UNCHANGED <<rr, holds, connected, handler, run, alerted, faults, history>>

Fault(kind) ==
    /\ kind \in FaultKinds
    /\ faults < MaxFaults
    /\ faults' = faults + 1

(* A handler stops between two statements: a failed UPDATE or LPUSH, a        *)
(* cancelled request context, a restart of the server. What is committed      *)
(* stays, the rest is not done.                                               *)
HandlerFail(h) ==
    /\ handler[h].pc # "idle"
    /\ Fault("handler")
    /\ handler' = [handler EXCEPT ![h] = IdleHandler]
    /\ UNCHANGED <<rr, holds, connected, task, run, alerted, history>>

----------------------------------------------------------------------------
(* Tenant: asset status is changed by scans and connection tests *)

AssetStatus(s) ==
    /\ connected' = IF s \in connected THEN connected \ {s} ELSE connected \cup {s}
    /\ UNCHANGED <<rr, holds, handler, task, run, alerted, faults, history>>

----------------------------------------------------------------------------
(* Worker: search_data_principal *)

Req(w) == task[run[w].task].req

Take(w, t, kind) ==
    /\ run[w].pc = "idle"
    /\ task[t].state = "queued"
    /\ task[t].kind = kind
    /\ task' = [task EXCEPT ![t].state = "unacked"]

(* The task function has returned or raised: its locals are gone.             *)
Leave(w) == run' = [run EXCEPT ![w] = [IdleRun EXCEPT !.pc = "ack", !.task = run[w].task]]

(* The task starts with the query for connected assets.                       *)
SearchStart(w, t) ==
    /\ Take(w, t, "search")
    /\ run' = [run EXCEPT ![w] = [IdleRun EXCEPT !.pc = "search", !.task = t,
                                          !.todo = connected]]
    /\ UNCHANGED <<rr, holds, connected, handler, alerted, faults, history>>

(* One source: records are found, or there are none, or the connector raises  *)
(* and the error is only noted.                                               *)
SearchSource(w, s) ==
    /\ run[w].pc = "search"
    /\ s \in run[w].todo
    /\ \E hit \in BOOLEAN :
          /\ hit => s \in holds[Req(w)]
          /\ run' = [run EXCEPT ![w].todo = @ \ {s},
                                ![w].found = IF hit THEN @ \cup {s} ELSE @]
    /\ UNCHANGED <<rr, holds, connected, handler, task, alerted, faults, history>>

(* SELECT of the row, after all assets were searched.                         *)
SearchLoad(w) ==
    /\ run[w].pc = "search"
    /\ run[w].todo = {}
    /\ run' = [run EXCEPT ![w].pc = "search_commit", ![w].seen = rr[Req(w)].status]
    /\ UNCHANGED <<rr, holds, connected, handler, task, alerted, faults, history>>

(* Mutant of SearchCommit: nothing is stored for a request closed meanwhile.  *)
SearchCommitOpenOnly(w) ==
    LET r == Req(w)
        seen == run[w].seen
        next == IF rr[r].type = "erasure" THEN "pending_approval"
                ELSE IF seen = "received" THEN "in_progress" ELSE seen
    IN  /\ run[w].pc = "search_commit"
        /\ rr' = IF seen \in Closed THEN rr
                 ELSE [rr EXCEPT ![r].discovered = TRUE,
                                 ![r].plan = IF rr[r].type = "erasure" THEN run[w].found
                                             ELSE @,
                                 ![r].status = IF next # seen THEN next ELSE @]
        /\ Leave(w)
        /\ UNCHANGED <<holds, connected, handler, task, alerted, faults, history>>

(* Flush and commit: SQLAlchemy writes the columns whose value differs from   *)
(* the one loaded, so the status is written only when it does.                *)
SearchCommit(w) ==
    LET r == Req(w)
        seen == run[w].seen
        next == IF rr[r].type = "erasure" THEN "pending_approval"
                ELSE IF seen = "received" THEN "in_progress" ELSE seen
    IN  /\ run[w].pc = "search_commit"
        /\ rr' = [rr EXCEPT ![r].discovered = TRUE,
                            ![r].plan = IF rr[r].type = "erasure" THEN run[w].found ELSE @,
                            ![r].status = IF next # seen THEN next ELSE @]
        /\ Leave(w)
        /\ UNCHANGED <<holds, connected, handler, task, alerted, faults, history>>

----------------------------------------------------------------------------
(* Worker: execute_erasure *)

(* Mutant of EraseStart: the task insists on the status before the approval.  *)
EraseStartPendingOnly(w, t) ==
    LET row == rr[task[t].req]
    IN  /\ Take(w, t, "erasure")
        /\ run' = [run EXCEPT ![w] =
              IF row.approved /\ row.status = "pending_approval"
              THEN [IdleRun EXCEPT !.pc = "erase", !.task = t, !.todo = row.plan,
                                   !.assets = connected, !.seen = row.status]
              ELSE [IdleRun EXCEPT !.pc = "ack", !.task = t]]
        /\ UNCHANGED <<rr, holds, connected, handler, alerted, faults, history>>

(* SELECT of the row and of the connected assets. Without an approval, or for *)
(* another type of request, the task returns at once.                         *)
EraseStart(w, t) ==
    LET row == rr[task[t].req]
    IN  /\ Take(w, t, "erasure")
        /\ run' = [run EXCEPT ![w] =
              IF row.type = "erasure" /\ row.approved
              THEN [IdleRun EXCEPT !.pc = "erase", !.task = t, !.todo = row.plan,
                                      !.assets = connected, !.seen = row.status]
              ELSE [IdleRun EXCEPT !.pc = "ack", !.task = t]]
        /\ UNCHANGED <<rr, holds, connected, handler, alerted, faults, history>>

Record(w, s, outcome) ==
    run' = [run EXCEPT ![w].todo = @ \ {s}, ![w].outcome = [@ EXCEPT ![s] = outcome]]

(* A location left to manual handling: its asset was not connected, or its    *)
(* type cannot be erased.                                                     *)
LeaveToOperator(w, s) ==
    /\ run[w].pc = "erase"
    /\ s \in run[w].todo
    /\ s \notin run[w].assets \/ s \notin Erasable
    /\ Record(w, s, "manual_required")
    /\ UNCHANGED <<rr, holds, connected, handler, task, alerted, faults, history>>

(* Mutant of EraseSource: the location's erasable flag is not looked at.      *)
EraseSourceAnyType(w, s) ==
    LET r == Req(w)
    IN  /\ run[w].pc = "erase"
        /\ s \in run[w].todo \cap run[w].assets
        /\ Record(w, s, IF s \in holds[r] THEN "erased" ELSE "erased_nothing")
        /\ holds' = [holds EXCEPT ![r] = @ \ {s}]
        /\ erased' = [erased EXCEPT ![r] = @ \cup ({s} \cap holds[r])]
        /\ UNCHANGED <<rr, connected, handler, task, alerted, faults, authorised, undone,
                       failed>>

(* connector.erase_records: the deletion is committed in the tenant's store.  *)
(* It ends at max_deletes rows, so some may be left; the outcome is the same. *)
EraseSource(w, s) ==
    LET r == Req(w)
    IN  /\ run[w].pc = "erase"
        /\ s \in run[w].todo
        /\ s \in run[w].assets \cap Erasable
        /\ Record(w, s, IF s \in holds[r] THEN "erased" ELSE "erased_nothing")
        /\ \E gone \in SUBSET {s} : holds' = [holds EXCEPT ![r] = @ \ gone]
        /\ erased' = [erased EXCEPT ![r] = @ \cup ({s} \cap holds[r])]
        /\ UNCHANGED <<rr, connected, handler, task, alerted, faults, authorised, undone,
                       failed>>

(* Mutant of EraseError: the handler of the exception falls through.          *)
EraseErrorAsErased(w, s) ==
    /\ run[w].pc = "erase"
    /\ s \in run[w].todo
    /\ s \in run[w].assets \cap Erasable
    /\ Record(w, s, "erased")
    /\ UNCHANGED <<rr, holds, connected, handler, task, alerted, faults, history>>

(* The connector raises: the location is recorded as an error, nothing goes.  *)
EraseError(w, s) ==
    /\ run[w].pc = "erase"
    /\ s \in run[w].todo
    /\ s \in run[w].assets \cap Erasable
    /\ Record(w, s, "error")
    /\ UNCHANGED <<rr, holds, connected, handler, task, alerted, faults, history>>

(* The last transaction: result, status and alert row together. When the      *)
(* CHECK of table alerts rejects the alert, all of it is rolled back and the  *)
(* task fails. Either way the message is acknowledged next.                   *)
EraseCommit(w) ==
    LET r == Req(w)
    IN  /\ run[w].pc = "erase"
        /\ run[w].todo = {}
        /\ IF CompletionAlert \in AlertTypes
           THEN /\ rr' = [rr EXCEPT ![r].fulfilled = TRUE,
                                    ![r].result = run[w].outcome,
                                    ![r].status = IF run[w].seen # "completed"
                                                  THEN "completed" ELSE @]
                /\ alerted' = alerted \cup {r}
                /\ UNCHANGED failed
           ELSE /\ failed' = failed \cup {run[w].task}
                /\ UNCHANGED <<rr, alerted>>
        /\ Leave(w)
        /\ UNCHANGED <<holds, connected, handler, task, faults, erased, authorised, undone>>

----------------------------------------------------------------------------
(* Celery: acknowledgement, failures, redelivery *)

(* acks_late: the message leaves the broker after the task has returned or    *)
(* failed. If the broker has taken it back meanwhile it stays queued.         *)
Ack(w) ==
    LET t == run[w].task
    IN  /\ run[w].pc = "ack"
        /\ run' = [run EXCEPT ![w] = IdleRun]
        /\ task' = [task EXCEPT ![t].state = IF @ = "unacked" THEN "acked" ELSE @]
        /\ UNCHANGED <<rr, holds, connected, handler, alerted, faults, history>>

(* An exception outside the per-source handlers, or the hard time limit: the  *)
(* transaction is rolled back and the failed task is acknowledged.            *)
TaskError(w) ==
    /\ run[w].pc \notin {"idle", "ack"}
    /\ Fault("error")
    /\ Leave(w)
    /\ failed' = failed \cup {run[w].task}
    /\ UNCHANGED <<rr, holds, connected, handler, task, alerted, erased, authorised,
                   undone>>

(* Mutant of WorkerCrash: the message was acknowledged when it was taken.     *)
WorkerCrashEarlyAck(w) ==
    LET t == run[w].task
    IN  /\ run[w].pc # "idle"
        /\ Fault("crash")
        /\ run' = [run EXCEPT ![w] = IdleRun]
        /\ task' = [task EXCEPT ![t].state = IF @ = "unacked" THEN "acked" ELSE @]
        /\ UNCHANGED <<rr, holds, connected, handler, alerted, history>>

(* The worker process is lost: the message is queued again.                   *)
WorkerCrash(w) ==
    LET t == run[w].task
    IN  /\ run[w].pc # "idle"
        /\ Fault("crash")
        /\ run' = [run EXCEPT ![w] = IdleRun]
        /\ task' = [task EXCEPT ![t].state = IF @ = "unacked" THEN "queued" ELSE @]
        /\ UNCHANGED <<rr, holds, connected, handler, alerted, history>>

(* The broker's visibility timeout (1 h) passes before the task (hard limit   *)
(* 65 min) has ended: the message is delivered again while the run goes on.   *)
Redeliver(t) ==
    /\ task[t].state = "unacked"
    /\ Fault("redeliver")
    /\ task' = [task EXCEPT ![t].state = "queued"]
    /\ UNCHANGED <<rr, holds, connected, handler, run, alerted, history>>

----------------------------------------------------------------------------
WorkerStep(w) ==
    \/ \E t \in Tasks : SearchStart(w, t) \/ EraseStart(w, t)
    \/ \E s \in Sources : \/ SearchSource(w, s)
                          \/ LeaveToOperator(w, s)
                          \/ EraseSource(w, s)
                          \/ EraseError(w, s)
    \/ SearchLoad(w)
    \/ SearchCommit(w)
    \/ EraseCommit(w)
    \/ Ack(w)

HandlerStep(h) ==
    \/ \E r \in Requests : VerifyRead(h, r) \/ ApproveRead(h, r) \/ UpdateRead(h, r)
    \/ VerifyWrite(h)
    \/ ApproveWrite(h)
    \/ UpdateWrite(h)
    \/ HandlerSend(h)

Failure ==
    \/ \E h \in Handlers : HandlerFail(h)
    \/ \E w \in Workers : TaskError(w) \/ WorkerCrash(w)
    \/ \E t \in Tasks : Redeliver(t)

Next ==
    \/ \E r \in Requests :
          \/ \E type \in RequestTypes : Create(r, type)
          \/ \E status \in OperatorStatuses : Update(r, status)
          \/ SearchPrincipal(r)
    \/ \E h \in Handlers : HandlerStep(h)
    \/ \E s \in Sources : AssetStatus(s)
    \/ \E w \in Workers : WorkerStep(w)
    \/ Failure

Spec == Init /\ [][Next]_vars

(* Workers poll the queue and run to the end of a task; the server runs a     *)
(* handler to its end. Nothing forces operators to act.                       *)
Fairness ==
    /\ \A w \in Workers : WF_vars(WorkerStep(w))
    /\ \A h \in Handlers : WF_vars(\/ VerifyWrite(h) \/ ApproveWrite(h)
                                 \/ UpdateWrite(h) \/ HandlerSend(h))

FairSpec == Spec /\ Fairness

----------------------------------------------------------------------------
(* Properties *)

(* A mark was set: the row carries it, or an older copy of the row took it     *)
(* back.                                                                      *)
Passed(r, m) == rr[r][m] \/ m \in undone[r]

(* Approve's safety gate (rights_service.go:222-224): when records of a data  *)
(* principal were removed, the request is an erasure that was verified,       *)
(* discovered and approved, and only sources of erasable type were touched,   *)
(* in whatever order handlers, redelivered tasks and crashes interleave. That *)
(* an Update with an empty body may take the marks back while a worker erases *)
(* is the one thing it allows for.                                            *)
ErasureGated ==
    \A r \in Requests : erased[r] # {} =>
        /\ rr[r].type = "erasure"
        /\ Passed(r, "verified") /\ Passed(r, "discovered") /\ Passed(r, "approved")
        /\ erased[r] \subseteq Erasable

(* Approve commits approved_at before it dispatches, so a worker that takes   *)
(* an erasure task meets the refusal of rights.py:234, which acknowledges and *)
(* loses the task, only if an empty Update took approved_at back in between.  *)
ErasureTaskApproved ==
    \A t \in Tasks : task[t].state # "unsent" /\ task[t].kind = "erasure" =>
        Passed(task[t].req, "approved") /\ rr[task[t].req].type = "erasure"

(* The stored fulfillment_result is true, whichever run wrote it last and     *)
(* whatever copy of the row was written back: a source reported without       *)
(* deleted rows holds no record of the principal, and one reported with       *)
(* deleted rows lost records to the workflow. It does not say that none are   *)
(* left there: the connectors delete max_deletes rows at most.                *)
ReportTruthful ==
    \A r \in Requests : rr[r].fulfilled => \A s \in Sources :
        /\ rr[r].result[s] = "erased_nothing" => s \notin holds[r]
        /\ rr[r].result[s] = "erased" => s \in erased[r]

(* The result of task t is in the row, or was; or t was refused because its   *)
(* approval was taken back.                                                   *)
Served(t) ==
    IF task[t].kind = "search" THEN Passed(task[t].req, "discovered")
    ELSE Passed(task[t].req, "fulfilled") \/ "approved" \in undone[task[t].req]

(* No message of an erasure of r is with the broker or a worker.              *)
ErasureOf(r) == {t \in Tasks : task[t].kind = "erasure" /\ task[t].req = r}
Settled(r) ==
    \A t \in ErasureOf(r) :
        /\ task[t].state \notin {"queued", "unacked"}
        /\ \A w \in Workers : run[w].pc # "idle" => run[w].task # t

(* Once no erasure of the request is queued or running, records that were     *)
(* removed have a stored fulfillment_result, in spite of lost workers and     *)
(* double deliveries. Two things, and no other, lose the report: a run that   *)
(* raised (the refused alert of EraseCommit is one), because a failed task is *)
(* acknowledged and never retried, and an empty Update that took the approval *)
(* or the result back.                                                        *)
DeletionsRecorded ==
    \A r \in Requests : Settled(r) /\ erased[r] # {} /\ ErasureOf(r) \cap failed = {} =>
        Passed(r, "fulfilled") \/ "approved" \in undone[r]

(* execute_erasure "records a full per-source audit trail" (rights.py:221),   *)
(* without exceptions.                                                        *)
AuditTrail == \A r \in Requests : Settled(r) /\ erased[r] # {} => rr[r].fulfilled

(* A message leaves the broker only with its effect in the row: a search that  *)
(* was acknowledged has stored its discovery, an erasure its result, also     *)
(* when two workers run one message, a worker is lost between commit and      *)
(* acknowledgement, or the broker has taken the message back meanwhile        *)
(* (acks_late and reject_on_worker_lost, celery_app.py). The exceptions are   *)
(* those of DeletionsRecorded.                                                *)
AckedServed ==
    \A t \in Tasks : task[t].state = "acked" => Served(t) \/ t \in failed

(* The plan is handed to a human approval gate and "destructive deletion      *)
(* never runs automatically" (rights.py:79): records are only removed from    *)
(* sources that were in a plan when it was approved.                          *)
OnlyAuthorisedErased == \A r \in Requests : erased[r] \subseteq authorised[r]

(* "Update applies status transitions and note updates" (rights_service.go:   *)
(* 115): no step takes back that a request was verified, discovered, approved *)
(* or fulfilled.                                                              *)
MarksKept == [][\A r \in Requests, m \in Marks : rr[r][m] => rr'[r][m]]_vars

(* At-least-once delivery of searches: although workers crash and messages    *)
(* are redelivered, a dispatched search ends with discovery_completed_at set, *)
(* unless a run of it raised.                                                 *)
SearchServed ==
    \A t \in Tasks, r \in Requests :
        (task[t].state = "queued" /\ task[t].kind = "search" /\ task[t].req = r)
            ~> (rr[r].discovered \/ t \in failed)

(* The same for erasures: a dispatched erasure ends with its result stored,   *)
(* unless a run of it raised or its approval was taken back.                  *)
ErasureServed ==
    \A t \in Tasks, r \in Requests :
        (task[t].state = "queued" /\ task[t].kind = "erasure" /\ task[t].req = r)
            ~> (rr[r].fulfilled \/ t \in failed \/ "approved" \in undone[r])

(* The workflow implements the gate of module ErasureGate: every step of a    *)
(* handler or a worker, faults included, passes a gate, removes records       *)
(* behind all gates, or leaves gates and records alone. A gate that a request *)
(* passed counts as passed although its column may be taken back.             *)
Gate == INSTANCE ErasureGate WITH
    verified <- {r \in Requests : Passed(r, "verified")},
    discovered <- {r \in Requests : Passed(r, "discovered")},
    approved <- {r \in Requests : Passed(r, "approved")},
    gone <- erased
ImplementsGate == Gate!GateSpec
=============================================================================
