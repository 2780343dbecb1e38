------------------------------ MODULE PrintTasks ------------------------------
(***************************************************************************)
(* Remote printing of kdzs orders: KdzsPrintAgentService of                *)
(* internal/service/kdzs_print_agent_service.go with the jobs AgentsCenter *)
(* keeps for the print machine.                                            *)
(*                                                                         *)
(* CreateTask either merges an order into a task that still waits, or      *)
(* creates an AgentsCenter job and a task row for it.  The task table is   *)
(* only a copy: a poll every 12 seconds, and every listing of the tasks,   *)
(* reads rows, then asks AgentsCenter for their jobs, then writes the rows *)
(* one by one, and ships an order whose print job answered with a waybill. *)
(***************************************************************************)
EXTENDS Integers, FiniteSetsExt, Sequences

CONSTANTS
  Orders,     \* the orders users dispatch, each of them once
  ClassOf,    \* [Orders -> merge key on the order's machine]
  NoKey,      \* the class of payloads without platform or template
  Manual,     \* orders dispatched with autoConfirmShip false or no snapshot
  Reqs,       \* CreateTask handlers
  Pollers,    \* the poll goroutine (one per running process)
  Listers,    \* ListRecentTasks handlers
  PollLimit,  \* rows one poll reads (80 in the code)
  ListLimit,  \* rows one listing reads (20 in the code)
  Faults,     \* the faults a run admits
  Overlap     \* do handlers and polls interleave, or run one at a time?

AllFaults == {"acError", "lostReply", "dbError", "confirmError", "crash"}
NoMail == "no mail"

ASSUME PrintAssumption ==
  /\ IsFiniteSet(Orders) /\ Manual \subseteq Orders
  /\ NoMail \notin Orders
  /\ PollLimit \in Nat \ {0} /\ ListLimit \in Nat \ {0}
  /\ Faults \subseteq AllFaults
  /\ Overlap \in BOOLEAN

VARIABLES
  tasks,     \* table kdzs_print_tasks; a task's id is its place
  jobs,      \* AgentsCenter's jobs for the machine
  req,       \* what each CreateTask handler is doing
  sync,      \* what each poll or listing is doing
  accepted,  \* orders CreateTask answered without an error
  shipped    \* <<order, order whose waybill it was shipped with>>

vars == <<tasks, jobs, req, sync, accepted, shipped>>

Syncs == Pollers \cup Listers

TaskStatuses == {"pending", "claimed", "done", "failed", "cancelled"}
JobStatuses == {"pending", "running", "succeeded", "failed", "cancelled"}

\* The payload counts only by its orders; a job answers with the waybill of one
\* of the orders it printed, or with none.
Task == [status: TaskStatuses, orders: SUBSET Orders, job: Nat, confirmed: BOOLEAN]
Job == [status: JobStatuses, params: SUBSET Orders, mail: Orders \cup {NoMail}]

isPrintTaskTerminal(status) == status \in {"done", "failed", "cancelled"}

Quiet == (\A r \in Reqs : req[r].pc = "idle") /\ (\A y \in Syncs : sync[y].pc = "idle")
MayStart == Overlap \/ Quiet

IdleReq == [pc |-> "idle", orders |-> {}, new |-> {}, survivor |-> 0, absorb |-> {}]
IdleSync == [pc |-> "idle", rows |-> <<>>, seen |-> <<>>]

Init ==
  /\ tasks = <<>>
  /\ jobs = <<>>
  /\ req = [r \in Reqs |-> IdleReq]
  /\ sync = [y \in Syncs |-> IdleSync]
  /\ accepted = {}
  /\ shipped = {}

Return(r) == req' = [req EXCEPT ![r] = IdleReq]
Accept(r) == accepted' = accepted \cup req[r].new /\ Return(r)

-----------------------------------------------------------------------------
(* CreateTask.                                                             *)

Dispatched == UNION ({tasks[t].orders : t \in DOMAIN tasks} \cup {req[r].new : r \in Reqs}
                     \cup {jobs[j].params : j \in DOMAIN jobs})

\* The waiting tasks a new order may be merged into (printMergeKey).
Mergeable(o) ==
  {t \in DOMAIN tasks : /\ tasks[t].status = "pending"
                        /\ ClassOf[o] # NoKey
                        /\ \E p \in tasks[t].orders : ClassOf[p] = ClassOf[o]}

\* mergePrintPayload over the survivor, the absorbed tasks and the new order.
mergePrintPayload(o, absorb, survivor) ==
  (UNION {tasks[t].orders : t \in absorb \cup {survivor}}) \cup {o}

\* The merge is computed under row locks that end before AgentsCenter is called.
BeginCreateTask(r, o) ==
  /\ req[r].pc = "idle" /\ MayStart
  /\ o \notin Dispatched
  /\ LET same == Mergeable(o)
         survivor == Min(same)
         absorb == same \ {survivor} IN
     req' = [req EXCEPT ![r] =
       IF same = {} THEN [IdleReq EXCEPT !.pc = "create", !.orders = {o}, !.new = {o}]
       ELSE [pc |-> "update", new |-> {o}, survivor |-> survivor, absorb |-> absorb,
             orders |-> mergePrintPayload(o, absorb, survivor)]]
  /\ UNCHANGED <<tasks, jobs, sync, accepted, shipped>>

\* Seeded bug: a job that was already claimed is taken for merged.
UpdateIgnoresRefusal(r) ==
  LET j == tasks[req[r].survivor].job IN
  /\ req[r].pc = "update"
  /\ jobs' = IF jobs[j].status = "pending" THEN [jobs EXCEPT ![j].params = req[r].orders] ELSE jobs
  /\ req' = [req EXCEPT ![r].pc = "write"]
  /\ UNCHANGED <<tasks, sync, accepted, shipped>>

\* AgentsCenter takes new parameters for a job nobody claimed; else, or on an
\* error, the order gets a job of its own.
UpdatePendingJobParams(r) ==
  LET j == tasks[req[r].survivor].job
      create == [req EXCEPT ![r] = [IdleReq EXCEPT !.pc = "create", !.orders = req[r].new,
                                                   !.new = req[r].new]] IN
  /\ req[r].pc = "update"
  /\ \/ /\ jobs[j].status = "pending"
        /\ jobs' = [jobs EXCEPT ![j].params = req[r].orders]
        /\ \/ req' = [req EXCEPT ![r].pc = "write"]
           \/ "lostReply" \in Faults /\ req' = create
     \/ /\ jobs[j].status # "pending" \/ "acError" \in Faults
        /\ req' = create
        /\ UNCHANGED jobs
  /\ UNCHANGED <<tasks, sync, accepted, shipped>>

\* A survivor that is no longer pending here is left alone, and then so are the
\* tasks it absorbed.
WriteMerged(r) ==
  LET s == req[r].survivor IN
  /\ req[r].pc = "write"
  /\ \/ /\ tasks' = IF tasks[s].status # "pending" THEN tasks
                    ELSE [t \in DOMAIN tasks |->
                      IF t = s THEN [tasks[t] EXCEPT !.orders = req[r].orders]
                      ELSE IF t \in req[r].absorb /\ tasks[t].status = "pending"
                           THEN [tasks[t] EXCEPT !.status = "cancelled"] ELSE tasks[t]]
        /\ req' = [req EXCEPT ![r].pc = "cancel"]
     \/ "dbError" \in Faults /\ Return(r) /\ UNCHANGED tasks
  /\ UNCHANGED <<jobs, sync, accepted, shipped>>

\* Cancels the absorbed jobs one after the other; a refusal is only logged.
CancelPendingJob(r) ==
  /\ req[r].pc = "cancel"
  /\ IF req[r].absorb = {} THEN Accept(r) /\ UNCHANGED jobs
     ELSE LET t == Min(req[r].absorb)
              j == tasks[t].job IN
          /\ \/ jobs[j].status = "pending" /\ jobs' = [jobs EXCEPT ![j].status = "cancelled"]
             \/ (jobs[j].status # "pending" \/ "acError" \in Faults) /\ UNCHANGED jobs
          /\ req' = [req EXCEPT ![r].absorb = @ \ {t}]
          /\ UNCHANGED accepted
  /\ UNCHANGED <<tasks, sync, shipped>>

CreateTargetedJob(r) ==
  /\ req[r].pc = "create"
  /\ \/ /\ jobs' = Append(jobs, [status |-> "pending", params |-> req[r].orders, mail |-> NoMail])
        /\ \/ req' = [req EXCEPT ![r].pc = "save", ![r].survivor = Len(jobs) + 1]
           \/ "lostReply" \in Faults /\ Return(r)
     \/ "acError" \in Faults /\ Return(r) /\ UNCHANGED jobs
  /\ UNCHANGED <<tasks, sync, accepted, shipped>>

\* The survivor field holds the id of the job just created.
SaveTask(r) ==
  /\ req[r].pc = "save"
  /\ \/ /\ tasks' = Append(tasks, [status |-> "pending", orders |-> req[r].orders,
                                   job |-> req[r].survivor, confirmed |-> FALSE])
        /\ Accept(r)
     \/ "dbError" \in Faults /\ Return(r) /\ UNCHANGED <<tasks, accepted>>
  /\ UNCHANGED <<jobs, sync, shipped>>

-----------------------------------------------------------------------------
(* The print machine, as AgentsCenter shows it.                            *)

AgentClaims(j) ==
  /\ jobs[j].status = "pending"
  /\ jobs' = [jobs EXCEPT ![j].status = "running"]
  /\ UNCHANGED <<tasks, req, sync, accepted, shipped>>

AgentFinishes(j) ==
  /\ jobs[j].status = "running"
  /\ \/ \E m \in jobs[j].params \cup {NoMail} :
          jobs' = [jobs EXCEPT ![j].status = "succeeded", ![j].mail = m]
     \/ jobs' = [jobs EXCEPT ![j].status = "failed"]
  /\ UNCHANGED <<tasks, req, sync, accepted, shipped>>

-----------------------------------------------------------------------------
(* pollOpenTasks and ListRecentTasks: syncTasksFromAgents.                 *)

Newest(n, S) == {t \in S : Cardinality({u \in S : u > t}) < n}

\* Seeded bug: rows whose state is final are compared with their job as well.
NeedAll(t) == TRUE

\* The rows a sync cares about: open, or done and not yet confirmed.
Open(t) ==
  ~isPrintTaskTerminal(tasks[t].status) \/ (tasks[t].status = "done" /\ ~tasks[t].confirmed)

SyncRead(y) ==
  LET read == IF y \in Pollers THEN Newest(PollLimit, {t \in DOMAIN tasks : Open(t)})
              ELSE Newest(ListLimit, DOMAIN tasks)
      need == {t \in read : Open(t)} IN
  /\ sync[y].pc = "idle" /\ MayStart
  /\ need # {}
  /\ sync' = [sync EXCEPT ![y] = [pc |-> "jobs", rows |-> [t \in need |-> tasks[t]], seen |-> <<>>]]
  /\ UNCHANGED <<tasks, jobs, req, accepted, shipped>>

GetJobs(y) ==
  /\ sync[y].pc = "jobs"
  /\ \/ sync' = [sync EXCEPT ![y].pc = "rows",
                             ![y].seen = [t \in DOMAIN sync[y].rows |-> jobs[sync[y].rows[t].job]]]
     \/ "acError" \in Faults /\ sync' = [sync EXCEPT ![y] = IdleSync]
  /\ UNCHANGED <<tasks, jobs, req, accepted, shipped>>

mapAgentsJobStatus(status) ==
  CASE status = "pending" -> "pending"
    [] status = "running" -> "claimed"
    [] status = "succeeded" -> "done"
    [] status \in {"failed", "cancelled"} -> "failed"

\* The row in work and the sync with it taken off the list.
Current(y) == Max(DOMAIN sync[y].rows)
Rest(y) ==
  LET left == DOMAIN sync[y].rows \ {Current(y)} IN
  IF left = {} THEN IdleSync
  ELSE [pc |-> "rows", rows |-> [t \in left |-> sync[y].rows[t]],
        seen |-> [t \in left |-> sync[y].seen[t]]]

\* Seeded bug: a batch is confirmed with the one waybill its job reported.
ConfirmsBatches(row, mail) == mail # NoMail /\ row.orders \ Manual # {}

\* maybeAutoConfirmShip's conditions: one order, a waybill, not switched off.
AutoConfirms(row, mail) ==
  /\ mail # NoMail
  /\ Cardinality(row.orders) = 1
  /\ row.orders \cap Manual = {}

\* Seeded bug: failed and cancelled jobs leave their rows as they are.
SyncRowSkipsFailures(y) ==
  LET t == Current(y)
      st == mapAgentsJobStatus(sync[y].seen[t].status) IN
  /\ sync[y].pc = "rows"
  /\ tasks' = IF st = "failed" THEN tasks ELSE [tasks EXCEPT ![t].status = st]
  /\ sync' = [sync EXCEPT ![y] = Rest(y)]
  /\ UNCHANGED <<jobs, req, accepted, shipped>>

\* Seeded bug: an order is only confirmed by the sync that first sees the job done.
SyncRowConfirmsOnce(y) ==
  LET t == Current(y)
      row == sync[y].rows[t]
      st == mapAgentsJobStatus(sync[y].seen[t].status) IN
  /\ sync[y].pc = "rows"
  /\ tasks' = IF st # row.status THEN [tasks EXCEPT ![t].status = st] ELSE tasks
  /\ IF st = "done" /\ row.status # "done" /\ AutoConfirms(row, sync[y].seen[t].mail)
       THEN sync' = [sync EXCEPT ![y].pc = "confirm"]
       ELSE sync' = [sync EXCEPT ![y] = Rest(y)]
  /\ UNCHANGED <<jobs, req, accepted, shipped>>

\* A status that differs from the row as it was read is written, whatever the
\* row holds by now.
SyncRow(y) ==
  LET t == Current(y)
      row == sync[y].rows[t]
      st == mapAgentsJobStatus(sync[y].seen[t].status) IN
  /\ sync[y].pc = "rows"
  /\ tasks' = IF st # row.status THEN [tasks EXCEPT ![t].status = st] ELSE tasks
  /\ IF st = "done" /\ ~row.confirmed /\ AutoConfirms(row, sync[y].seen[t].mail)
       THEN sync' = [sync EXCEPT ![y].pc = "confirm"]
       ELSE sync' = [sync EXCEPT ![y] = Rest(y)]
  /\ UNCHANGED <<jobs, req, accepted, shipped>>

\* ConfirmKdzsShip of the order with the waybill the job reported.  An error
\* that says the order is shipped already counts as success.
ConfirmShip(y) ==
  /\ sync[y].pc = "confirm"
  /\ LET t == Current(y) IN
     shipped' = shipped \cup {<<o, sync[y].seen[t].mail>> : o \in sync[y].rows[t].orders}
  /\ sync' = [sync EXCEPT ![y].pc = "mark"]
  /\ UNCHANGED <<tasks, jobs, req, accepted>>

ConfirmFails(y) ==
  /\ "confirmError" \in Faults
  /\ sync[y].pc = "confirm"
  /\ sync' = [sync EXCEPT ![y] = Rest(y)]
  /\ UNCHANGED <<tasks, jobs, req, accepted, shipped>>

MarkConfirmed(y) ==
  /\ sync[y].pc = "mark"
  /\ \/ tasks' = [tasks EXCEPT ![Current(y)].confirmed = TRUE]
     \/ "dbError" \in Faults /\ UNCHANGED tasks
  /\ sync' = [sync EXCEPT ![y] = Rest(y)]
  /\ UNCHANGED <<jobs, req, accepted, shipped>>

\* The process stops; the table and AgentsCenter stay.
Crash ==
  /\ "crash" \in Faults /\ ~Quiet
  /\ req' = [r \in Reqs |-> IdleReq]
  /\ sync' = [y \in Syncs |-> IdleSync]
  /\ UNCHANGED <<tasks, jobs, accepted, shipped>>

-----------------------------------------------------------------------------
SyncStep(y) ==
  SyncRead(y) \/ GetJobs(y) \/ SyncRow(y) \/ ConfirmShip(y) \/ ConfirmFails(y) \/ MarkConfirmed(y)

ReqStep(r) ==
  \/ UpdatePendingJobParams(r) \/ WriteMerged(r) \/ CancelPendingJob(r)
  \/ CreateTargetedJob(r) \/ SaveTask(r)

Next ==
  \/ \E r \in Reqs : ReqStep(r) \/ \E o \in Orders : BeginCreateTask(r, o)
  \/ \E j \in DOMAIN jobs : AgentClaims(j) \/ AgentFinishes(j)
  \/ \E y \in Syncs : SyncStep(y)
  \/ Crash

Spec == Init /\ [][Next]_vars

\* The poll's ticker fires and its steps are taken; OrderCore answers one of the
\* confirmations that are repeated every 12 seconds.
FairSpec ==
  /\ Spec
  /\ \A y \in Pollers : WF_vars(SyncRead(y) \/ GetJobs(y) \/ SyncRow(y) \/ MarkConfirmed(y)
                                \/ ConfirmShip(y) \/ ConfirmFails(y))
  /\ \A y \in Pollers : SF_vars(ConfirmShip(y))

-----------------------------------------------------------------------------
(* Properties.                                                             *)

\* Every variable keeps its type, and every task has a job.
TypeOK ==
  /\ \A t \in DOMAIN tasks : tasks[t] \in Task /\ tasks[t].job \in DOMAIN jobs
  /\ \A j \in DOMAIN jobs : jobs[j] \in Job
  /\ \A r \in Reqs :
       /\ req[r].pc \in {"idle", "update", "write", "cancel", "create", "save"}
       /\ req[r].pc \in {"update", "write", "cancel"} =>
            {req[r].survivor} \cup req[r].absorb \subseteq DOMAIN tasks
  /\ \A y \in Syncs : DOMAIN sync[y].rows \subseteq DOMAIN tasks
  /\ accepted \subseteq Orders
  /\ shipped \subseteq Orders \X Orders

\* What tryMergePendingPrintTask promises of several dispatches: each order that
\* was accepted is in a job that prints, its own or the batch it was merged into.
NoOrderLost ==
  \A o \in accepted : \E j \in DOMAIN jobs : jobs[j].status # "cancelled" /\ o \in jobs[j].params

\* The absorbed tasks are cancelled so that no order is printed by two jobs.
PrintedOnce ==
  \A j, k \in DOMAIN jobs :
    (j # k /\ {jobs[j].status, jobs[k].status} \cap {"pending", "cancelled"} = {})
      => jobs[j].params \cap jobs[k].params = {}

\* An order is only ever shipped with its own waybill: a batch, whose job
\* reports one waybill for several orders, is not confirmed automatically.
OwnWaybill == \A p \in shipped : p[1] = p[2]

\* A task that reached its end stays there.
TerminalStays ==
  [][\A t \in DOMAIN tasks : isPrintTaskTerminal(tasks[t].status) =>
       tasks'[t].status = tasks[t].status]_vars

JobOver(t) ==
  t \in DOMAIN tasks /\ jobs[tasks[t].job].status \in {"succeeded", "failed", "cancelled"}

\* A task whose job is over ends for good, without anybody listing the tasks:
\* stale listings may write an older status, but the poll has the last word.
Settles ==
  \A t \in 1 .. Cardinality(Orders) :
    JobOver(t) ~> [](t \in DOMAIN tasks /\ isPrintTaskTerminal(tasks[t].status))

\* A task of one order whose job reported a waybill is confirmed in the end,
\* however often ConfirmKdzsShip fails, unless a late merge made it a batch.
AutoConfirmed ==
  \A t \in 1 .. Cardinality(Orders) :
    (JobOver(t) /\ AutoConfirms(tasks[t], jobs[tasks[t].job].mail)) ~>
       (JobOver(t) /\ (tasks[t].confirmed \/ ~AutoConfirms(tasks[t], jobs[tasks[t].job].mail)))
=============================================================================
