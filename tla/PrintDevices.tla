----------------------------- MODULE PrintDevices -----------------------------
(***************************************************************************)
(* Print machines that register themselves, take their tasks and report    *)
(* them: RegisterMachine, AuthenticateDevice, ClaimNext and ReportTask of  *)
(* internal/service/kdzs_print_agent_service.go, the routes AgentsCenter's *)
(* jobs replaced and the server still answers.                             *)
(*                                                                         *)
(* A key stands for the pair of device key and secret, and a lock for the  *)
(* row lock of PostgreSQL: who waits for one looks at the row again when   *)
(* it is free, and at no other row.  The token a registration needs is in  *)
(* KdzsAccounts.                                                           *)
(***************************************************************************)
EXTENDS Integers, FiniteSets

CONSTANTS
  Machines,
  Doers,   \* requests running at the same time
  Jobs,    \* ids of tasks
  MaxKeys, \* bound on the registrations
  Modes    \* [apart, mixed] of a run, see below

ASSUME PrintDevicesAssumption ==
  /\ Jobs \subseteq Nat /\ MaxKeys \in Nat
  /\ Modes \subseteq [apart: BOOLEAN, mixed: BOOLEAN]
  /\ "free" \notin Doers /\ "none" \notin Machines

VARIABLES
  mode,   \* apart: a machine registers again only when its last try has ended;
          \* mixed: AgentsCenter has a machine of the same number
  device, \* [Machines -> key of its row]; 0: no row
  keys,   \* keys made
  holds,  \* the key each machine was answered; 0: none it can rely on
  task,   \* table kdzs_print_tasks
  doing,  \* what each request is doing
  claims,  \* [Jobs -> how often the task was given to a machine; 2: twice or more]
  result  \* [Jobs -> what the machine reports of it, as often as it must]

deviceVars == <<mode, device, keys, holds, task, doing, claims, result>>

NoTask == [status |-> "none", of |-> "none", lock |-> "free"]
Idle == [pc |-> "idle", of |-> "none", key |-> 0, new |-> FALSE, job |-> 0]
Unlocked(d) == [j \in Jobs |-> IF task[j].lock = d THEN [task[j] EXCEPT !.lock = "free"] ELSE task[j]]
Ends(d) == doing' = [doing EXCEPT ![d] = Idle]
Does(d, what) == doing' = [doing EXCEPT ![d] = what]

DeviceInit ==
  /\ mode \in Modes
  /\ device = [m \in Machines |-> 0]
  /\ keys = 0
  /\ holds = [m \in Machines |-> 0]
  /\ task = [j \in Jobs |-> NoTask]
  /\ doing = [d \in Doers |-> Idle]
  /\ claims = [j \in Jobs |-> 0]
  /\ result = [j \in Jobs |-> "none"]

\* An error or a stop of the process rolls a transaction back.  The machine
\* that got no answer to its registration cannot rely on its key.
DoingFails(d) ==
  /\ doing[d].pc # "idle"
  /\ Ends(d)
  /\ task' = Unlocked(d)
  /\ holds' = IF doing[d].pc = "answer" THEN [holds EXCEPT ![doing[d].of] = 0] ELSE holds
  /\ UNCHANGED <<mode, device, keys, claims, result>>

-----------------------------------------------------------------------------
(* RegisterMachine, with the tenant's token.                               *)

Registering(m) == \E d \in Doers : doing[d].pc \in {"register", "answer"} /\ doing[d].of = m

\* A new key is made; the row is read, inside the transaction but not locked.
BeginRegister(d, m) ==
  /\ doing[d].pc = "idle" /\ keys < MaxKeys
  /\ mode.apart => ~Registering(m)
  /\ keys' = keys + 1
  /\ Does(d, [pc |-> "register", of |-> m, key |-> keys + 1, new |-> device[m] = 0, job |-> 0])
  /\ UNCHANGED <<mode, device, holds, task, claims, result>>

\* Seeded bug: a machine that is known keeps the key it has.
WriteKeepsKey(d) ==
  LET m == doing[d].of IN
  /\ doing[d].pc = "register"
  /\ IF doing[d].new /\ device[m] # 0
     THEN Ends(d) /\ UNCHANGED device
     ELSE /\ device' = [device EXCEPT ![m] = IF doing[d].new THEN doing[d].key ELSE device[m]]
          /\ Does(d, [doing[d] EXCEPT !.pc = "answer"])
  /\ UNCHANGED <<mode, keys, holds, task, claims, result>>

\* The row is created, unless another registration did (the unique index), or
\* given the new key.
WriteDevice(d) ==
  LET m == doing[d].of IN
  /\ doing[d].pc = "register"
  /\ IF doing[d].new /\ device[m] # 0
     THEN Ends(d) /\ UNCHANGED device
     ELSE /\ device' = [device EXCEPT ![m] = doing[d].key]
          /\ Does(d, [doing[d] EXCEPT !.pc = "answer"])
  /\ UNCHANGED <<mode, keys, holds, task, claims, result>>

AnswerRegister(d) ==
  /\ doing[d].pc = "answer"
  /\ holds' = [holds EXCEPT ![doing[d].of] = doing[d].key]
  /\ Ends(d)
  /\ UNCHANGED <<mode, device, keys, task, claims, result>>

AuthenticateDevice(m) == holds[m] # 0 /\ holds[m] = device[m]

-----------------------------------------------------------------------------
(* Tasks.                                                                  *)

\* CreateTask stores a task for a device number.
StoreTask(j, m) ==
  /\ task[j].status = "none" /\ \A i \in Jobs : i < j => task[i].status # "none"
  /\ task' = [task EXCEPT ![j] = [NoTask EXCEPT !.status = "pending", !.of = m]]
  /\ UNCHANGED <<mode, device, keys, holds, doing, claims, result>>

\* AgentsCenter's job of the task still waits, and the poll writes so.
SyncWritesPending(j) ==
  /\ mode.mixed /\ task[j].status \in {"claimed", "done"} /\ task[j].lock = "free"
  /\ task' = [task EXCEPT ![j].status = "pending"]
  /\ UNCHANGED <<mode, device, keys, holds, doing, claims, result>>

Waits(m) == {j \in Jobs : task[j].of = m /\ task[j].status = "pending"}
FirstOf(S) == CHOOSE j \in S : \A i \in S : j <= i

\* Seeded bug: the task is read without a lock.
ClaimUnlocked(d, m) ==
  LET j == FirstOf(Waits(m)) IN
  /\ doing[d].pc = "idle" /\ AuthenticateDevice(m) /\ Waits(m) # {}
  /\ Does(d, [Idle EXCEPT !.of = m, !.job = j, !.pc = "claim"])
  /\ UNCHANGED <<mode, device, keys, holds, task, claims, result>>

\* ClaimNext: the first task that waits is locked, or its lock waited for.
BeginClaim(d, m) ==
  LET j == FirstOf(Waits(m)) IN
  /\ doing[d].pc = "idle" /\ AuthenticateDevice(m) /\ Waits(m) # {}
  /\ Does(d, [Idle EXCEPT !.of = m, !.job = j,
                          !.pc = IF task[j].lock = "free" THEN "claim" ELSE "queue"])
  /\ task' = IF task[j].lock = "free" THEN [task EXCEPT ![j].lock = d] ELSE task
  /\ UNCHANGED <<mode, device, keys, holds, claims, result>>

\* A claim that waited finds the task taken, and answers that there is none.
Relock(d) ==
  LET j == doing[d].job IN
  /\ doing[d].pc = "queue" /\ task[j].lock = "free"
  /\ IF task[j].status = "pending"
     THEN task' = [task EXCEPT ![j].lock = d] /\ Does(d, [doing[d] EXCEPT !.pc = "claim"])
     ELSE Ends(d) /\ UNCHANGED task
  /\ UNCHANGED <<mode, device, keys, holds, claims, result>>

ClaimTask(d) ==
  LET j == doing[d].job IN
  /\ doing[d].pc = "claim"
  /\ task' = [task EXCEPT ![j].status = "claimed", ![j].lock = "free"]
  /\ claims' = [claims EXCEPT ![j] = IF @ = 0 THEN 1 ELSE 2]
  /\ Ends(d)
  /\ UNCHANGED <<mode, device, keys, holds, result>>

\* ReportTask: a machine reports what it was given, and again when it got no
\* answer.
BeginReport(d, j, how) ==
  /\ doing[d].pc = "idle" /\ claims[j] > 0 /\ AuthenticateDevice(task[j].of)
  /\ task[j].status \in {"claimed", "pending"}
  /\ result[j] \in {"none", how}
  /\ result' = [result EXCEPT ![j] = how]
  /\ Does(d, [Idle EXCEPT !.pc = "report", !.of = task[j].of, !.job = j])
  /\ UNCHANGED <<mode, device, keys, holds, task, claims>>

WriteReport(d) ==
  LET j == doing[d].job IN
  /\ doing[d].pc = "report" /\ task[j].lock = "free"
  /\ task' = [task EXCEPT ![j].status = result[j]]
  /\ Ends(d)
  /\ UNCHANGED <<mode, device, keys, holds, claims, result>>

DeviceNext ==
  \/ \E j \in Jobs, m \in Machines : StoreTask(j, m)
  \/ \E j \in Jobs : SyncWritesPending(j)
  \/ \E d \in Doers :
       \/ DoingFails(d)
       \/ \E m \in Machines : BeginRegister(d, m) \/ BeginClaim(d, m)
       \/ WriteDevice(d) \/ AnswerRegister(d)
       \/ Relock(d) \/ ClaimTask(d)
       \/ \E j \in Jobs, how \in {"done", "failed"} : BeginReport(d, j, how)
       \/ WriteReport(d)

DeviceSpec == DeviceInit /\ [][DeviceNext]_deviceVars

-----------------------------------------------------------------------------
(* Properties.                                                             *)

\* The last part: a lock is held by the claim that is under way, and no longer.
DeviceTypeOK ==
  /\ mode \in Modes
  /\ device \in [Machines -> 0 .. MaxKeys] /\ holds \in [Machines -> 0 .. MaxKeys]
  /\ keys \in 0 .. MaxKeys
  /\ task \in [Jobs -> [status: {"none", "pending", "claimed", "done", "failed"},
                        of: Machines \cup {"none"}, lock: Doers \cup {"free"}]]
  /\ doing \in [Doers -> [pc: {"idle", "register", "answer", "claim", "queue", "report"},
                          of: Machines \cup {"none"}, key: 0 .. MaxKeys, new: BOOLEAN,
                          job: Jobs \cup {0}]]
  /\ claims \in [Jobs -> 0 .. 2] /\ result \in [Jobs -> {"none", "done", "failed"}]
  /\ \A j \in Jobs, d \in Doers :
       task[j].lock = d <=> doing[d].pc = "claim" /\ doing[d].job = j

\* Of all claims and retried claims one gets the task, so its parcels are
\* printed once, unless AgentsCenter works on the same rows.
TaskGivenOnce == ~mode.mixed => \A j \in Jobs : claims[j] <= 1

\* What a machine reported of a task stands, whatever claim was under way: the
\* task does not go back to waiting or being printed.
ReportStands ==
  [][~mode.mixed => \A j \in Jobs : task[j].status \in {"done", "failed"} =>
       task'[j].status = task[j].status]_deviceVars

\* The key a machine was answered last is the one it is known by, so that it
\* can ask for its tasks, while it registers one try at a time.
KeyHolds ==
  mode.apart => \A m \in Machines : holds[m] # 0 /\ ~Registering(m) => holds[m] = device[m]
=============================================================================
