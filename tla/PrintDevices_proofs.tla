-------------------------- MODULE PrintDevices_proofs --------------------------
(***************************************************************************)
(* Tasks are given out once, reports stand and keys hold for any number of *)
(* machines, requests and tasks.                                           *)
(***************************************************************************)
EXTENDS PrintDevices, WellFoundedInduction, TLAPS

\* Who is to claim a task has it locked while it waits: a claim can come to
\* nothing, but nobody else can take the task from under it.
LockedWaits ==
  \A d \in Doers : doing[d].pc = "claim" => task[doing[d].job].status = "pending"

\* A task that waits was given to nobody.
WaitingIsNew ==
  ~mode.mixed => \A j \in Jobs :
    /\ claims[j] <= 1
    /\ task[j].status \in {"none", "pending"} => claims[j] = 0

\* A report is under way with the result the machine sticks to, which is the
\* one the task has once a report was written.
ResultsAgree ==
  /\ \A d \in Doers : doing[d].pc = "report" => result[doing[d].job] \in {"done", "failed"}
  /\ ~mode.mixed => \A j \in Jobs :
       task[j].status \in {"done", "failed"} => result[j] = task[j].status

\* Requests that name a task or a machine name one there is.
Named ==
  \A d \in Doers :
    /\ doing[d].pc \in {"claim", "queue", "report"} => doing[d].job \in Jobs
    /\ doing[d].pc \in {"register", "answer"} => doing[d].of \in Machines

\* What a request may be doing.
Work == [pc: {"idle", "register", "answer", "claim", "queue", "report"},
         of: Machines \cup {"none"}, key: 0 .. MaxKeys, new: BOOLEAN, job: Jobs \cup {0}]

TaskInv == DeviceTypeOK /\ Named /\ LockedWaits /\ WaitingIsNew /\ ResultsAgree

LEMMA WorkMoves ==
  ASSUME NEW w, w \in Work,
         NEW p, p \in {"idle", "register", "answer", "claim", "queue", "report"}
  PROVE  [w EXCEPT !.pc = p] \in Work
BY DEF Work

LEMMA WorkBegins ==
  ASSUME NEW p, p \in {"idle", "register", "answer", "claim", "queue", "report"},
         NEW m, m \in Machines \cup {"none"}, NEW j, j \in Jobs
  PROVE  [Idle EXCEPT !.of = m, !.job = j, !.pc = p] \in Work
<1>1. Idle \in Work
  BY PrintDevicesAssumption DEF Idle, Work
<1>2. [Idle EXCEPT !.of = m] \in Work
  BY <1>1 DEF Work
<1>3. [Idle EXCEPT !.of = m, !.job = j] \in Work
  BY <1>2 DEF Work
<1>4. QED
  BY <1>3, WorkMoves

\* Locking a task keeps the table of tasks well typed.
LEMMA LockTyped ==
  ASSUME NEW f, NEW i, NEW d \in Doers,
         f \in [Jobs -> [status: {"none", "pending", "claimed", "done", "failed"},
                         of: Machines \cup {"none"}, lock: Doers \cup {"free"}]]
  PROVE  [f EXCEPT ![i].lock = d] \in
           [Jobs -> [status: {"none", "pending", "claimed", "done", "failed"},
                     of: Machines \cup {"none"}, lock: Doers \cup {"free"}]]
<1> DEFINE R == [status: {"none", "pending", "claimed", "done", "failed"},
                 of: Machines \cup {"none"}, lock: Doers \cup {"free"}]
<1>1. \A r \in R : [r EXCEPT !.lock = d] \in R
  OBVIOUS
<1>2. f \in [Jobs -> R]
  OBVIOUS
<1> HIDE DEF R
<1>3. [f EXCEPT ![i].lock = d] \in [Jobs -> R]
  BY <1>1, <1>2
<1>4. QED
  BY <1>3 DEF R

LEMMA FirstWaits ==
  ASSUME NEW S, S \subseteq Jobs, S # {}
  PROVE  FirstOf(S) \in S
<1>1. S \subseteq Nat
  BY PrintDevicesAssumption
<1>2. PICK j \in S : \A i \in S : <<i, j>> \notin OpToRel(<, Nat)
  BY <1>1, WFMin, NatLessThanWellFounded, Zenon
<1>3. ASSUME NEW i \in S PROVE j <= i
  <2>1. i \in Nat /\ j \in Nat
    BY <1>1
  <2>2. ~ (i < j)
    BY <1>2, <2>1, Zenon DEF OpToRel
  <2>3. QED
    BY <2>1, <2>2
<1>4. QED
  BY <1>3 DEF FirstOf

LEMMA InitHolds == DeviceInit => TaskInv
<1> SUFFICES ASSUME DeviceInit PROVE TaskInv
  OBVIOUS
<1>1. DeviceTypeOK
  BY PrintDevicesAssumption DEF DeviceInit, DeviceTypeOK, NoTask, Idle
<1>2. Named /\ LockedWaits /\ WaitingIsNew /\ ResultsAgree
  BY DEF DeviceInit, Named, LockedWaits, WaitingIsNew, ResultsAgree, NoTask, Idle
<1>3. QED
  BY <1>1, <1>2 DEF TaskInv

LEMMA StepsKeep == TaskInv /\ [DeviceNext]_deviceVars => TaskInv'
<1> SUFFICES ASSUME TaskInv, [DeviceNext]_deviceVars PROVE TaskInv'
  OBVIOUS
<1> USE PrintDevicesAssumption DEF TaskInv
<1>1. ASSUME NEW j \in Jobs, NEW m \in Machines, StoreTask(j, m)
      PROVE  TaskInv'
  <2>1. DeviceTypeOK'
    <3>1. task' \in [Jobs -> [status: {"none", "pending", "claimed", "done", "failed"},
                              of: Machines \cup {"none"}, lock: Doers \cup {"free"}]]
      BY <1>1 DEF StoreTask, NoTask, DeviceTypeOK, Named, ResultsAgree
    <3>2. doing' \in [Doers -> [pc: {"idle", "register", "answer", "claim", "queue", "report"},
                                of: Machines \cup {"none"}, key: 0 .. MaxKeys, new: BOOLEAN,
                                job: Jobs \cup {0}]]
      BY <1>1 DEF StoreTask, NoTask, DeviceTypeOK, Named, ResultsAgree
    <3>3. \A i \in Jobs, e \in Doers :
            task'[i].lock = e <=> doing'[e].pc = "claim" /\ doing'[e].job = i
      BY <1>1 DEF StoreTask, NoTask, DeviceTypeOK, Named, LockedWaits
    <3>4. QED
      BY <1>1, <3>1, <3>2, <3>3 DEF StoreTask, NoTask, DeviceTypeOK, Named
  <2>2. Named'
    BY <1>1 DEF StoreTask, NoTask, Does, Ends, Idle, Named, DeviceTypeOK
  <2>3. LockedWaits'
    BY <1>1 DEF StoreTask, NoTask, Does, Ends, Idle, LockedWaits, DeviceTypeOK, Named
  <2>4. WaitingIsNew'
    BY <1>1 DEF StoreTask, NoTask, Does, Ends, Idle, WaitingIsNew, DeviceTypeOK, Named, LockedWaits
  <2>5. ResultsAgree'
    BY <1>1 DEF StoreTask, NoTask, Does, Ends, Idle, ResultsAgree, DeviceTypeOK, Named, LockedWaits
  <2>6. QED
    BY <2>1, <2>2, <2>3, <2>4, <2>5
<1>2. ASSUME NEW j \in Jobs, SyncWritesPending(j)
      PROVE  TaskInv'
  <2>1. DeviceTypeOK'
    BY <1>2 DEF SyncWritesPending, Does, Ends, Idle, DeviceTypeOK, Named, ResultsAgree
  <2>2. Named'
    BY <1>2 DEF SyncWritesPending, Does, Ends, Idle, Named, DeviceTypeOK
  <2>3. LockedWaits'
    BY <1>2 DEF SyncWritesPending, Does, Ends, Idle, LockedWaits, DeviceTypeOK, Named
  <2>4. WaitingIsNew'
    BY <1>2 DEF SyncWritesPending, Does, Ends, Idle, WaitingIsNew, DeviceTypeOK, Named, LockedWaits
  <2>5. ResultsAgree'
    BY <1>2 DEF SyncWritesPending, Does, Ends, Idle, ResultsAgree, DeviceTypeOK, Named, LockedWaits
  <2>6. QED
    BY <2>1, <2>2, <2>3, <2>4, <2>5
<1>3. ASSUME NEW d \in Doers, DoingFails(d)
      PROVE  TaskInv'
  <2>1. DeviceTypeOK'
    <3>1. task' \in [Jobs -> [status: {"none", "pending", "claimed", "done", "failed"},
                              of: Machines \cup {"none"}, lock: Doers \cup {"free"}]]
      BY <1>3 DEF DoingFails, Unlocked, Ends, Idle, DeviceTypeOK, Named, ResultsAgree
    <3>2. doing' \in [Doers -> [pc: {"idle", "register", "answer", "claim", "queue", "report"},
                                of: Machines \cup {"none"}, key: 0 .. MaxKeys, new: BOOLEAN,
                                job: Jobs \cup {0}]]
      BY <1>3 DEF DoingFails, Unlocked, Ends, Idle, DeviceTypeOK, Named, ResultsAgree
    <3>3. \A i \in Jobs, e \in Doers :
            task'[i].lock = e <=> doing'[e].pc = "claim" /\ doing'[e].job = i
      BY <1>3 DEF DoingFails, Unlocked, Ends, Idle, DeviceTypeOK, Named
    <3>4. QED
      BY <1>3, <3>1, <3>2, <3>3 DEF DoingFails, Unlocked, Ends, Idle, DeviceTypeOK, Named
  <2>2. Named'
    BY <1>3 DEF DoingFails, Unlocked, Does, Ends, Idle, Named, DeviceTypeOK
  <2>3. LockedWaits'
    BY <1>3 DEF DoingFails, Unlocked, Does, Ends, Idle, LockedWaits, DeviceTypeOK, Named
  <2>4. WaitingIsNew'
    BY <1>3 DEF DoingFails, Unlocked, Does, Ends, Idle, WaitingIsNew, DeviceTypeOK, Named, LockedWaits
  <2>5. ResultsAgree'
    BY <1>3 DEF DoingFails, Unlocked, Does, Ends, Idle, ResultsAgree, DeviceTypeOK, Named, LockedWaits
  <2>6. QED
    BY <2>1, <2>2, <2>3, <2>4, <2>5
<1>4. ASSUME NEW d \in Doers, NEW m \in Machines, BeginRegister(d, m)
      PROVE  TaskInv'
  <2>1. DeviceTypeOK'
    BY <1>4 DEF BeginRegister, Does, Ends, Idle, DeviceTypeOK, Named, ResultsAgree
  <2>2. Named'
    BY <1>4 DEF BeginRegister, Does, Ends, Idle, Named, DeviceTypeOK
  <2>3. LockedWaits'
    BY <1>4 DEF BeginRegister, Does, Ends, Idle, LockedWaits, DeviceTypeOK, Named
  <2>4. WaitingIsNew'
    BY <1>4 DEF BeginRegister, Does, Ends, Idle, WaitingIsNew, DeviceTypeOK, Named, LockedWaits
  <2>5. ResultsAgree'
    BY <1>4 DEF BeginRegister, Does, Ends, Idle, ResultsAgree, DeviceTypeOK, Named, LockedWaits
  <2>6. QED
    BY <2>1, <2>2, <2>3, <2>4, <2>5
<1>5. ASSUME NEW d \in Doers, NEW m \in Machines, BeginClaim(d, m)
      PROVE  TaskInv'
  <2> DEFINE i == FirstOf(Waits(m))
  <2>1. Waits(m) \subseteq Jobs /\ Waits(m) # {}
    BY <1>5 DEF BeginClaim, Waits
  <2>2. i \in Waits(m)
    BY <2>1, FirstWaits
  <2>3. i \in Jobs /\ task[i].status = "pending"
    BY <2>2 DEF Waits
  <2>4. /\ doing[d].pc = "idle"
        /\ doing' = [doing EXCEPT ![d] = [Idle EXCEPT !.of = m, !.job = i,
                       !.pc = IF task[i].lock = "free" THEN "claim" ELSE "queue"]]
        /\ task' = IF task[i].lock = "free" THEN [task EXCEPT ![i].lock = d] ELSE task
        /\ UNCHANGED <<mode, device, keys, holds, claims, result>>
    BY <1>5 DEF BeginClaim, Does
  <2> HIDE DEF i
  <2>5. DeviceTypeOK'
    <3>1. task' \in [Jobs -> [status: {"none", "pending", "claimed", "done", "failed"},
                              of: Machines \cup {"none"}, lock: Doers \cup {"free"}]]
      BY <2>3, <2>4 DEF Idle, DeviceTypeOK, Named, ResultsAgree
    <3>2. doing' \in [Doers -> [pc: {"idle", "register", "answer", "claim", "queue", "report"},
                                of: Machines \cup {"none"}, key: 0 .. MaxKeys, new: BOOLEAN,
                                job: Jobs \cup {0}]]
      <4> DEFINE r == [Idle EXCEPT !.of = m, !.job = i,
                         !.pc = IF task[i].lock = "free" THEN "claim" ELSE "queue"]
      <4>1. r \in Work
        BY <2>3, WorkBegins
      <4>2. doing' = [doing EXCEPT ![d] = r]
        BY <2>4
      <4> HIDE DEF r
      <4>3. QED
        BY <4>1, <4>2 DEF DeviceTypeOK, Work
    <3>3. \A k \in Jobs, e \in Doers :
            task'[k].lock = e <=> doing'[e].pc = "claim" /\ doing'[e].job = k
      BY <2>3, <2>4 DEF Idle, DeviceTypeOK, Named
    <3>4. QED
      BY <2>3, <2>4, <3>1, <3>2, <3>3 DEF Idle, DeviceTypeOK, Named
  <2>6. Named'
    BY <2>3, <2>4 DEF Idle, Named, DeviceTypeOK
  <2>7. LockedWaits'
    BY <2>3, <2>4 DEF Idle, LockedWaits, DeviceTypeOK, Named
  <2>8. WaitingIsNew'
    BY <2>3, <2>4 DEF Idle, WaitingIsNew, DeviceTypeOK, Named, LockedWaits
  <2>9. ResultsAgree'
    BY <2>3, <2>4 DEF Idle, ResultsAgree, DeviceTypeOK, Named, LockedWaits
  <2>10. QED
    BY <2>5, <2>6, <2>7, <2>8, <2>9
<1>6. ASSUME NEW d \in Doers, WriteDevice(d)
      PROVE  TaskInv'
  <2>1. DeviceTypeOK'
    <3>1. task' \in [Jobs -> [status: {"none", "pending", "claimed", "done", "failed"},
                              of: Machines \cup {"none"}, lock: Doers \cup {"free"}]]
      BY <1>6 DEF WriteDevice, Does, Ends, Idle, DeviceTypeOK, Named, ResultsAgree
    <3>2. doing' \in [Doers -> [pc: {"idle", "register", "answer", "claim", "queue", "report"},
                                of: Machines \cup {"none"}, key: 0 .. MaxKeys, new: BOOLEAN,
                                job: Jobs \cup {0}]]
      <4>1. doing[d] \in Work /\ [doing[d] EXCEPT !.pc = "answer"] \in Work /\ Idle \in Work
        BY DEF DeviceTypeOK, Idle, Work
      <4>2. \E r \in Work : doing' = [doing EXCEPT ![d] = r]
        BY <1>6, <4>1 DEF WriteDevice, Does, Ends
      <4>3. QED
        BY <4>2 DEF DeviceTypeOK, Work
    <3>3. \A i \in Jobs, e \in Doers :
            task'[i].lock = e <=> doing'[e].pc = "claim" /\ doing'[e].job = i
      BY <1>6 DEF WriteDevice, Does, Ends, Idle, DeviceTypeOK, Named
    <3>4. QED
      BY <1>6, <3>1, <3>2, <3>3 DEF WriteDevice, Does, Ends, Idle, DeviceTypeOK, Named
  <2>2. Named'
    <3>1. \/ doing' = [doing EXCEPT ![d] = Idle]
          \/ doing' = [doing EXCEPT ![d] = [doing[d] EXCEPT !.pc = "answer"]]
      BY <1>6 DEF WriteDevice, Does, Ends
    <3>2. doing[d].pc = "register"
      BY <1>6 DEF WriteDevice
    <3>3. QED
      BY <3>1, <3>2 DEF Idle, Named, DeviceTypeOK
  <2>3. LockedWaits'
    BY <1>6 DEF WriteDevice, Does, Ends, Idle, LockedWaits, DeviceTypeOK, Named
  <2>4. WaitingIsNew'
    BY <1>6 DEF WriteDevice, Does, Ends, Idle, WaitingIsNew, DeviceTypeOK, Named, LockedWaits
  <2>5. ResultsAgree'
    BY <1>6 DEF WriteDevice, Does, Ends, Idle, ResultsAgree, DeviceTypeOK, Named, LockedWaits
  <2>6. QED
    BY <2>1, <2>2, <2>3, <2>4, <2>5
<1>7. ASSUME NEW d \in Doers, AnswerRegister(d)
      PROVE  TaskInv'
  <2>1. DeviceTypeOK'
    BY <1>7 DEF AnswerRegister, Does, Ends, Idle, DeviceTypeOK, Named, ResultsAgree
  <2>2. Named'
    BY <1>7 DEF AnswerRegister, Does, Ends, Idle, Named, DeviceTypeOK
  <2>3. LockedWaits'
    BY <1>7 DEF AnswerRegister, Does, Ends, Idle, LockedWaits, DeviceTypeOK, Named
  <2>4. WaitingIsNew'
    BY <1>7 DEF AnswerRegister, Does, Ends, Idle, WaitingIsNew, DeviceTypeOK, Named, LockedWaits
  <2>5. ResultsAgree'
    BY <1>7 DEF AnswerRegister, Does, Ends, Idle, ResultsAgree, DeviceTypeOK, Named, LockedWaits
  <2>6. QED
    BY <2>1, <2>2, <2>3, <2>4, <2>5
<1>8. ASSUME NEW d \in Doers, Relock(d)
      PROVE  TaskInv'
  <2> DEFINE i == doing[d].job
  <2>1. /\ doing[d].pc = "queue" /\ i \in Jobs /\ task[i].lock = "free"
        /\ IF task[i].status = "pending"
           THEN task' = [task EXCEPT ![i].lock = d] /\ Does(d, [doing[d] EXCEPT !.pc = "claim"])
           ELSE Ends(d) /\ UNCHANGED task
        /\ UNCHANGED <<mode, device, keys, holds, claims, result>>
    BY <1>8 DEF Relock, Named
  <2>2. CASE task[i].status = "pending"
    <3>1. /\ task' = [task EXCEPT ![i].lock = d]
          /\ doing' = [doing EXCEPT ![d] = [doing[d] EXCEPT !.pc = "claim"]]
      BY <2>1, <2>2 DEF Ends, Does
    <3>2. DeviceTypeOK'
      <4>1. doing[d] \in Work /\ [doing[d] EXCEPT !.pc = "claim"] \in Work
        <5>1. doing[d] \in Work
          BY DEF DeviceTypeOK, Work
        <5>2. QED
          BY <5>1, WorkMoves
      <4>2. doing' \in [Doers -> Work]
        BY <3>1, <4>1 DEF DeviceTypeOK, Work
      <4>3. \A k \in Jobs, e \in Doers :
              task'[k].lock = e <=> doing'[e].pc = "claim" /\ doing'[e].job = k
        BY <2>1, <3>1 DEF DeviceTypeOK
      <4>4. task' \in [Jobs -> [status: {"none", "pending", "claimed", "done", "failed"},
                                of: Machines \cup {"none"}, lock: Doers \cup {"free"}]]
        BY <3>1, LockTyped DEF DeviceTypeOK
      <4>5. QED
        BY <2>1, <4>2, <4>3, <4>4 DEF DeviceTypeOK, Work
    <3>3. Named'
      BY <2>1, <2>2, <3>1 DEF Idle, Named, DeviceTypeOK
    <3>4. LockedWaits'
      BY <2>1, <2>2, <3>1 DEF Idle, LockedWaits, DeviceTypeOK, Named
    <3>5. WaitingIsNew'
      BY <2>1, <2>2, <3>1 DEF Idle, WaitingIsNew, DeviceTypeOK
    <3>6. ResultsAgree'
      BY <2>1, <2>2, <3>1 DEF Idle, ResultsAgree, DeviceTypeOK, Named
    <3>7. QED
      BY <3>2, <3>3, <3>4, <3>5, <3>6
  <2>3. CASE task[i].status # "pending"
    <3>1. /\ task' = task
          /\ doing' = [doing EXCEPT ![d] = Idle]
      BY <2>1, <2>3 DEF Ends, Does
    <3>2. DeviceTypeOK'
      BY <2>1, <2>3, <3>1 DEF Idle, DeviceTypeOK
    <3>3. Named'
      BY <2>1, <2>3, <3>1 DEF Idle, Named, DeviceTypeOK
    <3>4. LockedWaits'
      BY <2>1, <2>3, <3>1 DEF Idle, LockedWaits, DeviceTypeOK, Named
    <3>5. WaitingIsNew'
      BY <2>1, <2>3, <3>1 DEF Idle, WaitingIsNew, DeviceTypeOK
    <3>6. ResultsAgree'
      BY <2>1, <2>3, <3>1 DEF Idle, ResultsAgree, DeviceTypeOK, Named
    <3>7. QED
      BY <3>2, <3>3, <3>4, <3>5, <3>6
  <2>4. QED
    BY <2>2, <2>3
<1>9. ASSUME NEW d \in Doers, ClaimTask(d)
      PROVE  TaskInv'
  <2>1. DeviceTypeOK'
    BY <1>9 DEF ClaimTask, Does, Ends, Idle, DeviceTypeOK, Named, ResultsAgree
  <2>2. Named'
    BY <1>9 DEF ClaimTask, Does, Ends, Idle, Named, DeviceTypeOK
  <2>3. LockedWaits'
    BY <1>9 DEF ClaimTask, Does, Ends, Idle, LockedWaits, DeviceTypeOK, Named
  <2>4. WaitingIsNew'
    BY <1>9 DEF ClaimTask, Does, Ends, Idle, WaitingIsNew, DeviceTypeOK, Named, LockedWaits
  <2>5. ResultsAgree'
    BY <1>9 DEF ClaimTask, Does, Ends, Idle, ResultsAgree, DeviceTypeOK, Named, LockedWaits
  <2>6. QED
    BY <2>1, <2>2, <2>3, <2>4, <2>5
<1>10. ASSUME NEW d \in Doers, NEW j \in Jobs, NEW how \in {"done", "failed"}, BeginReport(d, j, how)
      PROVE  TaskInv'
  <2>1. DeviceTypeOK'
    <3>1. task' \in [Jobs -> [status: {"none", "pending", "claimed", "done", "failed"},
                              of: Machines \cup {"none"}, lock: Doers \cup {"free"}]]
      BY <1>10 DEF BeginReport, Does, Idle, DeviceTypeOK, Named, ResultsAgree
    <3>2. doing' \in [Doers -> [pc: {"idle", "register", "answer", "claim", "queue", "report"},
                                of: Machines \cup {"none"}, key: 0 .. MaxKeys, new: BOOLEAN,
                                job: Jobs \cup {0}]]
      <4> DEFINE r == [Idle EXCEPT !.pc = "report", !.of = task[j].of, !.job = j]
      <4>1. r \in Work
        <5>1. r = [Idle EXCEPT !.of = task[j].of, !.job = j, !.pc = "report"]
          BY DEF Idle
        <5>2. task[j].of \in Machines \cup {"none"}
          BY DEF DeviceTypeOK
        <5>3. QED
          BY <5>1, <5>2, WorkBegins
      <4>2. doing' = [doing EXCEPT ![d] = r]
        BY <1>10 DEF BeginReport, Does
      <4> HIDE DEF r
      <4>3. QED
        BY <4>1, <4>2 DEF DeviceTypeOK, Work
    <3>3. \A i \in Jobs, e \in Doers :
            task'[i].lock = e <=> doing'[e].pc = "claim" /\ doing'[e].job = i
      BY <1>10 DEF BeginReport, Does, Idle, DeviceTypeOK, Named
    <3>4. QED
      BY <1>10, <3>1, <3>2, <3>3 DEF BeginReport, Does, Idle, DeviceTypeOK, Named
  <2>2. Named'
    BY <1>10 DEF BeginReport, Does, Ends, Idle, Named, DeviceTypeOK
  <2>3. LockedWaits'
    BY <1>10 DEF BeginReport, Does, Ends, Idle, LockedWaits, DeviceTypeOK, Named
  <2>4. WaitingIsNew'
    BY <1>10 DEF BeginReport, Does, Ends, Idle, WaitingIsNew, DeviceTypeOK, Named, LockedWaits
  <2>5. ResultsAgree'
    BY <1>10 DEF BeginReport, Does, Ends, Idle, ResultsAgree, DeviceTypeOK, Named, LockedWaits
  <2>6. QED
    BY <2>1, <2>2, <2>3, <2>4, <2>5
<1>11. ASSUME NEW d \in Doers, WriteReport(d)
      PROVE  TaskInv'
  <2>1. DeviceTypeOK'
    BY <1>11 DEF WriteReport, Does, Ends, Idle, DeviceTypeOK, Named, ResultsAgree
  <2>2. Named'
    BY <1>11 DEF WriteReport, Does, Ends, Idle, Named, DeviceTypeOK
  <2>3. LockedWaits'
    BY <1>11 DEF WriteReport, Does, Ends, Idle, LockedWaits, DeviceTypeOK, Named
  <2>4. WaitingIsNew'
    <3> DEFINE i == doing[d].job
    <3>1. /\ i \in Jobs /\ result[i] \in {"done", "failed"}
          /\ task' = [task EXCEPT ![i].status = result[i]]
          /\ UNCHANGED <<mode, claims>>
      BY <1>11 DEF WriteReport, Named, ResultsAgree
    <3> HIDE DEF i
    <3>2. QED
      BY <3>1 DEF WaitingIsNew, DeviceTypeOK
  <2>5. ResultsAgree'
    BY <1>11 DEF WriteReport, Does, Ends, Idle, ResultsAgree, DeviceTypeOK, Named, LockedWaits
  <2>6. QED
    BY <2>1, <2>2, <2>3, <2>4, <2>5
<1>12. CASE UNCHANGED deviceVars
  BY <1>12 DEF deviceVars, DeviceTypeOK, Named, LockedWaits, WaitingIsNew, ResultsAgree
<1>13. QED
  BY <1>1, <1>2, <1>3, <1>4, <1>5, <1>6, <1>7, <1>8, <1>9, <1>10, <1>11, <1>12 DEF DeviceNext

LEMMA TaskInvHolds == DeviceSpec => []TaskInv
BY InitHolds, StepsKeep, PTL DEF DeviceSpec

\* Of all claims and retried claims one gets the task, for any number of them
\* (kdzs_print_agent_service.go's ClaimNext with its row lock).
THEOREM GivenOnce == DeviceSpec => []TaskGivenOnce
<1>1. TaskInv => TaskGivenOnce
  BY DEF TaskInv, WaitingIsNew, TaskGivenOnce
<1>2. QED
  BY TaskInvHolds, <1>1, PTL

\* What a machine reported of a task stands, whatever claims and repeated reports
\* of it are under way (ReportTask): who has the task locked locked it while it
\* waited, and a machine repeats what it reported.
THEOREM ReportedStays == DeviceSpec => ReportStands
<1>1. ASSUME TaskInv, [DeviceNext]_deviceVars, ~mode.mixed,
             NEW j \in Jobs, task[j].status \in {"done", "failed"}
      PROVE  task'[j].status = task[j].status
  <2> USE <1>1 DEF TaskInv
  <2>1. ASSUME NEW i \in Jobs, NEW m \in Machines, StoreTask(i, m)
        PROVE  task'[j].status = task[j].status
    BY <2>1 DEF StoreTask, DeviceTypeOK
  <2>2. ASSUME NEW i \in Jobs, SyncWritesPending(i) PROVE FALSE
    BY <2>2 DEF SyncWritesPending
  <2>3. ASSUME NEW d \in Doers, DoingFails(d) PROVE task'[j].status = task[j].status
    BY <2>3 DEF DoingFails, Unlocked, DeviceTypeOK
  <2>4. ASSUME NEW d \in Doers,
               (\E m \in Machines : BeginRegister(d, m)) \/ WriteDevice(d) \/ AnswerRegister(d)
        PROVE  task'[j].status = task[j].status
    BY <2>4 DEF BeginRegister, WriteDevice, AnswerRegister
  <2>5. ASSUME NEW d \in Doers, NEW m \in Machines, BeginClaim(d, m)
        PROVE  task'[j].status = task[j].status
    BY <2>5 DEF BeginClaim, DeviceTypeOK
  <2>6. ASSUME NEW d \in Doers, Relock(d) PROVE task'[j].status = task[j].status
    BY <2>6 DEF Relock, DeviceTypeOK
  <2>7. ASSUME NEW d \in Doers, ClaimTask(d) PROVE task'[j].status = task[j].status
    BY <2>7 DEF ClaimTask, LockedWaits, Named, DeviceTypeOK
  <2>8. ASSUME NEW d \in Doers, NEW i \in Jobs, NEW how \in {"done", "failed"}, BeginReport(d, i, how)
        PROVE  task'[j].status = task[j].status
    BY <2>8 DEF BeginReport
  <2>9. ASSUME NEW d \in Doers, WriteReport(d) PROVE task'[j].status = task[j].status
    BY <2>9 DEF WriteReport, ResultsAgree, Named, DeviceTypeOK
  <2>10. CASE UNCHANGED deviceVars
    BY <2>10 DEF deviceVars
  <2>11. QED
    BY <2>1, <2>2, <2>3, <2>4, <2>5, <2>6, <2>7, <2>8, <2>9, <2>10 DEF DeviceNext
<1>2. TaskInv /\ [DeviceNext]_deviceVars =>
        [~mode.mixed => \A j \in Jobs : task[j].status \in {"done", "failed"} =>
           task'[j].status = task[j].status]_deviceVars
  BY <1>1
<1>3. QED
  BY TaskInvHolds, <1>2, PTL DEF DeviceSpec, ReportStands

\* While a machine registers one try at a time, its row has the key of the try
\* that is to be answered, and no other changes it.
KeyInv ==
  mode.apart =>
    /\ \A d, e \in Doers :
         /\ doing[d].pc \in {"register", "answer"} /\ doing[e].pc \in {"register", "answer"}
         /\ doing[d].of = doing[e].of
         => d = e
    /\ \A d \in Doers : doing[d].pc = "answer" => device[doing[d].of] = doing[d].key
    /\ \A m \in Machines : holds[m] = 0 \/ holds[m] = device[m]
                            \/ \E d \in Doers : doing[d].pc = "answer" /\ doing[d].of = m

\* A step that is none of a registration.
LEMMA KeysElsewhere ==
  ASSUME TaskInv, KeyInv, UNCHANGED <<mode, device, holds>>, NEW d \in Doers, NEW w \in Work,
         doing' = [doing EXCEPT ![d] = w],
         w.pc \notin {"register", "answer"},
         doing[d].pc # "answer" \/ holds[doing[d].of] = device[doing[d].of]
  PROVE  KeyInv'
<1>1. \A e \in Doers : doing'[e] = doing[e] \/ (e = d /\ doing'[e].pc \notin {"register", "answer"})
  BY DEF TaskInv, DeviceTypeOK
<1>2. ASSUME NEW e \in Doers, NEW f \in Doers,
             doing'[e].pc \in {"register", "answer"}, doing'[f].pc \in {"register", "answer"}
      PROVE  doing'[e] = doing[e] /\ doing'[f] = doing[f]
  BY <1>1, <1>2
<1>3. ASSUME NEW m \in Machines, NEW e \in Doers, doing[e].pc = "answer", doing[e].of = m
      PROVE  holds[m] = device[m] \/ (doing'[e].pc = "answer" /\ doing'[e].of = m)
  BY <1>1, <1>3 DEF TaskInv, DeviceTypeOK
<1>4. QED
  BY <1>1, <1>2, <1>3 DEF KeyInv

LEMMA KeysKeep ==
  ASSUME TaskInv, KeyInv, [DeviceNext]_deviceVars
  PROVE  KeyInv'
<1> USE PrintDevicesAssumption DEF TaskInv
<1>1. ASSUME NEW j \in Jobs, NEW m \in Machines, StoreTask(j, m) PROVE KeyInv'
  BY <1>1 DEF StoreTask, KeyInv
<1>2. ASSUME NEW j \in Jobs, SyncWritesPending(j) PROVE KeyInv'
  BY <1>2 DEF SyncWritesPending, KeyInv
<1>3. ASSUME NEW d \in Doers, DoingFails(d) PROVE KeyInv'
  <2>1. /\ doing' = [doing EXCEPT ![d] = Idle]
        /\ holds' = IF doing[d].pc = "answer" THEN [holds EXCEPT ![doing[d].of] = 0] ELSE holds
        /\ UNCHANGED <<mode, device>>
    BY <1>3 DEF DoingFails, Ends
  <2>2. Idle \in Work /\ Idle.pc = "idle"
    BY DEF Idle, Work
  <2>3. CASE doing[d].pc # "answer"
    BY <2>1, <2>2, <2>3, KeysElsewhere
  <2>4. CASE doing[d].pc = "answer"
    BY <2>1, <2>2, <2>4 DEF KeyInv, DeviceTypeOK, Named
  <2>5. QED
    BY <2>3, <2>4
<1>4. ASSUME NEW d \in Doers, NEW m \in Machines, BeginRegister(d, m) PROVE KeyInv'
  BY <1>4 DEF BeginRegister, Registering, Does, KeyInv, DeviceTypeOK
<1>5. ASSUME NEW d \in Doers, NEW m \in Machines, BeginClaim(d, m) PROVE KeyInv'
  <2> DEFINE i == FirstOf(Waits(m))
             p == IF task[i].lock = "free" THEN "claim" ELSE "queue"
  <2>1. Waits(m) \subseteq Jobs /\ Waits(m) # {}
    BY <1>5 DEF BeginClaim, Waits
  <2>2. i \in Jobs
    BY <2>1, FirstWaits
  <2>3. /\ doing[d].pc = "idle"
        /\ doing' = [doing EXCEPT ![d] = [Idle EXCEPT !.of = m, !.job = i, !.pc = p]]
        /\ UNCHANGED <<mode, device, holds>>
    BY <1>5 DEF BeginClaim, Does
  <2>4. p \in {"claim", "queue"}
    OBVIOUS
  <2> HIDE DEF i, p
  <2>5. [Idle EXCEPT !.of = m, !.job = i, !.pc = p] \in Work
    BY <2>2, <2>4, WorkBegins
  <2>6. [Idle EXCEPT !.of = m, !.job = i, !.pc = p].pc = p
    BY DEF Idle
  <2>7. QED
    BY <2>3, <2>4, <2>5, <2>6, KeysElsewhere
<1>6. ASSUME NEW d \in Doers, WriteDevice(d) PROVE KeyInv'
  <2>1. CASE doing[d].new /\ device[doing[d].of] # 0
    <3>1. doing[d].pc = "register" /\ doing' = [doing EXCEPT ![d] = Idle] /\ UNCHANGED <<mode, device, holds>>
      BY <1>6, <2>1 DEF WriteDevice, Ends
    <3>2. Idle \in Work /\ Idle.pc = "idle"
      BY DEF Idle, Work
    <3>3. QED
      BY <3>1, <3>2, KeysElsewhere
  <2>2. CASE ~(doing[d].new /\ device[doing[d].of] # 0)
    <3>1. /\ doing[d].pc = "register"
          /\ device' = [device EXCEPT ![doing[d].of] = doing[d].key]
          /\ doing' = [doing EXCEPT ![d] = [doing[d] EXCEPT !.pc = "answer"]]
          /\ UNCHANGED <<mode, holds>>
      BY <1>6, <2>2 DEF WriteDevice, Does
    <3>2. QED
      BY <3>1 DEF KeyInv, DeviceTypeOK, Named
  <2>3. QED
    BY <2>1, <2>2
<1>7. ASSUME NEW d \in Doers, AnswerRegister(d) PROVE KeyInv'
  BY <1>7 DEF AnswerRegister, Ends, Idle, KeyInv, DeviceTypeOK, Named
<1>8. ASSUME NEW d \in Doers, Relock(d) PROVE KeyInv'
  <2>1. \/ doing' = [doing EXCEPT ![d] = [doing[d] EXCEPT !.pc = "claim"]]
        \/ doing' = [doing EXCEPT ![d] = Idle]
    BY <1>8 DEF Relock, Does, Ends
  <2>2. doing[d].pc = "queue" /\ UNCHANGED <<mode, device, holds>>
    BY <1>8 DEF Relock
  <2>3. doing[d] \in Work
    BY DEF DeviceTypeOK, Work
  <2>4. /\ [doing[d] EXCEPT !.pc = "claim"] \in Work
        /\ [doing[d] EXCEPT !.pc = "claim"].pc = "claim"
        /\ Idle \in Work /\ Idle.pc = "idle"
    BY <2>3 DEF Idle, Work
  <2>5. QED
    BY <2>1, <2>2, <2>4, KeysElsewhere
<1>9. ASSUME NEW d \in Doers, ClaimTask(d) \/ WriteReport(d) PROVE KeyInv'
  <2>1. /\ doing' = [doing EXCEPT ![d] = Idle] /\ doing[d].pc # "answer"
        /\ UNCHANGED <<mode, device, holds>>
    BY <1>9 DEF ClaimTask, WriteReport, Ends
  <2>2. Idle \in Work /\ Idle.pc = "idle"
    BY DEF Idle, Work
  <2>3. QED
    BY <2>1, <2>2, KeysElsewhere
<1>10. ASSUME NEW d \in Doers, NEW j \in Jobs, NEW how \in {"done", "failed"}, BeginReport(d, j, how)
       PROVE  KeyInv'
  <2> DEFINE w == [Idle EXCEPT !.pc = "report", !.of = task[j].of, !.job = j]
  <2>1. doing' = [doing EXCEPT ![d] = w] /\ doing[d].pc = "idle" /\ UNCHANGED <<mode, device, holds>>
    BY <1>10 DEF BeginReport, Does
  <2>2. w = [Idle EXCEPT !.of = task[j].of, !.job = j, !.pc = "report"]
    BY DEF Idle
  <2>3. task[j].of \in Machines \cup {"none"}
    BY DEF DeviceTypeOK
  <2>4. w \in Work
    BY <2>2, <2>3, WorkBegins
  <2>5. w.pc = "report"
    BY DEF Idle
  <2> HIDE DEF w
  <2>6. QED
    BY <2>1, <2>4, <2>5, KeysElsewhere
<1>11. CASE UNCHANGED deviceVars
  BY <1>11 DEF deviceVars, KeyInv
<1>12. QED
  BY <1>1, <1>2, <1>3, <1>4, <1>5, <1>6, <1>7, <1>8, <1>9, <1>10, <1>11 DEF DeviceNext

\* The key a machine was answered last is the one it is known by, while it registers
\* one try at a time, whatever tries fail at any step (RegisterMachine).
THEOREM KeysHold == DeviceSpec => []KeyHolds
<1>1. DeviceInit => KeyInv
  BY DEF DeviceInit, KeyInv, Idle
<1>2. TaskInv /\ KeyInv /\ [DeviceNext]_deviceVars => KeyInv'
  BY KeysKeep
<1>3. KeyInv => KeyHolds
  BY DEF KeyInv, KeyHolds, Registering
<1>4. QED
  BY TaskInvHolds, <1>1, <1>2, <1>3, PTL DEF DeviceSpec
=============================================================================
