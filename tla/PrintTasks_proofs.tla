--------------------------- MODULE PrintTasks_proofs ---------------------------
(***************************************************************************)
(* Theorems about remote printing, for any orders and merge keys, any      *)
(* number of tasks, handlers and polls, and any limits.  Handlers and      *)
(* polls run one at a time, the print machine whenever it likes: the runs  *)
(* that expect a violation show what overlapping handlers break.           *)
(***************************************************************************)
EXTENDS PrintTasks, SequenceTheorems, FiniteSetTheorems, WellFoundedInduction, TLAPS

Req == [pc: {"idle", "update", "write", "cancel", "create", "save"}, orders: SUBSET Orders,
        new: SUBSET Orders, survivor: Nat, absorb: SUBSET Nat]

SyncPCs == {"idle", "jobs", "rows", "confirm", "mark"}

\* A sync holds rows and jobs of its own, by the place of the row.
SyncShape == \E V : sync \in [Syncs -> [pc: SyncPCs, rows: V, seen: V]]

Typed ==
  /\ tasks \in Seq(Task) /\ jobs \in Seq(Job)
  /\ req \in [Reqs -> Req]
  /\ SyncShape
  /\ accepted \subseteq Orders
  /\ shipped \subseteq Orders \X Orders

\* One handler or one poll at a time.
Turns ==
  /\ \A r \in Reqs, y \in Syncs : req[r].pc = "idle" \/ sync[y].pc = "idle"
  /\ \A q, r \in Reqs : q # r => req[q].pc = "idle" \/ req[r].pc = "idle"
  /\ \A y, z \in Syncs : y # z => sync[y].pc = "idle" \/ sync[z].pc = "idle"

JobOf(t) == jobs[tasks[t].job]

\* A task that is not cancelled has a job of its own that prints its orders, and
\* every accepted order is in such a task.
TasksCovered ==
  /\ \A t \in DOMAIN tasks : tasks[t].job \in DOMAIN jobs
  /\ \A t, u \in DOMAIN tasks : t # u => tasks[t].job # tasks[u].job
  /\ \A t \in DOMAIN tasks : tasks[t].status # "cancelled" =>
       JobOf(t).status # "cancelled" /\ tasks[t].orders \subseteq JobOf(t).params
  /\ \A t \in DOMAIN tasks : tasks[t].status = "done" => JobOf(t).status = "succeeded"
  /\ \A o \in accepted : \E t \in DOMAIN tasks :
       tasks[t].status # "cancelled" /\ o \in tasks[t].orders

JobsAnswered ==
  \A j \in DOMAIN jobs : jobs[j].mail # NoMail =>
    jobs[j].status = "succeeded" /\ jobs[j].mail \in jobs[j].params

\* What a handler knows at its next step.
ReqHolds(r) ==
  LET q == req[r] s == q.survivor IN
  /\ q.pc \in {"update", "write"} =>
       /\ s \in DOMAIN tasks /\ tasks[s].status = "pending"
       /\ q.absorb \subseteq DOMAIN tasks \ {s}
       /\ \A t \in q.absorb : tasks[t].status = "pending" /\ tasks[t].orders \subseteq q.orders
       /\ tasks[s].orders \subseteq q.orders /\ q.new \subseteq q.orders
  /\ q.pc = "write" => JobOf(s).params = q.orders
  /\ q.pc = "cancel" =>
       /\ s \in DOMAIN tasks /\ tasks[s].status # "cancelled" /\ q.new \subseteq tasks[s].orders
       /\ q.absorb \subseteq DOMAIN tasks /\ \A t \in q.absorb : tasks[t].status = "cancelled"
  /\ q.pc \in {"create", "save"} => q.orders = q.new
  /\ q.pc = "save" =>
       /\ s \in DOMAIN jobs /\ jobs[s].status # "cancelled" /\ jobs[s].params = q.orders
       /\ \A t \in DOMAIN tasks : tasks[t].job # s

\* What a sync has read is still so, but for the row in work.
SyncHolds(y) ==
  LET s == sync[y] c == Current(y) IN
  s.pc # "idle" =>
    /\ DOMAIN s.rows # {} /\ DOMAIN s.rows \subseteq DOMAIN tasks
    /\ \A t \in DOMAIN s.rows :
         /\ s.rows[t].status \in {"pending", "claimed", "done"}
         /\ s.rows[t].orders = tasks[t].orders /\ s.rows[t].job = tasks[t].job
         /\ tasks[t].status # "cancelled"
         /\ (s.pc \in {"jobs", "rows"} \/ t # c) => s.rows[t] = tasks[t]
    /\ s.pc # "jobs" => \A t \in DOMAIN s.rows :
         /\ s.seen[t] \in Job
         /\ s.seen[t].mail # NoMail => s.seen[t].status = "succeeded"
         /\ s.seen[t].status = "succeeded" => s.seen[t] = JobOf(t)
         /\ s.rows[t].status = "done" => s.seen[t].status = "succeeded"
    /\ s.pc \in {"confirm", "mark"} => AutoConfirms(s.rows[c], s.seen[c].mail)

Inv ==
  /\ Typed /\ Turns /\ TasksCovered /\ JobsAnswered
  /\ \A r \in Reqs : ReqHolds(r)
  /\ \A y \in Syncs : SyncHolds(y)

\* Without lost replies, failed writes and crashes: a job prints its task's
\* orders and no others, but between the two writes of a merge.
Exact ==
  /\ \A t \in DOMAIN tasks : tasks[t].status # "cancelled" =>
       \/ tasks[t].orders = JobOf(t).params
       \/ \E r \in Reqs : req[r].pc = "write" /\ req[r].survivor = t
  /\ OwnWaybill

Sequential == ~Overlap

-----------------------------------------------------------------------------
(* Least and greatest places, and lists that grow or change.               *)

LEMMA MinIn ==
  ASSUME NEW S, S \subseteq Nat, S # {}
  PROVE  Min(S) \in S
<1>1. PICK j \in S : \A i \in S : <<i, j>> \notin OpToRel(<, Nat)
  BY WFMin, NatLessThanWellFounded, Zenon
<1>2. ASSUME NEW i \in S PROVE j <= i
  <2>1. i \in Nat /\ j \in Nat
    OBVIOUS
  <2>2. ~ (i < j)
    BY <1>1, <2>1, Zenon DEF OpToRel
  <2>3. QED
    BY <2>1, <2>2
<1>3. QED
  BY <1>2 DEF Min

\* The greatest of some places is as far from the end as possible.
LEMMA MaxIn ==
  ASSUME NEW n \in Nat, NEW S, S \subseteq 1 .. n, S # {}
  PROVE  Max(S) \in S
<1> DEFINE D == {n - i : i \in S}
<1>1. D \subseteq Nat /\ D # {}
  <2>1. \A i \in S : n - i \in Nat
    OBVIOUS
  <2>2. QED
    BY <2>1
<1>2. PICK d \in D : \A e \in D : <<e, d>> \notin OpToRel(<, Nat)
  BY <1>1, WFMin, NatLessThanWellFounded, Zenon
<1>3. PICK m \in S : d = n - m
  OBVIOUS
<1>4. ASSUME NEW i \in S PROVE m >= i
  <2>1. n - i \in D /\ n - i \in Nat /\ d \in Nat
    BY <1>1
  <2>2. ~ (n - i < d)
    BY <1>2, <2>1, Zenon DEF OpToRel
  <2>3. i \in Int /\ m \in Int
    OBVIOUS
  <2>4. QED
    BY <1>3, <2>2, <2>3
<1>5. QED
  BY <1>4 DEF Max

LEMMA Appended ==
  ASSUME NEW S, NEW s \in Seq(S), NEW e \in S
  PROVE  /\ Append(s, e) \in Seq(S)
         /\ Len(s) \in Nat /\ Len(s) + 1 \notin DOMAIN s
         /\ DOMAIN Append(s, e) = DOMAIN s \cup {Len(s) + 1}
         /\ Append(s, e)[Len(s) + 1] = e
         /\ \A i \in DOMAIN s : Append(s, e)[i] = s[i]
BY AppendProperties, LenProperties

LEMMA Changed ==
  ASSUME NEW S, NEW s \in Seq(S), NEW i \in DOMAIN s, NEW e \in S
  PROVE  /\ [s EXCEPT ![i] = e] \in Seq(S) /\ DOMAIN [s EXCEPT ![i] = e] = DOMAIN s
         /\ [s EXCEPT ![i] = e][i] = e
         /\ \A k \in DOMAIN s \ {i} : [s EXCEPT ![i] = e][k] = s[k]
BY ExceptSeq, LenProperties

\* A list of the same length, place by place.
LEMMA Mapped ==
  ASSUME NEW S, NEW s \in Seq(S), NEW f, f \in [DOMAIN s -> S]
  PROVE  f \in Seq(S)
BY SeqDef, LenProperties

LEMMA Places ==
  ASSUME Typed
  PROVE  /\ DOMAIN tasks \subseteq Nat /\ DOMAIN jobs \subseteq Nat
         /\ \E n \in Nat : DOMAIN tasks = 1 .. n
         /\ \A t \in DOMAIN tasks : tasks[t] \in Task
         /\ \A j \in DOMAIN jobs : jobs[j] \in Job
BY LenProperties, ElementOfSeq DEF Typed

-----------------------------------------------------------------------------
(* What a step of one handler, or of one sync, leaves to be shown.         *)

LEMMA ReqAlone ==
  ASSUME Turns, NEW r \in Reqs, req[r].pc # "idle" \/ Quiet
  PROVE  /\ \A q \in Reqs \ {r} : req[q].pc = "idle"
         /\ \A y \in Syncs : sync[y].pc = "idle"
BY DEF Turns, Quiet

LEMMA SyncAlone ==
  ASSUME Turns, NEW y \in Syncs, sync[y].pc # "idle" \/ Quiet
  PROVE  /\ \A r \in Reqs : req[r].pc = "idle"
         /\ \A z \in Syncs \ {y} : sync[z].pc = "idle"
BY DEF Turns, Quiet

LEMMA ReqMoved ==
  ASSUME Inv, NEW r \in Reqs, req[r].pc # "idle" \/ Quiet, NEW x \in Req,
         req' = [req EXCEPT ![r] = x], UNCHANGED <<sync, shipped>>,
         tasks' \in Seq(Task), jobs' \in Seq(Job), accepted' \subseteq Orders,
         TasksCovered', JobsAnswered', ReqHolds(r)'
  PROVE  Inv'
<1>1. /\ \A q \in Reqs \ {r} : req[q].pc = "idle"
      /\ \A y \in Syncs : sync[y].pc = "idle"
  BY ReqAlone DEF Inv
<1>2. req \in [Reqs -> Req]
  BY DEF Inv, Typed
<1>3. /\ req' \in [Reqs -> Req] /\ req'[r] = x
      /\ \A q \in Reqs \ {r} : req'[q] = req[q]
  BY <1>2
<1>4. Typed'
  BY <1>3 DEF Inv, Typed, SyncShape
<1>5. Turns'
  BY <1>1, <1>3 DEF Turns
<1>6. \A q \in Reqs : ReqHolds(q)'
  <2>1. ASSUME NEW q \in Reqs \ {r} PROVE ReqHolds(q)'
    <3>1. req'[q].pc = "idle"
      BY <1>1, <1>3
    <3>2. QED
      BY <3>1 DEF ReqHolds
  <2>2. QED
    BY <2>1
<1>7. \A y \in Syncs : SyncHolds(y)'
  BY <1>1 DEF SyncHolds
<1>8. QED
  BY <1>4, <1>5, <1>6, <1>7 DEF Inv

LEMMA ReqOnly ==
  ASSUME Inv, NEW r \in Reqs, req[r].pc # "idle" \/ Quiet, NEW x \in Req,
         req' = [req EXCEPT ![r] = x], UNCHANGED <<tasks, jobs, sync, accepted, shipped>>,
         ReqHolds(r)'
  PROVE  Inv'
<1>1. tasks' \in Seq(Task) /\ jobs' \in Seq(Job) /\ accepted' \subseteq Orders
  BY DEF Inv, Typed
<1>2. TasksCovered' /\ JobsAnswered'
  BY DEF Inv, TasksCovered, JobOf, JobsAnswered
<1>3. QED
  BY <1>1, <1>2, ReqMoved

LEMMA IdleReqIs == IdleReq \in Req /\ IdleReq.pc = "idle"
BY DEF IdleReq, Req

LEMMA ReqReturns ==
  ASSUME Inv, NEW r \in Reqs, req[r].pc # "idle", Return(r),
         UNCHANGED <<tasks, jobs, sync, accepted, shipped>>
  PROVE  Inv'
<1>1. req' = [req EXCEPT ![r] = IdleReq]
  BY DEF Return
<1>2. req'[r].pc = "idle"
  BY <1>1, IdleReqIs DEF Inv, Typed
<1>3. ReqHolds(r)'
  BY <1>2 DEF ReqHolds
<1>4. QED
  BY <1>1, <1>3, IdleReqIs, ReqOnly

\* The state of a sync is a record of these three.
SyncState(x) == x = [pc |-> x.pc, rows |-> x.rows, seen |-> x.seen] /\ x.pc \in SyncPCs

LEMMA SyncIs ==
  ASSUME Typed, NEW y \in Syncs
  PROVE  SyncState(sync[y])
BY DEF Typed, SyncShape, SyncState

LEMMA SyncSet ==
  ASSUME SyncShape, NEW y \in Syncs, NEW x, SyncState(x), sync' = [sync EXCEPT ![y] = x]
  PROVE  SyncShape' /\ sync'[y] = x /\ \A z \in Syncs \ {y} : sync'[z] = sync[z]
<1>1. PICK V : sync \in [Syncs -> [pc: SyncPCs, rows: V, seen: V]]
  BY DEF SyncShape
<1> DEFINE W == V \cup {x.rows, x.seen}
<1>2. x \in [pc: SyncPCs, rows: W, seen: W]
  BY DEF SyncState
<1>3. \A z \in Syncs : sync[z] \in [pc: SyncPCs, rows: W, seen: W]
  <2>1. ASSUME NEW s \in [pc: SyncPCs, rows: V, seen: V] PROVE s \in [pc: SyncPCs, rows: W, seen: W]
    OBVIOUS
  <2>2. QED
    BY <1>1, <2>1
<1> HIDE DEF W
<1>4. sync' \in [Syncs -> [pc: SyncPCs, rows: W, seen: W]]
  BY <1>1, <1>2, <1>3
<1>5. QED
  BY <1>1, <1>4 DEF SyncShape

LEMMA SyncMoved ==
  ASSUME Inv, NEW y \in Syncs, sync[y].pc # "idle" \/ Quiet, NEW x, SyncState(x),
         sync' = [sync EXCEPT ![y] = x], UNCHANGED <<jobs, req, accepted>>,
         tasks' \in Seq(Task), shipped' \subseteq Orders \X Orders,
         TasksCovered', SyncHolds(y)'
  PROVE  Inv'
<1>1. /\ \A r \in Reqs : req[r].pc = "idle"
      /\ \A z \in Syncs \ {y} : sync[z].pc = "idle"
  BY SyncAlone DEF Inv
<1>2. SyncShape' /\ sync'[y] = x /\ \A z \in Syncs \ {y} : sync'[z] = sync[z]
  BY SyncSet DEF Inv, Typed
<1>3. Typed'
  BY <1>2 DEF Inv, Typed
<1>4. Turns'
  BY <1>1, <1>2 DEF Turns
<1>5. JobsAnswered'
  BY DEF Inv, JobsAnswered
<1>6. \A r \in Reqs : ReqHolds(r)'
  BY <1>1 DEF ReqHolds
<1>7. \A z \in Syncs : SyncHolds(z)'
  <2>1. ASSUME NEW z \in Syncs \ {y} PROVE SyncHolds(z)'
    <3>1. sync'[z].pc = "idle"
      BY <1>1, <1>2
    <3>2. QED
      BY <3>1 DEF SyncHolds
  <2>2. QED
    BY <2>1
<1>8. QED
  BY <1>3, <1>4, <1>5, <1>6, <1>7 DEF Inv

-----------------------------------------------------------------------------
(* CreateTask.                                                             *)

LEMMA MergedIs ==
  ASSUME NEW o, NEW A, NEW s
  PROVE  \A p : p \in mergePrintPayload(o, A, s) <=> p = o \/ \E t \in A \cup {s} : p \in tasks[t].orders
<1> DEFINE T == A \cup {s}
           S == {tasks[t].orders : t \in T}
           U == UNION S
<1>1. mergePrintPayload(o, A, s) = U \cup {o}
  BY DEF mergePrintPayload
<1> HIDE DEF T
<1>2. \A X : X \in S <=> \E t \in T : X = tasks[t].orders
  OBVIOUS
<1> HIDE DEF S
<1>3. \A p : p \in U <=> \E X \in S : p \in X
  OBVIOUS
<1> HIDE DEF U
<1>4. \A p : p \in mergePrintPayload(o, A, s) <=> p \in U \/ p = o
  BY <1>1
<1>5. \A p : p \in U <=> \E t \in T : p \in tasks[t].orders
  BY <1>2, <1>3
<1>6. QED
  BY <1>4, <1>5 DEF T

LEMMA BeginKeeps ==
  ASSUME Inv, Sequential, NEW r \in Reqs, NEW o \in Orders, BeginCreateTask(r, o)
  PROVE  Inv'
<1> DEFINE same == Mergeable(o)
           survivor == Min(same)
           absorb == same \ {survivor}
           alone == [IdleReq EXCEPT !.pc = "create", !.orders = {o}, !.new = {o}]
           merged == [pc |-> "update", new |-> {o}, survivor |-> survivor, absorb |-> absorb,
                      orders |-> mergePrintPayload(o, absorb, survivor)]
<1>1. Quiet /\ UNCHANGED <<tasks, jobs, sync, accepted, shipped>>
  BY DEF BeginCreateTask, MayStart, Sequential
<1>2. req' = [req EXCEPT ![r] = IF same = {} THEN alone ELSE merged]
  BY DEF BeginCreateTask
<1>3. DOMAIN tasks \subseteq Nat /\ \A t \in DOMAIN tasks : tasks[t] \in Task
  BY Places DEF Inv
<1>4. same \subseteq DOMAIN tasks /\ \A t \in same : tasks[t].status = "pending"
  BY DEF Mergeable
<1>5. req \in [Reqs -> Req]
  BY DEF Inv, Typed
<1>6. CASE same = {}
  <2>1. alone \in Req /\ alone.pc = "create" /\ alone.orders = alone.new
    BY DEF IdleReq, Req
  <2>2. req' = [req EXCEPT ![r] = alone]
    BY <1>2, <1>6
  <2> HIDE DEF alone
  <2>3. req'[r] = alone
    BY <1>5, <2>2
  <2>4. ReqHolds(r)'
    BY <2>1, <2>3 DEF ReqHolds
  <2>5. QED
    BY <1>1, <2>1, <2>2, <2>4, ReqOnly
<1>7. CASE same # {}
  <2> HIDE DEF same
  <2>1. survivor \in same
    BY <1>3, <1>4, <1>7, MinIn
  <2> HIDE DEF survivor
  <2> DEFINE all == mergePrintPayload(o, absorb, survivor)
  <2>2. all \subseteq Orders /\ o \in all /\ \A t \in same : tasks[t].orders \subseteq all
    <3>1. \A p : p \in all <=> p = o \/ \E t \in same : p \in tasks[t].orders
      BY <2>1, MergedIs
    <3>2. \A t \in same : tasks[t].orders \subseteq Orders
      BY <1>3, <1>4 DEF Task
    <3> HIDE DEF all
    <3>3. QED
      BY <3>1, <3>2
  <2>3. absorb \subseteq same \ {survivor} /\ absorb \in SUBSET Nat /\ survivor \in Nat
    BY <1>3, <1>4, <2>1
  <2> HIDE DEF all, absorb
  <2>4. /\ merged \in Req /\ merged.pc = "update" /\ merged.survivor = survivor
        /\ merged.absorb = absorb /\ merged.orders = all /\ merged.new = {o}
    BY <2>2, <2>3 DEF Req, all
  <2>5. req' = [req EXCEPT ![r] = merged]
    BY <1>2, <1>7
  <2> HIDE DEF merged
  <2>6. req'[r] = merged
    BY <1>5, <2>4, <2>5
  <2>7. /\ survivor \in DOMAIN tasks /\ tasks[survivor].status = "pending"
        /\ absorb \subseteq DOMAIN tasks \ {survivor}
        /\ \A t \in absorb : tasks[t].status = "pending" /\ tasks[t].orders \subseteq all
        /\ tasks[survivor].orders \subseteq all
    BY <1>4, <2>1, <2>2, <2>3
  <2>8. ReqHolds(r)'
    BY <1>1, <2>2, <2>4, <2>6, <2>7 DEF ReqHolds
  <2>9. QED
    BY <1>1, <2>4, <2>5, <2>8, ReqOnly
<1>8. QED
  BY <1>6, <1>7

\* The order that could not be merged gets a job of its own.
LEMMA OwnJob ==
  ASSUME Inv, NEW r \in Reqs, req[r].pc = "update"
  PROVE  LET x == [IdleReq EXCEPT !.pc = "create", !.orders = req[r].new, !.new = req[r].new] IN
         x \in Req /\ x.pc = "create" /\ x.orders = x.new
BY DEF Inv, Typed, Req, IdleReq

\* New parameters for a pending job cover its task, and no other task's job is
\* this one.
LEMMA UpdateCovers ==
  ASSUME Inv, NEW r \in Reqs, req[r].pc = "update", NEW j, j = tasks[req[r].survivor].job,
         jobs[j].status = "pending", jobs' = [jobs EXCEPT ![j].params = req[r].orders],
         UNCHANGED <<tasks, accepted>>
  PROVE  /\ jobs' \in Seq(Job) /\ TasksCovered' /\ JobsAnswered'
         /\ jobs'[j].params = req[r].orders
<1>1. /\ req[r].survivor \in DOMAIN tasks /\ tasks[req[r].survivor].orders \subseteq req[r].orders
      /\ req[r].orders \subseteq Orders
  BY DEF Inv, ReqHolds, Typed, Req
<1>2. j \in DOMAIN jobs /\ jobs[j] \in Job /\ jobs \in Seq(Job)
  BY <1>1, Places DEF Inv, TasksCovered, Typed
<1> DEFINE x == [jobs[j] EXCEPT !.params = req[r].orders]
<1>3. /\ x \in Job /\ x.status = "pending" /\ x.mail = jobs[j].mail
      /\ x.params = req[r].orders
  BY <1>1, <1>2 DEF Job
<1>4. jobs' = [jobs EXCEPT ![j] = x]
  BY <1>2
<1> HIDE DEF x
<1>5. /\ jobs' \in Seq(Job) /\ DOMAIN jobs' = DOMAIN jobs /\ jobs'[j] = x
      /\ \A k \in DOMAIN jobs \ {j} : jobs'[k] = jobs[k]
  BY <1>2, <1>3, <1>4, Changed
<1>6. \A t \in DOMAIN tasks : tasks[t].job = j <=> t = req[r].survivor
  BY <1>1 DEF Inv, TasksCovered
<1>7. \A t \in DOMAIN tasks : tasks[t].job \in DOMAIN jobs
  BY DEF Inv, TasksCovered
<1>8. \A t \in DOMAIN tasks : tasks[t].status # "cancelled" =>
        jobs'[tasks[t].job].status # "cancelled" /\ tasks[t].orders \subseteq jobs'[tasks[t].job].params
  BY <1>1, <1>3, <1>5, <1>6, <1>7 DEF Inv, TasksCovered, JobOf
<1>9. \A t \in DOMAIN tasks : tasks[t].status = "done" => jobs'[tasks[t].job].status = "succeeded"
  BY <1>1, <1>5, <1>6, <1>7 DEF Inv, TasksCovered, JobOf
<1>10. TasksCovered'
  <2>1. /\ \A t \in DOMAIN tasks : tasks[t].job \in DOMAIN jobs'
        /\ \A t, u \in DOMAIN tasks : t # u => tasks[t].job # tasks[u].job
    BY <1>5, <1>7 DEF Inv, TasksCovered
  <2>2. \A o \in accepted : \E t \in DOMAIN tasks :
          tasks[t].status # "cancelled" /\ o \in tasks[t].orders
    BY DEF Inv, TasksCovered
  <2>3. tasks' = tasks /\ accepted' = accepted
    OBVIOUS
  <2>4. QED
    BY <1>8, <1>9, <2>1, <2>2, <2>3 DEF TasksCovered, JobOf
<1>11. JobsAnswered'
  BY <1>2, <1>3, <1>5 DEF Inv, JobsAnswered
<1>12. QED
  BY <1>3, <1>5, <1>10, <1>11

LEMMA UpdateKeeps ==
  ASSUME Inv, NEW r \in Reqs, UpdatePendingJobParams(r)
  PROVE  Inv'
<1> DEFINE j == tasks[req[r].survivor].job
           own == [IdleReq EXCEPT !.pc = "create", !.orders = req[r].new, !.new = req[r].new]
           x == [req[r] EXCEPT !.pc = "write"]
<1>1. /\ req[r].pc = "update" /\ req \in [Reqs -> Req] /\ req[r] \in Req
      /\ UNCHANGED <<tasks, sync, accepted, shipped>>
  BY DEF UpdatePendingJobParams, Inv, Typed
<1>2. own \in Req /\ own.pc = "create" /\ own.orders = own.new
  BY <1>1, OwnJob
<1>3. \/ /\ jobs[j].status = "pending" /\ jobs' = [jobs EXCEPT ![j].params = req[r].orders]
         /\ req' = [req EXCEPT ![r] = x] \/ req' = [req EXCEPT ![r] = own]
      \/ req' = [req EXCEPT ![r] = own] /\ UNCHANGED jobs
  BY <1>1 DEF UpdatePendingJobParams
<1>4. ASSUME req' = [req EXCEPT ![r] = own] PROVE ReqHolds(r)'
  <2> HIDE DEF own
  <2>1. req'[r] = own
    BY <1>1, <1>2, <1>4
  <2>2. QED
    BY <1>2, <2>1 DEF ReqHolds
<1>5. CASE req' = [req EXCEPT ![r] = own] /\ UNCHANGED jobs
  <2> HIDE DEF own
  <2>1. QED
    BY <1>1, <1>2, <1>4, <1>5, ReqOnly
<1>6. CASE /\ jobs[j].status = "pending" /\ jobs' = [jobs EXCEPT ![j].params = req[r].orders]
           /\ req' = [req EXCEPT ![r] = x] \/ req' = [req EXCEPT ![r] = own]
  <2>1. /\ jobs' \in Seq(Job) /\ TasksCovered' /\ JobsAnswered'
        /\ jobs'[j].params = req[r].orders
    BY <1>1, <1>6, UpdateCovers
  <2>2. tasks' \in Seq(Task) /\ accepted' \subseteq Orders
    BY <1>1 DEF Inv, Typed
  <2>3. CASE req' = [req EXCEPT ![r] = own]
    <3> HIDE DEF own, j
    <3>1. QED
      BY <1>1, <1>2, <1>4, <2>1, <2>2, <2>3, ReqMoved
  <2>4. CASE req' = [req EXCEPT ![r] = x]
    <3>1. /\ x \in Req /\ x.pc = "write" /\ x.survivor = req[r].survivor
          /\ x.absorb = req[r].absorb /\ x.orders = req[r].orders /\ x.new = req[r].new
      BY <1>1 DEF Req
    <3> HIDE DEF x
    <3>2. req'[r] = x
      BY <1>1, <2>4, <3>1
    <3>3. ReqHolds(r)
      BY DEF Inv
    <3>4. ReqHolds(r)'
      BY <1>1, <2>1, <3>1, <3>2, <3>3 DEF ReqHolds, JobOf
    <3> HIDE DEF j
    <3>5. QED
      BY <1>1, <2>1, <2>2, <2>4, <3>1, <3>4, ReqMoved
  <2>5. QED
    BY <1>6, <2>3, <2>4
<1>7. QED
  BY <1>3, <1>5, <1>6

\* The survivor takes the orders of the tasks that are cancelled.
LEMMA WriteCovers ==
  ASSUME Inv, NEW r \in Reqs, req[r].pc = "write", UNCHANGED <<jobs, accepted>>,
         NEW s, s = req[r].survivor,
         tasks' = IF tasks[s].status # "pending" THEN tasks
                  ELSE [t \in DOMAIN tasks |->
                    IF t = s THEN [tasks[t] EXCEPT !.orders = req[r].orders]
                    ELSE IF t \in req[r].absorb /\ tasks[t].status = "pending"
                         THEN [tasks[t] EXCEPT !.status = "cancelled"] ELSE tasks[t]]
  PROVE  /\ tasks' \in Seq(Task) /\ TasksCovered' /\ DOMAIN tasks' = DOMAIN tasks
         /\ tasks'[s].status = "pending" /\ tasks'[s].orders = req[r].orders
         /\ \A t \in req[r].absorb : tasks'[t].status = "cancelled"
         /\ \A t \in DOMAIN tasks : tasks'[t].job = tasks[t].job
<1> DEFINE a == req[r].absorb
           orders == req[r].orders
           new(t) == IF t = s THEN [tasks[t] EXCEPT !.orders = orders]
                     ELSE IF t \in a /\ tasks[t].status = "pending"
                          THEN [tasks[t] EXCEPT !.status = "cancelled"] ELSE tasks[t]
<1>1. /\ s \in DOMAIN tasks /\ tasks[s].status = "pending" /\ a \subseteq DOMAIN tasks \ {s}
      /\ \A t \in a : tasks[t].status = "pending" /\ tasks[t].orders \subseteq orders
      /\ tasks[s].orders \subseteq orders /\ jobs[tasks[s].job].params = orders
      /\ orders \subseteq Orders
  BY DEF Inv, ReqHolds, JobOf, Typed, Req
<1>2. tasks' = [t \in DOMAIN tasks |-> new(t)]
  BY <1>1
<1>3. tasks \in Seq(Task) /\ \A t \in DOMAIN tasks : tasks[t] \in Task
  BY Places DEF Inv, Typed
<1>4. \A t \in DOMAIN tasks :
        /\ new(t) \in Task /\ new(t).job = tasks[t].job
        /\ new(t).status = IF t \in a THEN "cancelled" ELSE tasks[t].status
        /\ new(t).orders = IF t = s THEN orders ELSE tasks[t].orders
  BY <1>1, <1>3 DEF Task, TaskStatuses
<1> HIDE DEF new, a, orders
<1>5. tasks' \in [DOMAIN tasks -> Task] /\ DOMAIN tasks' = DOMAIN tasks
  BY <1>2, <1>4
<1>6. tasks' \in Seq(Task)
  BY <1>3, <1>5, Mapped
<1>7. \A t \in DOMAIN tasks :
        /\ tasks'[t].job = tasks[t].job
        /\ tasks'[t].status = IF t \in a THEN "cancelled" ELSE tasks[t].status
        /\ tasks'[t].orders = IF t = s THEN orders ELSE tasks[t].orders
  BY <1>2, <1>4
<1>8. /\ \A t \in DOMAIN tasks : tasks[t].job \in DOMAIN jobs
      /\ \A t, u \in DOMAIN tasks : t # u => tasks[t].job # tasks[u].job
      /\ \A t \in DOMAIN tasks : tasks[t].status # "cancelled" =>
           jobs[tasks[t].job].status # "cancelled"
           /\ tasks[t].orders \subseteq jobs[tasks[t].job].params
      /\ \A t \in DOMAIN tasks : tasks[t].status = "done" => jobs[tasks[t].job].status = "succeeded"
      /\ \A o \in accepted : \E t \in DOMAIN tasks :
           tasks[t].status # "cancelled" /\ o \in tasks[t].orders
  BY DEF Inv, TasksCovered, JobOf
<1>9. \A o \in accepted : \E t \in DOMAIN tasks :
        tasks'[t].status # "cancelled" /\ o \in tasks'[t].orders
  <2> SUFFICES ASSUME NEW o \in accepted
               PROVE  \E t \in DOMAIN tasks : tasks'[t].status # "cancelled" /\ o \in tasks'[t].orders
    OBVIOUS
  <2>1. PICK t \in DOMAIN tasks : tasks[t].status # "cancelled" /\ o \in tasks[t].orders
    BY <1>8
  <2>2. CASE t \in a \cup {s}
    <3>1. o \in orders
      BY <1>1, <2>1, <2>2 DEF a, orders
    <3>2. s \in DOMAIN tasks /\ s \notin a /\ tasks[s].status = "pending"
      BY <1>1 DEF a
    <3>3. QED
      BY <1>7, <3>1, <3>2
  <2>3. CASE t \notin a \cup {s}
    BY <1>7, <2>1, <2>3
  <2>4. QED
    BY <2>2, <2>3
<1>10. \A t \in DOMAIN tasks : tasks'[t].status # "cancelled" =>
         jobs[tasks[t].job].status # "cancelled" /\ tasks'[t].orders \subseteq jobs[tasks[t].job].params
  <2> SUFFICES ASSUME NEW t \in DOMAIN tasks, tasks'[t].status # "cancelled"
               PROVE  /\ jobs[tasks[t].job].status # "cancelled"
                      /\ tasks'[t].orders \subseteq jobs[tasks[t].job].params
    OBVIOUS
  <2>1. tasks[t].status # "cancelled"
    BY <1>7
  <2>2. tasks'[t].orders = tasks[t].orders \/ (t = s /\ tasks'[t].orders = orders)
    BY <1>7
  <2>3. jobs[tasks[s].job].params = orders
    BY <1>1 DEF orders
  <2>4. QED
    BY <1>8, <2>1, <2>2, <2>3
<1>11. TasksCovered'
  BY <1>5, <1>7, <1>8, <1>9, <1>10 DEF TasksCovered, JobOf
<1>12. \A t \in a : tasks'[t].status = "cancelled"
  BY <1>1, <1>7 DEF a
<1>13. tasks'[s].status = "pending" /\ tasks'[s].orders = orders
  BY <1>1, <1>7 DEF a
<1>14. QED
  BY <1>5, <1>6, <1>7, <1>11, <1>12, <1>13 DEF a, orders

LEMMA WriteKeeps ==
  ASSUME Inv, NEW r \in Reqs, WriteMerged(r)
  PROVE  Inv'
<1>1. /\ req[r].pc = "write" /\ req \in [Reqs -> Req] /\ req[r] \in Req
      /\ UNCHANGED <<jobs, sync, accepted, shipped>>
  BY DEF WriteMerged, Inv, Typed
<1>2. CASE Return(r) /\ UNCHANGED tasks
  BY <1>1, <1>2, ReqReturns
<1> DEFINE s == req[r].survivor
           x == [req[r] EXCEPT !.pc = "cancel"]
<1>3. CASE /\ tasks' = IF tasks[s].status # "pending" THEN tasks
                       ELSE [t \in DOMAIN tasks |->
                         IF t = s THEN [tasks[t] EXCEPT !.orders = req[r].orders]
                         ELSE IF t \in req[r].absorb /\ tasks[t].status = "pending"
                              THEN [tasks[t] EXCEPT !.status = "cancelled"] ELSE tasks[t]]
           /\ req' = [req EXCEPT ![r].pc = "cancel"]
  <2>1. /\ tasks' \in Seq(Task) /\ TasksCovered' /\ DOMAIN tasks' = DOMAIN tasks
        /\ tasks'[s].status = "pending" /\ tasks'[s].orders = req[r].orders
        /\ \A t \in req[r].absorb : tasks'[t].status = "cancelled"
    BY <1>1, <1>3, WriteCovers
  <2>2. /\ x \in Req /\ x.pc = "cancel" /\ x.survivor = req[r].survivor
        /\ x.absorb = req[r].absorb /\ x.new = req[r].new
    BY <1>1 DEF Req
  <2>3. req' = [req EXCEPT ![r] = x]
    BY <1>1, <1>3
  <2> HIDE DEF x
  <2>4. req'[r] = x
    BY <1>1, <2>2, <2>3
  <2>5. s \in DOMAIN tasks /\ req[r].absorb \subseteq DOMAIN tasks /\ req[r].new \subseteq req[r].orders
    BY <1>1 DEF Inv, ReqHolds
  <2>6. ReqHolds(r)'
    BY <2>1, <2>2, <2>4, <2>5 DEF ReqHolds
  <2>7. jobs' \in Seq(Job) /\ accepted' \subseteq Orders /\ JobsAnswered'
    BY <1>1 DEF Inv, Typed, JobsAnswered
  <2>8. QED
    BY <1>1, <2>1, <2>2, <2>3, <2>6, <2>7, ReqMoved
<1>4. QED
  BY <1>2, <1>3 DEF WriteMerged

\* Cancelling the job of a cancelled task takes nothing from the others.
LEMMA CancelCovers ==
  ASSUME Inv, NEW t \in DOMAIN tasks, tasks[t].status = "cancelled", NEW j, j = tasks[t].job,
         jobs[j].status = "pending", jobs' = [jobs EXCEPT ![j].status = "cancelled"],
         UNCHANGED <<tasks, accepted>>
  PROVE  jobs' \in Seq(Job) /\ TasksCovered' /\ JobsAnswered'
<1>1. j \in DOMAIN jobs /\ jobs[j] \in Job /\ jobs \in Seq(Job)
  BY Places DEF Inv, TasksCovered, Typed
<1> DEFINE x == [jobs[j] EXCEPT !.status = "cancelled"]
<1>2. x \in Job /\ x.mail = jobs[j].mail
  BY <1>1 DEF Job, JobStatuses
<1>3. jobs' = [jobs EXCEPT ![j] = x]
  BY <1>1
<1> HIDE DEF x
<1>4. /\ jobs' \in Seq(Job) /\ DOMAIN jobs' = DOMAIN jobs /\ jobs'[j] = x
      /\ \A k \in DOMAIN jobs \ {j} : jobs'[k] = jobs[k]
  BY <1>1, <1>2, <1>3, Changed
<1>5. \A u \in DOMAIN tasks : tasks[u].status # "cancelled" =>
        tasks[u].job \in DOMAIN jobs /\ jobs'[tasks[u].job] = jobs[tasks[u].job]
  BY <1>4 DEF Inv, TasksCovered
<1>6. TasksCovered'
  BY <1>4, <1>5 DEF Inv, TasksCovered, JobOf
<1>7. JobsAnswered'
  BY <1>1, <1>2, <1>4 DEF Inv, JobsAnswered
<1>8. QED
  BY <1>4, <1>6, <1>7

LEMMA CancelKeeps ==
  ASSUME Inv, NEW r \in Reqs, CancelPendingJob(r)
  PROVE  Inv'
<1>1. /\ req[r].pc = "cancel" /\ req \in [Reqs -> Req] /\ req[r] \in Req /\ ReqHolds(r)
      /\ UNCHANGED <<tasks, sync, shipped>>
  BY DEF CancelPendingJob, Inv, Typed
<1>2. /\ req[r].survivor \in DOMAIN tasks /\ tasks[req[r].survivor].status # "cancelled"
      /\ req[r].new \subseteq tasks[req[r].survivor].orders /\ req[r].new \subseteq Orders
      /\ req[r].absorb \subseteq DOMAIN tasks /\ \A t \in req[r].absorb : tasks[t].status = "cancelled"
  BY <1>1 DEF ReqHolds, Req
<1>3. CASE req[r].absorb = {}
  <2>1. /\ accepted' = accepted \cup req[r].new /\ req' = [req EXCEPT ![r] = IdleReq]
        /\ UNCHANGED jobs
    BY <1>3 DEF CancelPendingJob, Accept, Return
  <2>2. req'[r].pc = "idle"
    BY <1>1, <2>1, IdleReqIs
  <2>3. ReqHolds(r)'
    BY <2>2 DEF ReqHolds
  <2>4. \A o \in accepted' : \E t \in DOMAIN tasks :
          tasks[t].status # "cancelled" /\ o \in tasks[t].orders
    BY <1>2, <2>1 DEF Inv, TasksCovered
  <2>5. TasksCovered' /\ JobsAnswered'
    BY <1>1, <2>1, <2>4 DEF Inv, TasksCovered, JobOf, JobsAnswered
  <2>6. tasks' \in Seq(Task) /\ jobs' \in Seq(Job) /\ accepted' \subseteq Orders
    BY <1>1, <1>2, <2>1 DEF Inv, Typed
  <2>7. QED
    BY <1>1, <2>1, <2>3, <2>5, <2>6, IdleReqIs, ReqMoved
<1>4. CASE req[r].absorb # {}
  <2> DEFINE t == Min(req[r].absorb)
             j == tasks[t].job
             x == [req[r] EXCEPT !.absorb = req[r].absorb \ {t}]
  <2>1. /\ \/ jobs[j].status = "pending" /\ jobs' = [jobs EXCEPT ![j].status = "cancelled"]
           \/ UNCHANGED jobs
        /\ req' = [req EXCEPT ![r].absorb = @ \ {t}] /\ UNCHANGED accepted
    BY <1>4 DEF CancelPendingJob
  <2>2. t \in req[r].absorb
    BY <1>1, <1>4, MinIn DEF Req
  <2>3. /\ x \in Req /\ x.pc = "cancel" /\ x.survivor = req[r].survivor /\ x.new = req[r].new
        /\ x.absorb \subseteq req[r].absorb
    BY <1>1 DEF Req
  <2>4. req' = [req EXCEPT ![r] = x]
    BY <1>1, <2>1
  <2> HIDE DEF x
  <2>5. req'[r] = x
    BY <1>1, <2>3, <2>4
  <2>6. ReqHolds(r)'
    BY <1>1, <1>2, <2>3, <2>5 DEF ReqHolds
  <2>7. jobs' \in Seq(Job) /\ TasksCovered' /\ JobsAnswered'
    <3>1. CASE UNCHANGED jobs
      BY <1>1, <2>1, <3>1 DEF Inv, Typed, TasksCovered, JobOf, JobsAnswered
    <3>2. CASE jobs[j].status = "pending" /\ jobs' = [jobs EXCEPT ![j].status = "cancelled"]
      <4>1. t \in DOMAIN tasks /\ tasks[t].status = "cancelled"
        BY <1>2, <2>2
      <4>2. QED
        BY <1>1, <2>1, <3>2, <4>1, CancelCovers
    <3>3. QED
      BY <2>1, <3>1, <3>2
  <2>8. tasks' \in Seq(Task) /\ accepted' \subseteq Orders
    BY <1>1, <2>1 DEF Inv, Typed
  <2>9. QED
    BY <1>1, <2>3, <2>4, <2>6, <2>7, <2>8, ReqMoved
<1>5. QED
  BY <1>3, <1>4

\* The new job is nobody's task's yet.
LEMMA CreateKeeps ==
  ASSUME Inv, NEW r \in Reqs, CreateTargetedJob(r)
  PROVE  Inv'
<1>1. /\ req[r].pc = "create" /\ req \in [Reqs -> Req] /\ req[r] \in Req
      /\ jobs \in Seq(Job) /\ req[r].orders = req[r].new
      /\ UNCHANGED <<tasks, sync, accepted, shipped>>
  BY DEF CreateTargetedJob, Inv, Typed, ReqHolds
<1> DEFINE e == [status |-> "pending", params |-> req[r].orders, mail |-> NoMail]
           n == Len(jobs) + 1
           x == [req[r] EXCEPT !.pc = "save", !.survivor = n]
<1>2. CASE Return(r) /\ UNCHANGED jobs
  BY <1>1, <1>2, ReqReturns
<1>3. CASE jobs' = Append(jobs, e)
  <2>1. e \in Job /\ e.status = "pending" /\ e.params = req[r].orders /\ e.mail = NoMail
    BY <1>1 DEF Job, JobStatuses, Req
  <2> HIDE DEF e
  <2>2. /\ jobs' \in Seq(Job) /\ n \in Nat /\ n \notin DOMAIN jobs
        /\ DOMAIN jobs' = DOMAIN jobs \cup {n} /\ jobs'[n] = e
        /\ \A i \in DOMAIN jobs : jobs'[i] = jobs[i]
    BY <1>1, <1>3, <2>1, Appended
  <2>3. \A t \in DOMAIN tasks : tasks[t].job \in DOMAIN jobs
    BY DEF Inv, TasksCovered
  <2>4. TasksCovered'
    BY <1>1, <2>2, <2>3 DEF Inv, TasksCovered, JobOf
  <2>5. JobsAnswered'
    BY <2>1, <2>2 DEF Inv, JobsAnswered
  <2>6. tasks' \in Seq(Task) /\ accepted' \subseteq Orders
    BY <1>1 DEF Inv, Typed
  <2>7. CASE Return(r)
    <3>1. req' = [req EXCEPT ![r] = IdleReq]
      BY <2>7 DEF Return
    <3>2. req'[r].pc = "idle"
      BY <1>1, <3>1, IdleReqIs
    <3>3. ReqHolds(r)'
      BY <3>2 DEF ReqHolds
    <3>4. QED
      BY <1>1, <2>2, <2>4, <2>5, <2>6, <3>1, <3>3, IdleReqIs, ReqMoved
  <2>8. CASE req' = [req EXCEPT ![r].pc = "save", ![r].survivor = n]
    <3> HIDE DEF n
    <3>1. /\ x \in Req /\ x.pc = "save" /\ x.survivor = n
          /\ x.orders = req[r].orders /\ x.new = req[r].new
      BY <1>1, <2>2 DEF Req
    <3>2. req' = [req EXCEPT ![r] = x]
      BY <1>1, <2>8
    <3> HIDE DEF x
    <3>3. req'[r] = x
      BY <1>1, <3>1, <3>2
    <3>4. ReqHolds(r)'
      BY <1>1, <2>1, <2>2, <2>3, <3>1, <3>3 DEF ReqHolds
    <3>5. QED
      BY <1>1, <2>2, <2>4, <2>5, <2>6, <3>1, <3>2, <3>4, ReqMoved
  <2>9. QED
    BY <1>3, <2>7, <2>8 DEF CreateTargetedJob, e
<1>4. QED
  BY <1>1, <1>2, <1>3 DEF CreateTargetedJob

LEMMA SaveKeeps ==
  ASSUME Inv, NEW r \in Reqs, SaveTask(r)
  PROVE  Inv'
<1>1. /\ req[r].pc = "save" /\ req \in [Reqs -> Req] /\ req[r] \in Req
      /\ tasks \in Seq(Task) /\ req[r].orders = req[r].new
      /\ UNCHANGED <<jobs, sync, shipped>>
  BY DEF SaveTask, Inv, Typed, ReqHolds
<1> DEFINE e == [status |-> "pending", orders |-> req[r].orders, job |-> req[r].survivor,
                 confirmed |-> FALSE]
           n == Len(tasks) + 1
<1>2. CASE Return(r) /\ UNCHANGED <<tasks, accepted>>
  BY <1>1, <1>2, ReqReturns
<1>3. CASE tasks' = Append(tasks, e) /\ Accept(r)
  <2>1. /\ e \in Task /\ e.status = "pending" /\ e.orders = req[r].orders
        /\ e.job = req[r].survivor
    BY <1>1 DEF Task, TaskStatuses, Req
  <2> HIDE DEF e
  <2>2. /\ tasks' \in Seq(Task) /\ n \notin DOMAIN tasks
        /\ DOMAIN tasks' = DOMAIN tasks \cup {n} /\ tasks'[n] = e
        /\ \A i \in DOMAIN tasks : tasks'[i] = tasks[i]
    BY <1>1, <1>3, <2>1, Appended
  <2> HIDE DEF n
  <2>3. accepted' = accepted \cup req[r].new /\ req' = [req EXCEPT ![r] = IdleReq]
    BY <1>3 DEF Accept, Return
  <2>4. /\ req[r].survivor \in DOMAIN jobs /\ jobs[req[r].survivor].status # "cancelled"
        /\ jobs[req[r].survivor].params = req[r].orders
        /\ \A t \in DOMAIN tasks : tasks[t].job # req[r].survivor
    BY <1>1 DEF Inv, ReqHolds
  <2>5. \A o \in accepted' : \E t \in DOMAIN tasks' :
          tasks'[t].status # "cancelled" /\ o \in tasks'[t].orders
    BY <1>1, <2>1, <2>2, <2>3 DEF Inv, TasksCovered
  <2>6. \A t \in DOMAIN tasks' : tasks'[t].job \in DOMAIN jobs
    BY <2>1, <2>2, <2>4 DEF Inv, TasksCovered
  <2>7. \A t, u \in DOMAIN tasks' : t # u => tasks'[t].job # tasks'[u].job
    BY <2>1, <2>2, <2>4 DEF Inv, TasksCovered
  <2>8. \A t \in DOMAIN tasks' :
          /\ tasks'[t].status # "cancelled" =>
               jobs[tasks'[t].job].status # "cancelled"
               /\ tasks'[t].orders \subseteq jobs[tasks'[t].job].params
          /\ tasks'[t].status = "done" => jobs[tasks'[t].job].status = "succeeded"
    BY <2>1, <2>2, <2>4 DEF Inv, TasksCovered, JobOf
  <2>9. TasksCovered'
    BY <1>1, <2>5, <2>6, <2>7, <2>8 DEF TasksCovered, JobOf
  <2>10. req'[r].pc = "idle"
    BY <1>1, <2>3, IdleReqIs
  <2>11. ReqHolds(r)'
    BY <2>10 DEF ReqHolds
  <2>12. jobs' \in Seq(Job) /\ accepted' \subseteq Orders /\ JobsAnswered'
    BY <1>1, <2>3 DEF Inv, Typed, JobsAnswered, Req
  <2>13. QED
    BY <1>1, <2>2, <2>3, <2>9, <2>11, <2>12, IdleReqIs, ReqMoved
<1>4. QED
  BY <1>2, <1>3 DEF SaveTask

-----------------------------------------------------------------------------
(* The print machine: it may act at any time.                              *)

LEMMA AgentKeeps ==
  ASSUME Inv, NEW j \in DOMAIN jobs, NEW x \in Job,
         jobs[j].status \in {"pending", "running"}, x.status # "cancelled",
         x.params = jobs[j].params,
         x.mail # NoMail => x.status = "succeeded" /\ x.mail \in x.params,
         jobs' = [jobs EXCEPT ![j] = x], UNCHANGED <<tasks, req, sync, accepted, shipped>>
  PROVE  Inv'
<1>1. jobs \in Seq(Job)
  BY DEF Inv, Typed
<1>2. /\ jobs' \in Seq(Job) /\ DOMAIN jobs' = DOMAIN jobs /\ jobs'[j] = x
      /\ \A k \in DOMAIN jobs \ {j} : jobs'[k] = jobs[k]
  BY <1>1, Changed
<1>3. \A k \in DOMAIN jobs :
        /\ jobs'[k].params = jobs[k].params
        /\ jobs[k].status # "cancelled" => jobs'[k].status # "cancelled"
        /\ jobs[k].status = "succeeded" => jobs'[k] = jobs[k]
  BY <1>2
<1>4. Typed'
  BY <1>2 DEF Inv, Typed, SyncShape
<1>5. Turns'
  BY DEF Inv, Turns
<1>6. TasksCovered'
  <2>1. \A t \in DOMAIN tasks : tasks[t].job \in DOMAIN jobs
    BY DEF Inv, TasksCovered
  <2>2. QED
    BY <1>2, <1>3, <2>1 DEF Inv, TasksCovered, JobOf
<1>7. JobsAnswered'
  BY <1>2 DEF Inv, JobsAnswered
<1>8. \A r \in Reqs : ReqHolds(r)'
  <2> SUFFICES ASSUME NEW r \in Reqs PROVE ReqHolds(r)'
    OBVIOUS
  <2>1. ReqHolds(r) /\ \A t \in DOMAIN tasks : tasks[t].job \in DOMAIN jobs
    BY DEF Inv, TasksCovered
  <2>2. QED
    BY <1>2, <1>3, <2>1 DEF ReqHolds, JobOf
<1>9. \A y \in Syncs : SyncHolds(y)'
  <2> SUFFICES ASSUME NEW y \in Syncs PROVE SyncHolds(y)'
    OBVIOUS
  <2>1. SyncHolds(y) /\ \A t \in DOMAIN tasks : tasks[t].job \in DOMAIN jobs
    BY DEF Inv, TasksCovered
  <2>2. Current(y)' = Current(y)
    BY DEF Current, Max
  <2>3. QED
    BY <1>3, <2>1, <2>2 DEF SyncHolds, JobOf, AutoConfirms
<1>10. QED
  BY <1>4, <1>5, <1>6, <1>7, <1>8, <1>9 DEF Inv

LEMMA ClaimsKeeps ==
  ASSUME Inv, NEW j \in DOMAIN jobs, AgentClaims(j)
  PROVE  Inv'
<1> DEFINE x == [jobs[j] EXCEPT !.status = "running"]
<1>1. jobs[j] \in Job /\ jobs[j].status = "pending" /\ (jobs[j].mail # NoMail => FALSE)
  BY Places DEF Inv, AgentClaims, JobsAnswered
<1>2. x \in Job /\ x.status = "running" /\ x.params = jobs[j].params /\ x.mail = jobs[j].mail
  BY <1>1 DEF Job, JobStatuses
<1>3. jobs' = [jobs EXCEPT ![j] = x] /\ UNCHANGED <<tasks, req, sync, accepted, shipped>>
  BY DEF AgentClaims
<1> HIDE DEF x
<1>4. QED
  BY <1>1, <1>2, <1>3, AgentKeeps

LEMMA FinishesKeeps ==
  ASSUME Inv, NEW j \in DOMAIN jobs, AgentFinishes(j)
  PROVE  Inv'
<1>1. /\ jobs[j] \in Job /\ jobs[j].status = "running" /\ (jobs[j].mail # NoMail => FALSE)
      /\ UNCHANGED <<tasks, req, sync, accepted, shipped>>
  BY Places DEF Inv, AgentFinishes, JobsAnswered
<1>2. CASE jobs' = [jobs EXCEPT ![j].status = "failed"]
  <2> DEFINE x == [jobs[j] EXCEPT !.status = "failed"]
  <2>1. x \in Job /\ x.status = "failed" /\ x.params = jobs[j].params /\ x.mail = jobs[j].mail
    BY <1>1 DEF Job, JobStatuses
  <2>2. jobs' = [jobs EXCEPT ![j] = x]
    BY <1>2
  <2> HIDE DEF x
  <2>3. QED
    BY <1>1, <2>1, <2>2, AgentKeeps
<1>3. ASSUME NEW m \in jobs[j].params \cup {NoMail},
             jobs' = [jobs EXCEPT ![j].status = "succeeded", ![j].mail = m]
      PROVE  Inv'
  <2> DEFINE x == [jobs[j] EXCEPT !.status = "succeeded", !.mail = m]
  <2>1. m \in Orders \cup {NoMail}
    BY <1>1 DEF Job
  <2>2. x \in Job /\ x.status = "succeeded" /\ x.params = jobs[j].params /\ x.mail = m
    BY <1>1, <2>1 DEF Job, JobStatuses
  <2>3. jobs' = [jobs EXCEPT ![j] = x]
    BY <1>3
  <2> HIDE DEF x
  <2>4. QED
    BY <1>1, <2>2, <2>3, AgentKeeps
<1>4. QED
  BY <1>2, <1>3 DEF AgentFinishes

-----------------------------------------------------------------------------
(* Polls and listings.                                                     *)

LEMMA ReadKeeps ==
  ASSUME Inv, Sequential, NEW y \in Syncs, SyncRead(y)
  PROVE  Inv'
<1> DEFINE read == IF y \in Pollers THEN Newest(PollLimit, {t \in DOMAIN tasks : Open(t)})
                   ELSE Newest(ListLimit, DOMAIN tasks)
           need == {t \in read : Open(t)}
           x == [pc |-> "jobs", rows |-> [t \in need |-> tasks[t]], seen |-> <<>>]
<1>1. /\ Quiet /\ UNCHANGED <<tasks, jobs, req, accepted, shipped>> /\ need # {}
      /\ sync' = [sync EXCEPT ![y] = x]
  BY DEF SyncRead, MayStart, Sequential
<1>2. read \subseteq DOMAIN tasks
  BY DEF Newest
<1>3. \A t \in need : Open(t) /\ t \in DOMAIN tasks
  BY <1>2
<1> HIDE DEF read, need
<1>4. \A t \in need : tasks[t].status \in {"pending", "claimed", "done"}
  <2>1. \A t \in DOMAIN tasks : tasks[t].status \in TaskStatuses
    BY Places DEF Inv, Task
  <2>2. QED
    BY <1>3, <2>1 DEF Open, isPrintTaskTerminal, TaskStatuses
<1>5. /\ x.pc = "jobs" /\ DOMAIN x.rows = need /\ \A t \in need : x.rows[t] = tasks[t]
      /\ SyncState(x)
  BY DEF SyncState, SyncPCs
<1> HIDE DEF x
<1>6. sync'[y] = x
  BY <1>1, <1>5, SyncSet DEF Inv, Typed
<1>7. SyncHolds(y)'
  BY <1>1, <1>3, <1>4, <1>5, <1>6 DEF SyncHolds
<1>8. tasks' \in Seq(Task) /\ shipped' \subseteq Orders \X Orders /\ TasksCovered'
  BY <1>1 DEF Inv, Typed, TasksCovered, JobOf
<1>9. QED
  BY <1>1, <1>5, <1>7, <1>8, SyncMoved

LEMMA IdleSyncIs == SyncState(IdleSync) /\ IdleSync.pc = "idle"
BY DEF SyncState, SyncPCs, IdleSync

\* Two of the fields written, the other kept, whatever they hold.
LEMMA AnyFields ==
  ASSUME NEW V, NEW s \in [pc: SyncPCs, rows: V, seen: V], NEW f
  PROVE  /\ [s EXCEPT !.pc = "rows", !.seen = f] = [pc |-> "rows", rows |-> s.rows, seen |-> f]
         /\ [s EXCEPT !.pc = "confirm"] = [pc |-> "confirm", rows |-> s.rows, seen |-> s.seen]
         /\ [s EXCEPT !.pc = "mark"] = [pc |-> "mark", rows |-> s.rows, seen |-> s.seen]
<1> DEFINE W == V \cup {f}
<1>1. s \in [pc: SyncPCs, rows: W, seen: W] /\ f \in W
  OBVIOUS
<1> HIDE DEF W
<1> DEFINE z == [s EXCEPT !.pc = "rows", !.seen = f]
<1>3. z \in [pc: SyncPCs, rows: W, seen: W] /\ z.pc = "rows" /\ z.rows = s.rows /\ z.seen = f
  BY <1>1 DEF SyncPCs
<1> HIDE DEF z
<1>4. z = [pc |-> "rows", rows |-> s.rows, seen |-> f]
  BY <1>3
<1>5. [s EXCEPT !.pc = "confirm"] = [pc |-> "confirm", rows |-> s.rows, seen |-> s.seen]
  BY <1>1
<1>6. [s EXCEPT !.pc = "mark"] = [pc |-> "mark", rows |-> s.rows, seen |-> s.seen]
  BY <1>1
<1>7. QED
  BY <1>4, <1>5, <1>6 DEF z

LEMMA JobsKeeps ==
  ASSUME Inv, NEW y \in Syncs, GetJobs(y)
  PROVE  Inv'
<1>1. /\ sync[y].pc = "jobs" /\ UNCHANGED <<tasks, jobs, req, accepted, shipped>>
      /\ SyncState(sync[y]) /\ SyncHolds(y)
  BY SyncIs DEF GetJobs, Inv
<1>2. tasks' \in Seq(Task) /\ shipped' \subseteq Orders \X Orders /\ TasksCovered'
  BY <1>1 DEF Inv, Typed, TasksCovered, JobOf
<1>3. CASE sync' = [sync EXCEPT ![y] = IdleSync]
  <2>1. sync'[y].pc = "idle"
    BY <1>3, IdleSyncIs, SyncSet DEF Inv, Typed
  <2>2. SyncHolds(y)'
    BY <2>1 DEF SyncHolds
  <2>3. QED
    BY <1>1, <1>2, <1>3, <2>2, IdleSyncIs, SyncMoved
<1>4. CASE sync' = [sync EXCEPT ![y].pc = "rows",
                             ![y].seen = [t \in DOMAIN sync[y].rows |-> jobs[sync[y].rows[t].job]]]
  <2> DEFINE f == [t \in DOMAIN sync[y].rows |-> jobs[sync[y].rows[t].job]]
             x == [pc |-> "rows", rows |-> sync[y].rows, seen |-> f]
  <2>1. sync' = [sync EXCEPT ![y] = x]
    <3>1. sync' = [sync EXCEPT ![y] = [sync[y] EXCEPT !.pc = "rows", !.seen = f]]
      BY <1>4
    <3> HIDE DEF f
    <3>2. PICK V : sync \in [Syncs -> [pc: SyncPCs, rows: V, seen: V]]
      BY DEF Inv, Typed, SyncShape
    <3>3. [sync[y] EXCEPT !.pc = "rows", !.seen = f] = x
      BY <3>2, AnyFields
    <3> HIDE DEF x
    <3>4. QED
      BY <3>1, <3>3, Zenon
  <2>2. /\ x.pc = "rows" /\ x.rows = sync[y].rows /\ SyncState(x)
        /\ \A t \in DOMAIN x.rows : x.seen[t] = jobs[x.rows[t].job]
    BY DEF SyncState, SyncPCs
  <2> HIDE DEF x
  <2>3. sync'[y] = x
    BY <2>1, <2>2, SyncSet DEF Inv, Typed
  <2>4. /\ DOMAIN x.rows # {} /\ DOMAIN x.rows \subseteq DOMAIN tasks
        /\ \A t \in DOMAIN x.rows :
             /\ x.rows[t].status \in {"pending", "claimed", "done"}
             /\ x.rows[t] = tasks[t] /\ tasks[t].status # "cancelled"
    BY <1>1, <2>2 DEF SyncHolds
  <2>5. \A t \in DOMAIN x.rows : x.seen[t] = JobOf(t) /\ x.seen[t] \in Job
    <3>1. \A t \in DOMAIN tasks : tasks[t].job \in DOMAIN jobs
      BY DEF Inv, TasksCovered
    <3>2. \A j \in DOMAIN jobs : jobs[j] \in Job
      BY Places DEF Inv
    <3>3. QED
      BY <2>2, <2>4, <3>1, <3>2 DEF JobOf
  <2>6. \A t \in DOMAIN x.rows : x.seen[t].mail # NoMail => x.seen[t].status = "succeeded"
    BY <2>4, <2>5 DEF Inv, JobsAnswered, JobOf, TasksCovered
  <2>7. \A t \in DOMAIN x.rows : x.rows[t].status = "done" => x.seen[t].status = "succeeded"
    BY <2>4, <2>5 DEF Inv, TasksCovered
  <2>8. SyncHolds(y)'
    BY <1>1, <2>2, <2>3, <2>4, <2>5, <2>6, <2>7 DEF SyncHolds, JobOf
  <2>9. QED
    BY <1>1, <1>2, <2>1, <2>2, <2>8, SyncMoved
<1>5. QED
  BY <1>3, <1>4 DEF GetJobs

\* The row in work is one of the rows read.
LEMMA CurrentIn ==
  ASSUME Inv, NEW y \in Syncs, sync[y].pc # "idle"
  PROVE  Current(y) \in DOMAIN sync[y].rows
<1>1. PICK n \in Nat : DOMAIN tasks = 1 .. n
  BY Places DEF Inv
<1>2. DOMAIN sync[y].rows # {} /\ DOMAIN sync[y].rows \subseteq 1 .. n
  BY <1>1 DEF Inv, SyncHolds
<1>3. QED
  BY <1>2, MaxIn DEF Current

LEMMA RestHolds ==
  ASSUME Inv, NEW y \in Syncs, sync[y].pc \in {"rows", "confirm", "mark"},
         sync' = [sync EXCEPT ![y] = Rest(y)], UNCHANGED jobs,
         DOMAIN tasks' = DOMAIN tasks,
         \A t \in DOMAIN tasks \ {Current(y)} : tasks'[t] = tasks[t]
  PROVE  SyncState(Rest(y)) /\ SyncHolds(y)'
<1> DEFINE c == Current(y)
           left == DOMAIN sync[y].rows \ {c}
           more == [pc |-> "rows", rows |-> [t \in left |-> sync[y].rows[t]],
                    seen |-> [t \in left |-> sync[y].seen[t]]]
<1>1. CASE left = {}
  <2>1. Rest(y) = IdleSync
    BY <1>1 DEF Rest
  <2>2. sync'[y].pc = "idle"
    BY <2>1, IdleSyncIs, SyncSet DEF Inv, Typed
  <2>3. QED
    BY <2>1, <2>2, IdleSyncIs DEF SyncHolds
<1>2. CASE left # {}
  <2>1. Rest(y) = more
    BY <1>2 DEF Rest
  <2>2. /\ SyncState(more) /\ more.pc = "rows" /\ DOMAIN more.rows = left
        /\ \A t \in left : more.rows[t] = sync[y].rows[t] /\ more.seen[t] = sync[y].seen[t]
    BY DEF SyncState, SyncPCs
  <2> HIDE DEF more
  <2>3. sync'[y] = more
    BY <2>1, <2>2, SyncSet DEF Inv, Typed
  <2>4. /\ left \subseteq DOMAIN tasks
        /\ \A t \in left :
             /\ sync[y].rows[t].status \in {"pending", "claimed", "done"}
             /\ sync[y].rows[t] = tasks[t] /\ tasks'[t] = tasks[t] /\ tasks[t].status # "cancelled"
             /\ sync[y].seen[t] \in Job
             /\ sync[y].seen[t].mail # NoMail => sync[y].seen[t].status = "succeeded"
             /\ sync[y].seen[t].status = "succeeded" => sync[y].seen[t] = JobOf(t)
             /\ sync[y].rows[t].status = "done" => sync[y].seen[t].status = "succeeded"
    <3>1. SyncHolds(y)
      BY DEF Inv
    <3>2. QED
      BY <3>1 DEF SyncHolds
  <2> HIDE DEF left
  <2>5. SyncHolds(y)'
    BY <1>2, <2>2, <2>3, <2>4 DEF SyncHolds, JobOf
  <2>6. QED
    BY <2>1, <2>2, <2>5
<1>3. QED
  BY <1>1, <1>2

\* A sync that stays at its row: what it read is as it was.
LEMMA StayHolds ==
  ASSUME Inv, NEW y \in Syncs, sync[y].pc \in {"rows", "confirm"}, NEW p \in {"confirm", "mark"},
         sync' = [sync EXCEPT ![y].pc = p], UNCHANGED jobs, DOMAIN tasks' = DOMAIN tasks,
         AutoConfirms(sync[y].rows[Current(y)], sync[y].seen[Current(y)].mail),
         \A t \in DOMAIN tasks \ {Current(y)} : tasks'[t] = tasks[t],
         /\ tasks'[Current(y)].orders = tasks[Current(y)].orders
         /\ tasks'[Current(y)].job = tasks[Current(y)].job
         /\ tasks'[Current(y)].status # "cancelled"
  PROVE  LET x == [pc |-> p, rows |-> sync[y].rows, seen |-> sync[y].seen] IN
         SyncState(x) /\ sync' = [sync EXCEPT ![y] = x] /\ SyncHolds(y)'
<1> DEFINE x == [pc |-> p, rows |-> sync[y].rows, seen |-> sync[y].seen]
           c == Current(y)
<1>1. SyncState(x) /\ x.pc = p /\ x.rows = sync[y].rows /\ x.seen = sync[y].seen
  BY DEF SyncState, SyncPCs
<1>2. sync' = [sync EXCEPT ![y] = x]
  <2>1. PICK V : sync \in [Syncs -> [pc: SyncPCs, rows: V, seen: V]]
    BY DEF Inv, Typed, SyncShape
  <2>2. sync' = [sync EXCEPT ![y] = [sync[y] EXCEPT !.pc = p]]
    BY <2>1
  <2>3. [sync[y] EXCEPT !.pc = p] = x
    BY <2>1, AnyFields
  <2> HIDE DEF x
  <2>4. QED
    BY <2>2, <2>3, Zenon
<1> HIDE DEF x
<1>3. sync'[y] = x
  BY <1>1, <1>2, SyncSet DEF Inv, Typed
<1>4. c \in DOMAIN sync[y].rows
  BY CurrentIn
<1>5. Current(y)' = c
  BY <1>1, <1>3 DEF Current, Max
<1>6. SyncHolds(y)
  BY DEF Inv
<1> HIDE DEF c
<1>7. /\ DOMAIN x.rows # {} /\ DOMAIN x.rows \subseteq DOMAIN tasks
      /\ \A t \in DOMAIN x.rows :
           /\ x.rows[t].status \in {"pending", "claimed", "done"}
           /\ x.rows[t].orders = tasks[t].orders /\ x.rows[t].job = tasks[t].job
           /\ tasks[t].status # "cancelled"
           /\ t # c => x.rows[t] = tasks[t]
           /\ x.seen[t] \in Job
           /\ x.seen[t].mail # NoMail => x.seen[t].status = "succeeded"
           /\ x.seen[t].status = "succeeded" => x.seen[t] = JobOf(t)
           /\ x.rows[t].status = "done" => x.seen[t].status = "succeeded"
  BY <1>1, <1>6 DEF SyncHolds, c
<1>8. \A t \in DOMAIN tasks :
        /\ tasks'[t].orders = tasks[t].orders /\ tasks'[t].job = tasks[t].job
        /\ t # c => tasks'[t] = tasks[t]
        /\ t = c => tasks'[t].status # "cancelled"
  BY DEF c
<1>9. SyncHolds(y)'
  <2>1. \A t \in DOMAIN x.rows :
          /\ x.rows[t].orders = tasks'[t].orders /\ x.rows[t].job = tasks'[t].job
          /\ tasks'[t].status # "cancelled"
          /\ t # c => x.rows[t] = tasks'[t]
          /\ x.seen[t].status = "succeeded" => x.seen[t] = jobs'[tasks'[t].job]
    BY <1>7, <1>8 DEF JobOf
  <2>2. AutoConfirms(x.rows[c], x.seen[c].mail)
    BY <1>1 DEF c
  <2>3. x.pc \in {"confirm", "mark"}
    BY <1>1
  <2>4. AutoConfirms(sync[y].rows[Current(y)], sync[y].seen[Current(y)].mail)'
    BY <1>3, <1>5, <2>2 DEF AutoConfirms
  <2>5. /\ DOMAIN sync'[y].rows # {} /\ DOMAIN sync'[y].rows \subseteq DOMAIN tasks'
        /\ sync'[y].pc \in {"confirm", "mark"}
        /\ \A t \in DOMAIN sync'[y].rows :
             /\ sync'[y].rows[t].status \in {"pending", "claimed", "done"}
             /\ sync'[y].rows[t].orders = tasks'[t].orders /\ sync'[y].rows[t].job = tasks'[t].job
             /\ tasks'[t].status # "cancelled"
             /\ t # Current(y)' => sync'[y].rows[t] = tasks'[t]
    <3>1. DOMAIN x.rows # {} /\ DOMAIN x.rows \subseteq DOMAIN tasks'
      BY <1>7
    <3>2. \A t \in DOMAIN x.rows :
             /\ x.rows[t].status \in {"pending", "claimed", "done"}
             /\ x.rows[t].orders = tasks'[t].orders /\ x.rows[t].job = tasks'[t].job
             /\ tasks'[t].status # "cancelled"
             /\ t # Current(y)' => x.rows[t] = tasks'[t]
      BY <1>5, <1>7, <2>1
    <3>3. QED
      BY <1>3, <2>3, <3>1, <3>2, Zenon
  <2>6. \A t \in DOMAIN sync'[y].rows :
             /\ sync'[y].seen[t] \in Job
             /\ sync'[y].seen[t].mail # NoMail => sync'[y].seen[t].status = "succeeded"
             /\ sync'[y].seen[t].status = "succeeded" => sync'[y].seen[t] = JobOf(t)'
             /\ sync'[y].rows[t].status = "done" => sync'[y].seen[t].status = "succeeded"
    BY <1>3, <1>7, <2>1 DEF JobOf
  <2>7. QED
    BY <2>4, <2>5, <2>6 DEF SyncHolds
<1>10. QED
  BY <1>1, <1>2, <1>9 DEF x

LEMMA StatusOf ==
  ASSUME NEW j \in Job
  PROVE  /\ mapAgentsJobStatus(j.status) \in {"pending", "claimed", "done", "failed"}
         /\ mapAgentsJobStatus(j.status) = "done" <=> j.status = "succeeded"
<1>1. j.status \in JobStatuses
  BY DEF Job
<1>2. QED
  BY <1>1 DEF mapAgentsJobStatus, JobStatuses

\* What the row in work holds when its status is written.
LEMMA RowIs ==
  ASSUME Inv, NEW y \in Syncs, sync[y].pc = "rows"
  PROVE  LET c == Current(y) row == sync[y].rows[c] j == sync[y].seen[c]
             st == mapAgentsJobStatus(j.status) IN
         /\ c \in DOMAIN tasks /\ row = tasks[c] /\ tasks[c] \in Task
         /\ row.status \in {"pending", "claimed", "done"}
         /\ st \in {"pending", "claimed", "done", "failed"}
         /\ st = "done" => JobOf(c).status = "succeeded"
         /\ row.status = "done" => st = "done"
<1> DEFINE c == Current(y) row == sync[y].rows[c] j == sync[y].seen[c]
           st == mapAgentsJobStatus(j.status)
<1>1. c \in DOMAIN sync[y].rows
  BY CurrentIn
<1>2. /\ c \in DOMAIN tasks /\ row = tasks[c] /\ row.status \in {"pending", "claimed", "done"}
      /\ j \in Job /\ (j.status = "succeeded" => j = JobOf(c))
      /\ (row.status = "done" => j.status = "succeeded")
  <2>1. SyncHolds(y)
    BY DEF Inv
  <2> HIDE DEF c
  <2>2. QED
    BY <1>1, <2>1 DEF SyncHolds
<1>3. /\ st \in {"pending", "claimed", "done", "failed"} /\ (st = "done" <=> j.status = "succeeded")
  BY <1>2, StatusOf
<1>4. tasks[c] \in Task
  BY <1>2, Places DEF Inv
<1> HIDE DEF st, row, j, c
<1>5. QED
  BY <1>2, <1>3, <1>4 DEF st, row, j, c

LEMMA RowWritten ==
  ASSUME Inv, NEW y \in Syncs, sync[y].pc = "rows", NEW c, c = Current(y),
         NEW st, st = mapAgentsJobStatus(sync[y].seen[c].status),
         tasks' = IF st # sync[y].rows[c].status THEN [tasks EXCEPT ![c].status = st] ELSE tasks,
         UNCHANGED <<jobs, accepted>>
  PROVE  /\ tasks' \in Seq(Task) /\ TasksCovered' /\ DOMAIN tasks' = DOMAIN tasks
         /\ \A t \in DOMAIN tasks \ {c} : tasks'[t] = tasks[t]
         /\ tasks'[c].orders = tasks[c].orders /\ tasks'[c].job = tasks[c].job
         /\ tasks'[c].status # "cancelled"
<1>1. /\ c \in DOMAIN tasks /\ sync[y].rows[c] = tasks[c] /\ tasks[c] \in Task
      /\ tasks[c].status \in {"pending", "claimed", "done"}
      /\ st \in {"pending", "claimed", "done", "failed"}
      /\ st = "done" => JobOf(c).status = "succeeded"
  BY RowIs
<1>2. tasks \in Seq(Task)
  BY DEF Inv, Typed
<1> DEFINE x == [tasks[c] EXCEPT !.status = st]
<1>3. /\ x \in Task /\ x.status = st /\ x.orders = tasks[c].orders /\ x.job = tasks[c].job
  BY <1>1 DEF Task, TaskStatuses
<1> HIDE DEF x
<1>4. CASE st # sync[y].rows[c].status
  <2>1. tasks' = [tasks EXCEPT ![c] = x]
    BY <1>4 DEF x
  <2>2. /\ tasks' \in Seq(Task) /\ DOMAIN tasks' = DOMAIN tasks /\ tasks'[c] = x
        /\ \A t \in DOMAIN tasks \ {c} : tasks'[t] = tasks[t]
    BY <1>1, <1>2, <1>3, <2>1, Changed
  <2>3. \A t \in DOMAIN tasks :
          /\ tasks'[t].job = tasks[t].job /\ tasks'[t].orders = tasks[t].orders
          /\ tasks'[t].status # "cancelled" <=> tasks[t].status # "cancelled"
          /\ tasks'[t].status = "done" => JobOf(t).status = "succeeded"
    BY <1>1, <1>3, <2>2 DEF Inv, TasksCovered
  <2>4. TasksCovered'
    BY <2>2, <2>3 DEF Inv, TasksCovered, JobOf
  <2>5. QED
    BY <1>1, <1>3, <2>2, <2>4
<1>5. CASE st = sync[y].rows[c].status
  BY <1>1, <1>2, <1>5 DEF Inv, TasksCovered, JobOf
<1>6. QED
  BY <1>4, <1>5

LEMMA RowKeeps ==
  ASSUME Inv, NEW y \in Syncs, SyncRow(y)
  PROVE  Inv'
<1> DEFINE c == Current(y)
           row == sync[y].rows[c]
           st == mapAgentsJobStatus(sync[y].seen[c].status)
<1>1. /\ sync[y].pc = "rows" /\ UNCHANGED <<jobs, req, accepted, shipped>>
      /\ tasks' = IF st # row.status THEN [tasks EXCEPT ![c].status = st] ELSE tasks
  BY DEF SyncRow
<1>2. /\ tasks' \in Seq(Task) /\ TasksCovered' /\ DOMAIN tasks' = DOMAIN tasks
      /\ \A t \in DOMAIN tasks \ {c} : tasks'[t] = tasks[t]
      /\ tasks'[c].orders = tasks[c].orders /\ tasks'[c].job = tasks[c].job
      /\ tasks'[c].status # "cancelled"
  <2>1. c = Current(y) /\ st = mapAgentsJobStatus(sync[y].seen[c].status) /\ row = sync[y].rows[c]
    OBVIOUS
  <2> HIDE DEF c, row, st
  <2>2. QED
    BY <1>1, <2>1, RowWritten
<1>3. shipped' \subseteq Orders \X Orders
  BY <1>1 DEF Inv, Typed
<1>4. CASE sync' = [sync EXCEPT ![y] = Rest(y)]
  <2>1. SyncState(Rest(y)) /\ SyncHolds(y)'
    BY <1>1, <1>2, <1>4, RestHolds
  <2>2. QED
    BY <1>1, <1>2, <1>3, <1>4, <2>1, SyncMoved
<1>5. CASE AutoConfirms(row, sync[y].seen[c].mail) /\ sync' = [sync EXCEPT ![y].pc = "confirm"]
  <2> DEFINE x == [pc |-> "confirm", rows |-> sync[y].rows, seen |-> sync[y].seen]
  <2>1. SyncState(x) /\ sync' = [sync EXCEPT ![y] = x] /\ SyncHolds(y)'
    BY <1>1, <1>2, <1>5, StayHolds
  <2> HIDE DEF x
  <2>2. QED
    BY <1>1, <1>2, <1>3, <2>1, SyncMoved
<1>6. QED
  BY <1>4, <1>5 DEF SyncRow

LEMMA ShipKeeps ==
  ASSUME Inv, NEW y \in Syncs, ConfirmShip(y)
  PROVE  Inv'
<1> DEFINE c == Current(y)
           new == {<<o, sync[y].seen[c].mail>> : o \in sync[y].rows[c].orders}
<1>1. /\ sync[y].pc = "confirm" /\ UNCHANGED <<tasks, jobs, req, accepted>>
      /\ shipped' = shipped \cup new /\ sync' = [sync EXCEPT ![y].pc = "mark"]
  BY DEF ConfirmShip
<1>2. c \in DOMAIN sync[y].rows
  BY <1>1, CurrentIn
<1>3. /\ c \in DOMAIN tasks /\ sync[y].seen[c] \in Job /\ sync[y].rows[c].orders = tasks[c].orders
      /\ tasks[c].status # "cancelled" /\ AutoConfirms(sync[y].rows[c], sync[y].seen[c].mail)
  <2>1. SyncHolds(y)
    BY DEF Inv
  <2>2. QED
    BY <1>1, <1>2, <2>1 DEF SyncHolds
<1>4. new \subseteq Orders \X Orders
  <2>1. sync[y].rows[c].orders \subseteq Orders
    BY <1>3, Places DEF Inv, Task
  <2>2. sync[y].seen[c].mail \in Orders
    BY <1>3 DEF Job, AutoConfirms
  <2>3. QED
    BY <2>1, <2>2
<1>5. tasks' \in Seq(Task) /\ shipped' \subseteq Orders \X Orders /\ TasksCovered'
  BY <1>1, <1>4 DEF Inv, Typed, TasksCovered, JobOf
<1> DEFINE x == [pc |-> "mark", rows |-> sync[y].rows, seen |-> sync[y].seen]
<1>6. SyncState(x) /\ sync' = [sync EXCEPT ![y] = x] /\ SyncHolds(y)'
  BY <1>1, <1>3, StayHolds
<1> HIDE DEF x, new, c
<1>7. QED
  BY <1>1, <1>5, <1>6, SyncMoved

LEMMA ConfirmFailsKeeps ==
  ASSUME Inv, NEW y \in Syncs, ConfirmFails(y)
  PROVE  Inv'
<1>1. /\ sync[y].pc = "confirm" /\ UNCHANGED <<tasks, jobs, req, accepted, shipped>>
      /\ sync' = [sync EXCEPT ![y] = Rest(y)]
  BY DEF ConfirmFails
<1>2. SyncState(Rest(y)) /\ SyncHolds(y)'
  BY <1>1, RestHolds
<1>3. tasks' \in Seq(Task) /\ shipped' \subseteq Orders \X Orders /\ TasksCovered'
  BY <1>1 DEF Inv, Typed, TasksCovered, JobOf
<1>4. QED
  BY <1>1, <1>2, <1>3, SyncMoved

\* Only the mark of the row in work is written.
LEMMA MarkWritten ==
  ASSUME Inv, NEW y \in Syncs, MarkConfirmed(y)
  PROVE  /\ tasks' \in Seq(Task) /\ DOMAIN tasks' = DOMAIN tasks
         /\ \A t \in DOMAIN tasks \ {Current(y)} : tasks'[t] = tasks[t]
         /\ \A t \in DOMAIN tasks :
              /\ tasks'[t].job = tasks[t].job /\ tasks'[t].orders = tasks[t].orders
              /\ tasks'[t].status = tasks[t].status
<1> DEFINE c == Current(y)
           x == [tasks[c] EXCEPT !.confirmed = TRUE]
<1>1. /\ sync[y].pc = "mark"
      /\ tasks' = [tasks EXCEPT ![c].confirmed = TRUE] \/ UNCHANGED tasks
  BY DEF MarkConfirmed
<1>2. c \in DOMAIN tasks
  <2>1. c \in DOMAIN sync[y].rows /\ SyncHolds(y)
    BY <1>1, CurrentIn DEF Inv
  <2>2. QED
    BY <1>1, <2>1 DEF SyncHolds
<1>3. tasks \in Seq(Task) /\ tasks[c] \in Task
  BY <1>1, <1>2, Places DEF Inv, Typed
<1>4. CASE UNCHANGED tasks
  BY <1>3, <1>4
<1>5. CASE tasks' = [tasks EXCEPT ![c].confirmed = TRUE]
  <2>1. /\ x \in Task /\ x.status = tasks[c].status /\ x.orders = tasks[c].orders
        /\ x.job = tasks[c].job
    BY <1>3 DEF Task
  <2>2. tasks' = [tasks EXCEPT ![c] = x]
    BY <1>5
  <2> HIDE DEF x, c
  <2>3. /\ tasks' \in Seq(Task) /\ DOMAIN tasks' = DOMAIN tasks /\ tasks'[c] = x
        /\ \A t \in DOMAIN tasks \ {c} : tasks'[t] = tasks[t]
    BY <1>2, <1>3, <2>1, <2>2, Changed
  <2>4. QED
    BY <2>1, <2>3 DEF c
<1>6. QED
  BY <1>1, <1>4, <1>5

LEMMA MarkKeeps ==
  ASSUME Inv, NEW y \in Syncs, MarkConfirmed(y)
  PROVE  Inv'
<1>1. /\ sync[y].pc = "mark" /\ UNCHANGED <<jobs, req, accepted, shipped>>
      /\ sync' = [sync EXCEPT ![y] = Rest(y)]
  BY DEF MarkConfirmed
<1>2. shipped' \subseteq Orders \X Orders
  BY <1>1 DEF Inv, Typed
<1>3. /\ tasks' \in Seq(Task) /\ DOMAIN tasks' = DOMAIN tasks
      /\ \A t \in DOMAIN tasks \ {Current(y)} : tasks'[t] = tasks[t]
      /\ \A t \in DOMAIN tasks :
           /\ tasks'[t].job = tasks[t].job /\ tasks'[t].orders = tasks[t].orders
           /\ tasks'[t].status = tasks[t].status
  BY MarkWritten
<1>4. TasksCovered'
  BY <1>1, <1>3 DEF Inv, TasksCovered, JobOf
<1>5. SyncState(Rest(y)) /\ SyncHolds(y)'
  BY <1>1, <1>3, RestHolds
<1>6. QED
  BY <1>1, <1>2, <1>3, <1>4, <1>5, SyncMoved

LEMMA CrashKeeps ==
  ASSUME Inv, Crash
  PROVE  Inv'
<1>1. /\ req' = [r \in Reqs |-> IdleReq] /\ sync' = [y \in Syncs |-> IdleSync]
      /\ UNCHANGED <<tasks, jobs, accepted, shipped>>
  BY DEF Crash
<1>2. \A r \in Reqs : req'[r].pc = "idle"
  BY <1>1, IdleReqIs
<1>3. \A y \in Syncs : sync'[y].pc = "idle"
  BY <1>1, IdleSyncIs
<1>4. SyncShape'
  <2> DEFINE V == {<<>>}
  <2>1. IdleSync \in [pc: SyncPCs, rows: V, seen: V]
    BY DEF IdleSync, SyncPCs
  <2> HIDE DEF V
  <2>2. sync' \in [Syncs -> [pc: SyncPCs, rows: V, seen: V]]
    BY <1>1, <2>1
  <2>3. QED
    BY <2>2 DEF SyncShape
<1>5. req' \in [Reqs -> Req]
  BY <1>1, IdleReqIs
<1>6. Typed'
  BY <1>1, <1>4, <1>5 DEF Inv, Typed
<1>7. Turns'
  BY <1>2, <1>3 DEF Turns
<1>8. (\A r \in Reqs : ReqHolds(r)') /\ (\A y \in Syncs : SyncHolds(y)')
  BY <1>2, <1>3 DEF ReqHolds, SyncHolds
<1>9. TasksCovered' /\ JobsAnswered'
  BY <1>1 DEF Inv, TasksCovered, JobOf, JobsAnswered
<1>10. QED
  BY <1>6, <1>7, <1>8, <1>9 DEF Inv

LEMMA InitHolds == Init => Inv
<1> SUFFICES ASSUME Init PROVE Inv
  OBVIOUS
<1>1. (\A r \in Reqs : req[r].pc = "idle") /\ (\A y \in Syncs : sync[y].pc = "idle")
  BY IdleReqIs, IdleSyncIs DEF Init
<1>2. SyncShape
  <2> DEFINE V == {<<>>}
  <2>1. IdleSync \in [pc: SyncPCs, rows: V, seen: V]
    BY DEF IdleSync, SyncPCs
  <2> HIDE DEF V
  <2>2. sync \in [Syncs -> [pc: SyncPCs, rows: V, seen: V]]
    BY <2>1 DEF Init
  <2>3. QED
    BY <2>2 DEF SyncShape
<1>3. tasks = <<>> /\ jobs = <<>> /\ accepted = {} /\ shipped = {} /\ req \in [Reqs -> Req]
  BY IdleReqIs DEF Init
<1>4. tasks \in Seq(Task) /\ jobs \in Seq(Job) /\ DOMAIN tasks = {} /\ DOMAIN jobs = {}
  BY <1>3
<1>5. Typed
  BY <1>2, <1>3, <1>4 DEF Typed
<1>6. TasksCovered /\ JobsAnswered
  BY <1>3, <1>4 DEF TasksCovered, JobsAnswered
<1>7. Turns /\ (\A r \in Reqs : ReqHolds(r)) /\ (\A y \in Syncs : SyncHolds(y))
  BY <1>1 DEF Turns, ReqHolds, SyncHolds
<1>8. QED
  BY <1>5, <1>6, <1>7 DEF Inv

LEMMA StutterKeeps ==
  ASSUME Inv, UNCHANGED vars
  PROVE  Inv'
<1>1. UNCHANGED <<tasks, jobs, req, sync, accepted, shipped>>
  BY DEF vars
<1>2. Typed' /\ Turns' /\ TasksCovered' /\ JobsAnswered'
  BY <1>1 DEF Inv, Typed, SyncShape, Turns, TasksCovered, JobOf, JobsAnswered
<1>3. \A r \in Reqs : ReqHolds(r)'
  BY <1>1 DEF Inv, ReqHolds, JobOf
<1>4. ASSUME NEW y \in Syncs PROVE SyncHolds(y)'
  <2>1. Current(y)' = Current(y)
    BY <1>1 DEF Current, Max
  <2>2. QED
    BY <1>1, <2>1 DEF Inv, SyncHolds, JobOf, AutoConfirms
<1>5. QED
  BY <1>2, <1>3, <1>4 DEF Inv

LEMMA InvKept ==
  ASSUME Inv, Sequential, [Next]_vars
  PROVE  Inv'
<1>1. CASE UNCHANGED vars
  BY <1>1, StutterKeeps
<1>2. ASSUME NEW r \in Reqs, ReqStep(r) \/ \E o \in Orders : BeginCreateTask(r, o)
      PROVE  Inv'
  BY <1>2, BeginKeeps, UpdateKeeps, WriteKeeps, CancelKeeps, CreateKeeps, SaveKeeps DEF ReqStep
<1>3. ASSUME NEW j \in DOMAIN jobs, AgentClaims(j) \/ AgentFinishes(j)
      PROVE  Inv'
  BY <1>3, ClaimsKeeps, FinishesKeeps
<1>4. ASSUME NEW y \in Syncs, SyncStep(y) PROVE Inv'
  BY <1>4, ReadKeeps, JobsKeeps, RowKeeps, ShipKeeps, ConfirmFailsKeeps, MarkKeeps DEF SyncStep
<1>5. CASE Crash
  BY <1>5, CrashKeeps
<1>6. QED
  BY <1>1, <1>2, <1>3, <1>4, <1>5 DEF Next

LEMMA InvHolds ==
  ASSUME Sequential
  PROVE  Spec => []Inv
<1>1. Inv /\ [Next]_vars => Inv'
  BY InvKept
<1>2. QED
  BY <1>1, InitHolds, PTL DEF Spec

-----------------------------------------------------------------------------
(* The theorems.                                                           *)

IdleRows == \A y \in Syncs : sync[y].pc = "idle" => DOMAIN sync[y].rows = {}

LEMMA RestIs ==
  ASSUME NEW y \in Syncs
  PROVE  Rest(y) = IdleSync \/ Rest(y).pc = "rows"
BY DEF Rest

LEMMA IdleRowsSet ==
  ASSUME IdleRows, SyncShape, NEW y \in Syncs, NEW x, SyncState(x),
         x = IdleSync \/ x.pc # "idle", sync' = [sync EXCEPT ![y] = x]
  PROVE  IdleRows'
<1>1. sync'[y] = x /\ \A z \in Syncs \ {y} : sync'[z] = sync[z]
  BY SyncSet
<1>2. x = IdleSync => DOMAIN x.rows = {}
  BY DEF IdleSync
<1>3. QED
  BY <1>1, <1>2 DEF IdleRows

LEMMA IdleRowsPc ==
  ASSUME Inv, IdleRows, NEW y \in Syncs, NEW p \in {"confirm", "mark"},
         sync' = [sync EXCEPT ![y].pc = p]
  PROVE  IdleRows'
<1>1. PICK V : sync \in [Syncs -> [pc: SyncPCs, rows: V, seen: V]]
  BY DEF Inv, Typed, SyncShape
<1>2. sync'[y] = [sync[y] EXCEPT !.pc = p] /\ \A z \in Syncs \ {y} : sync'[z] = sync[z]
  BY <1>1
<1>3. sync'[y].pc = p
  BY <1>1, <1>2, AnyFields
<1>4. QED
  BY <1>2, <1>3 DEF IdleRows

LEMMA IdleRowsKept ==
  ASSUME Inv, IdleRows, [Next]_vars
  PROVE  IdleRows'
<1>1. SyncShape
  BY DEF Inv, Typed
<1>2. CASE UNCHANGED sync
  BY <1>2 DEF IdleRows
<1>3. ASSUME NEW y \in Syncs, sync' = [sync EXCEPT ![y] = Rest(y)],
             sync[y].pc \in {"rows", "confirm", "mark"}
      PROVE  IdleRows'
  <2>1. SyncState(Rest(y))
    <3> DEFINE c == Current(y)
               left == DOMAIN sync[y].rows \ {c}
               f == [t \in left |-> sync[y].rows[t]]
               g == [t \in left |-> sync[y].seen[t]]
    <3>1. Rest(y) = IdleSync \/ Rest(y) = [pc |-> "rows", rows |-> f, seen |-> g]
      BY DEF Rest
    <3> HIDE DEF f, g
    <3>2. SyncState([pc |-> "rows", rows |-> f, seen |-> g])
      BY DEF SyncState, SyncPCs
    <3>3. QED
      BY <3>1, <3>2, IdleSyncIs
  <2>2. QED
    BY <1>1, <1>3, <2>1, RestIs, IdleRowsSet
<1>4. ASSUME NEW y \in Syncs, SyncStep(y) PROVE IdleRows'
  <2>1. CASE SyncRead(y)
    <3> DEFINE read == IF y \in Pollers THEN Newest(PollLimit, {t \in DOMAIN tasks : Open(t)})
                       ELSE Newest(ListLimit, DOMAIN tasks)
               need == {t \in read : Open(t)}
               f == [t \in need |-> tasks[t]]
               x == [pc |-> "jobs", rows |-> f, seen |-> <<>>]
    <3>1. sync' = [sync EXCEPT ![y] = x]
      BY <2>1 DEF SyncRead
    <3> HIDE DEF f
    <3>2. SyncState(x) /\ x.pc = "jobs"
      BY DEF SyncState, SyncPCs
    <3> HIDE DEF x
    <3>3. QED
      BY <1>1, <3>1, <3>2, IdleRowsSet
  <2>2. CASE GetJobs(y)
    <3> DEFINE f == [t \in DOMAIN sync[y].rows |-> jobs[sync[y].rows[t].job]]
               x == [pc |-> "rows", rows |-> sync[y].rows, seen |-> f]
    <3>1. CASE sync' = [sync EXCEPT ![y] = IdleSync]
      BY <1>1, <3>1, IdleSyncIs, IdleRowsSet
    <3>2. CASE sync' = [sync EXCEPT ![y].pc = "rows", ![y].seen = f]
      <4> HIDE DEF f
      <4>1. PICK V : sync \in [Syncs -> [pc: SyncPCs, rows: V, seen: V]]
        BY <1>1 DEF SyncShape
      <4>2. sync' = [sync EXCEPT ![y] = [sync[y] EXCEPT !.pc = "rows", !.seen = f]]
        BY <3>2
      <4>3. [sync[y] EXCEPT !.pc = "rows", !.seen = f] = x
        BY <4>1, AnyFields
      <4>4. SyncState(x) /\ x.pc = "rows"
        BY DEF SyncState, SyncPCs
      <4> HIDE DEF x
      <4>5. sync' = [sync EXCEPT ![y] = x]
        BY <4>2, <4>3, Zenon
      <4>6. QED
        BY <1>1, <4>4, <4>5, IdleRowsSet
    <3>3. QED
      BY <2>2, <3>1, <3>2 DEF GetJobs
  <2>3. CASE SyncRow(y)
    BY <1>3, <2>3, IdleRowsPc DEF SyncRow
  <2>4. CASE ConfirmShip(y)
    BY <2>4, IdleRowsPc DEF ConfirmShip
  <2>5. CASE ConfirmFails(y) \/ MarkConfirmed(y)
    BY <1>3, <2>5 DEF ConfirmFails, MarkConfirmed
  <2>6. QED
    BY <1>4, <2>1, <2>2, <2>3, <2>4, <2>5 DEF SyncStep
<1>5. CASE Crash
  <2>1. sync' = [y \in Syncs |-> IdleSync]
    BY <1>5 DEF Crash
  <2>2. DOMAIN IdleSync.rows = {}
    BY DEF IdleSync
  <2>3. QED
    BY <2>1, <2>2 DEF IdleRows
<1>6. ASSUME NEW r \in Reqs, ReqStep(r) \/ \E o \in Orders : BeginCreateTask(r, o)
      PROVE  UNCHANGED sync
  BY <1>6 DEF ReqStep, UpdatePendingJobParams, WriteMerged, CancelPendingJob, CreateTargetedJob,
              SaveTask, BeginCreateTask
<1>7. ASSUME NEW j \in DOMAIN jobs, AgentClaims(j) \/ AgentFinishes(j)
      PROVE  UNCHANGED sync
  BY <1>7 DEF AgentClaims, AgentFinishes
<1>8. QED
  BY <1>2, <1>4, <1>5, <1>6, <1>7 DEF Next, vars

LEMMA TypeOf ==
  ASSUME Inv, IdleRows
  PROVE  TypeOK
<1>1. \A t \in DOMAIN tasks : tasks[t] \in Task /\ tasks[t].job \in DOMAIN jobs
  BY Places DEF Inv, TasksCovered
<1>2. \A j \in DOMAIN jobs : jobs[j] \in Job
  BY Places DEF Inv
<1>3. ASSUME NEW r \in Reqs
      PROVE  /\ req[r].pc \in {"idle", "update", "write", "cancel", "create", "save"}
             /\ req[r].pc \in {"update", "write", "cancel"} =>
                  {req[r].survivor} \cup req[r].absorb \subseteq DOMAIN tasks
  <2>1. ReqHolds(r) /\ req[r] \in Req
    BY DEF Inv, Typed
  <2>2. QED
    BY <2>1 DEF ReqHolds, Req
<1>4. ASSUME NEW y \in Syncs PROVE DOMAIN sync[y].rows \subseteq DOMAIN tasks
  BY DEF Inv, SyncHolds, IdleRows
<1>5. accepted \subseteq Orders /\ shipped \subseteq Orders \X Orders
  BY DEF Inv, Typed
<1>6. QED
  BY <1>1, <1>2, <1>3, <1>4, <1>5 DEF TypeOK

\* Every variable keeps its type, and a handler or a poll only knows rows and
\* jobs that exist.
THEOREM TypeCorrect ==
  ASSUME Sequential
  PROVE  Spec => []TypeOK
<1>1. Init => IdleRows
  BY DEF Init, IdleRows, IdleSync
<1>2. Inv /\ IdleRows /\ [Next]_vars => IdleRows'
  BY IdleRowsKept
<1>3. Inv /\ IdleRows => TypeOK
  BY TypeOf
<1>4. QED
  BY <1>1, <1>2, <1>3, InvHolds, PTL DEF Spec

\* CreateTask that merges keeps its promise: an order it accepted is in a job
\* that was not cancelled, whatever calls fail or are lost, and if the process
\* stops in between.
THEOREM AcceptedIsPrinted ==
  ASSUME Sequential
  PROVE  Spec => []NoOrderLost
<1>1. Inv => NoOrderLost
  BY DEF Inv, TasksCovered, JobOf, NoOrderLost
<1>2. QED
  BY <1>1, InvHolds, PTL

LEMMA EndedStays ==
  ASSUME Inv, [Next]_vars, NEW t \in DOMAIN tasks, isPrintTaskTerminal(tasks[t].status)
  PROVE  tasks'[t].status = tasks[t].status
<1>1. CASE UNCHANGED tasks
  BY <1>1
<1>2. ASSUME NEW r \in Reqs, WriteMerged(r) PROVE tasks'[t].status = tasks[t].status
  <2> DEFINE s == req[r].survivor
  <2>1. CASE tasks[s].status # "pending"
    BY <1>2, <2>1 DEF WriteMerged
  <2>2. CASE tasks' = [u \in DOMAIN tasks |->
                      IF u = s THEN [tasks[u] EXCEPT !.orders = req[r].orders]
                      ELSE IF u \in req[r].absorb /\ tasks[u].status = "pending"
                           THEN [tasks[u] EXCEPT !.status = "cancelled"] ELSE tasks[u]]
    <3>1. CASE t = s
      <4>1. tasks[t] \in Task /\ req[r].orders \subseteq Orders
        BY Places DEF Inv, Typed, Req
      <4>2. [tasks[t] EXCEPT !.orders = req[r].orders].status = tasks[t].status
        BY <4>1 DEF Task, TaskStatuses
      <4>3. QED
        BY <2>2, <3>1, <4>2
    <3>2. CASE t # s
      BY <2>2, <3>2 DEF isPrintTaskTerminal
    <3>3. QED
      BY <3>1, <3>2
  <2>3. QED
    BY <1>1, <1>2, <2>1, <2>2 DEF WriteMerged
<1>3. ASSUME NEW r \in Reqs, SaveTask(r) PROVE tasks'[t].status = tasks[t].status
  <2>1. tasks \in Seq(Task) /\ req[r] \in Req
    BY DEF Inv, Typed
  <2> DEFINE e == [status |-> "pending", orders |-> req[r].orders, job |-> req[r].survivor,
                   confirmed |-> FALSE]
  <2>2. e \in Task
    BY <2>1 DEF Task, TaskStatuses, Req
  <2>3. UNCHANGED tasks \/ tasks' = Append(tasks, e)
    BY <1>3 DEF SaveTask
  <2> HIDE DEF e
  <2>4. QED
    BY <1>1, <2>1, <2>2, <2>3, Appended
<1>4. ASSUME NEW y \in Syncs, SyncRow(y) PROVE tasks'[t].status = tasks[t].status
  <2> DEFINE c == Current(y) row == sync[y].rows[c]
             st == mapAgentsJobStatus(sync[y].seen[c].status)
  <2>1. /\ sync[y].pc = "rows" /\ UNCHANGED <<jobs, accepted>>
        /\ tasks' = IF st # row.status THEN [tasks EXCEPT ![c].status = st] ELSE tasks
    BY <1>4 DEF SyncRow
  <2>2. /\ row = tasks[c] /\ row.status \in {"pending", "claimed", "done"}
        /\ row.status = "done" => st = "done"
    BY <2>1, RowIs
  <2>3. t = c => st = row.status
    BY <2>2 DEF isPrintTaskTerminal
  <2> HIDE DEF c, row, st
  <2>4. t # c => tasks'[t] = tasks[t]
    BY <2>1
  <2>5. t = c => tasks'[t] = tasks[t]
    BY <2>1, <2>3
  <2>6. QED
    BY <2>4, <2>5
<1>5. ASSUME NEW y \in Syncs, SyncStep(y) PROVE tasks'[t].status = tasks[t].status
  <2>1. CASE MarkConfirmed(y)
    BY <2>1, MarkWritten
  <2>2. CASE SyncRead(y) \/ GetJobs(y) \/ ConfirmShip(y) \/ ConfirmFails(y)
    BY <1>1, <2>2 DEF SyncRead, GetJobs, ConfirmShip, ConfirmFails
  <2>3. QED
    BY <1>4, <1>5, <2>1, <2>2 DEF SyncStep
<1>6. ASSUME NEW r \in Reqs, ReqStep(r) \/ \E o \in Orders : BeginCreateTask(r, o)
      PROVE  tasks'[t].status = tasks[t].status
  <2>1. CASE UpdatePendingJobParams(r) \/ CancelPendingJob(r) \/ CreateTargetedJob(r)
             \/ \E o \in Orders : BeginCreateTask(r, o)
    BY <1>1, <2>1 DEF UpdatePendingJobParams, CancelPendingJob, CreateTargetedJob, BeginCreateTask
  <2>2. QED
    BY <1>2, <1>3, <1>6, <2>1 DEF ReqStep
<1>7. ASSUME NEW j \in DOMAIN jobs, AgentClaims(j) \/ AgentFinishes(j)
      PROVE  UNCHANGED tasks
  BY <1>7 DEF AgentClaims, AgentFinishes
<1>8. Crash => UNCHANGED tasks
  BY DEF Crash
<1>9. QED
  BY <1>1, <1>5, <1>6, <1>7, <1>8 DEF Next, vars

\* A task that is done, failed or cancelled stays so: a poll compares what it
\* read with the job, and a merge only takes tasks that still wait.
THEOREM EndStays ==
  ASSUME Sequential
  PROVE  Spec => TerminalStays
<1>1. Inv /\ [Next]_vars =>
        [\A t \in DOMAIN tasks : isPrintTaskTerminal(tasks[t].status) =>
           tasks'[t].status = tasks[t].status]_vars
  BY EndedStays
<1>2. QED
  BY <1>1, InvHolds, PTL DEF Spec, TerminalStays

-----------------------------------------------------------------------------
(* Own waybills.                                                           *)

\* Calls may fail, but none that fails has done its work, and none is cut off.
NothingHalfDone == Sequential /\ Faults \subseteq {"acError", "confirmError"}

\* Steps that leave each task's orders and job, and each job's orders, as they are.
LEMMA SameOrders ==
  ASSUME Inv, Exact, DOMAIN tasks' = DOMAIN tasks, DOMAIN jobs \subseteq DOMAIN jobs',
         \A t \in DOMAIN tasks :
           /\ tasks'[t].orders = tasks[t].orders /\ tasks'[t].job = tasks[t].job
           /\ tasks'[t].status # "cancelled" => tasks[t].status # "cancelled",
         \A j \in DOMAIN jobs : jobs'[j].params = jobs[j].params,
         \A r \in Reqs : req[r].pc = "write" => req'[r] = req[r],
         UNCHANGED shipped
  PROVE  Exact'
<1>1. OwnWaybill'
  BY DEF Exact, OwnWaybill
<1>2. \A t \in DOMAIN tasks : tasks[t].job \in DOMAIN jobs
  BY DEF Inv, TasksCovered
<1>3. QED
  BY <1>1, <1>2 DEF Exact, JobOf

LEMMA ReqExact ==
  ASSUME Inv, Exact, NothingHalfDone, NEW r \in Reqs,
         ReqStep(r) \/ \E o \in Orders : BeginCreateTask(r, o)
  PROVE  Exact'
<1>1. \A q \in Reqs \ {r} : req[q].pc = "idle"
  BY ReqAlone DEF Inv, ReqStep, BeginCreateTask, MayStart, NothingHalfDone, Sequential,
       UpdatePendingJobParams, WriteMerged, CancelPendingJob, CreateTargetedJob, SaveTask
<1>2. /\ req \in [Reqs -> Req] /\ req[r] \in Req /\ ReqHolds(r)
      /\ tasks \in Seq(Task) /\ jobs \in Seq(Job)
  BY DEF Inv, Typed
<1>3. /\ \A t \in DOMAIN tasks : tasks[t] \in Task /\ tasks[t].job \in DOMAIN jobs
      /\ \A t, u \in DOMAIN tasks : t # u => tasks[t].job # tasks[u].job
      /\ \A j \in DOMAIN jobs : jobs[j] \in Job
  BY Places DEF Inv, TasksCovered
<1>4. /\ "lostReply" \notin Faults /\ "dbError" \notin Faults
  BY DEF NothingHalfDone
<1>5. \A t \in DOMAIN tasks : tasks[t].status # "cancelled" =>
        tasks[t].orders = jobs[tasks[t].job].params \/ (req[r].pc = "write" /\ req[r].survivor = t)
  BY <1>1 DEF Exact, JobOf
<1>6. CASE \E o \in Orders : BeginCreateTask(r, o)
  BY <1>1, <1>6, SameOrders DEF BeginCreateTask
<1>7. CASE UpdatePendingJobParams(r)
  <2> DEFINE s == req[r].survivor
             j == tasks[s].job
  <2>1. req[r].pc = "update" /\ UNCHANGED <<tasks, sync, accepted, shipped>>
    BY <1>7 DEF UpdatePendingJobParams
  <2>2. CASE UNCHANGED jobs
    BY <1>1, <2>1, <2>2, SameOrders
  <2>3. CASE jobs' = [jobs EXCEPT ![j].params = req[r].orders] /\ req' = [req EXCEPT ![r].pc = "write"]
    <3>1. s \in DOMAIN tasks /\ j \in DOMAIN jobs
      BY <1>2, <1>3, <2>1 DEF ReqHolds
    <3>2. req'[r].pc = "write" /\ req'[r].survivor = s
      BY <1>2, <2>3 DEF Req
    <3> HIDE DEF s, j
    <3>3. \A k \in DOMAIN jobs \ {j} : jobs'[k] = jobs[k]
      BY <1>2, <2>3
    <3>4. \A t \in DOMAIN tasks \ {s} : tasks[t].job \in DOMAIN jobs \ {j}
      BY <1>3, <3>1 DEF j
    <3>5. \A t \in DOMAIN tasks : tasks'[t].status # "cancelled" =>
            tasks'[t].orders = jobs'[tasks'[t].job].params
            \/ (req'[r].pc = "write" /\ req'[r].survivor = t)
      BY <1>5, <2>1, <3>2, <3>3, <3>4
    <3>6. QED
      BY <2>1, <3>5 DEF Exact, JobOf, OwnWaybill
  <2>4. QED
    BY <1>4, <1>7, <2>2, <2>3 DEF UpdatePendingJobParams
<1>8. CASE WriteMerged(r)
  <2> DEFINE s == req[r].survivor
  <2>1. /\ req[r].pc = "write" /\ UNCHANGED <<jobs, sync, accepted, shipped>>
        /\ tasks' = IF tasks[s].status # "pending" THEN tasks
                    ELSE [t \in DOMAIN tasks |->
                      IF t = s THEN [tasks[t] EXCEPT !.orders = req[r].orders]
                      ELSE IF t \in req[r].absorb /\ tasks[t].status = "pending"
                           THEN [tasks[t] EXCEPT !.status = "cancelled"] ELSE tasks[t]]
    BY <1>4, <1>8 DEF WriteMerged
  <2>2. /\ DOMAIN tasks' = DOMAIN tasks
        /\ tasks'[s].orders = req[r].orders /\ s \in DOMAIN tasks
        /\ \A t \in req[r].absorb : tasks'[t].status = "cancelled"
        /\ \A t \in DOMAIN tasks : tasks'[t].job = tasks[t].job
    BY <1>2, <2>1, WriteCovers DEF ReqHolds
  <2>3. jobs[tasks[s].job].params = req[r].orders /\ tasks[s].status = "pending"
    BY <1>2, <2>1 DEF ReqHolds, JobOf
  <2>4. \A t \in DOMAIN tasks \ {s} : t \notin req[r].absorb => tasks'[t] = tasks[t]
    BY <2>1
  <2>5. \A t \in DOMAIN tasks : tasks'[t].status # "cancelled" =>
          tasks'[t].orders = jobs[tasks[t].job].params
    BY <1>5, <2>2, <2>3, <2>4
  <2>6. QED
    BY <2>1, <2>2, <2>5 DEF Exact, JobOf, OwnWaybill
<1>9. CASE CancelPendingJob(r)
  <2>1. req[r].pc = "cancel" /\ UNCHANGED <<tasks, sync, shipped>>
    BY <1>9 DEF CancelPendingJob
  <2>2. DOMAIN jobs' = DOMAIN jobs /\ \A k \in DOMAIN jobs : jobs'[k].params = jobs[k].params
    <3>1. CASE UNCHANGED jobs
      BY <3>1
    <3>2. ASSUME NEW j, jobs' = [jobs EXCEPT ![j].status = "cancelled"]
          PROVE  DOMAIN jobs' = DOMAIN jobs /\ \A k \in DOMAIN jobs : jobs'[k].params = jobs[k].params
      <4>1. \A k \in DOMAIN jobs : [jobs[k] EXCEPT !.status = "cancelled"].params = jobs[k].params
        BY <1>3 DEF Job, JobStatuses
      <4>2. QED
        BY <1>2, <3>2, <4>1
    <3>3. QED
      BY <1>9, <3>1, <3>2 DEF CancelPendingJob
  <2>3. QED
    BY <1>1, <2>1, <2>2, SameOrders
<1>10. CASE CreateTargetedJob(r)
  <2> DEFINE e == [status |-> "pending", params |-> req[r].orders, mail |-> NoMail]
  <2>1. req[r].pc = "create" /\ UNCHANGED <<tasks, sync, accepted, shipped>>
        /\ (UNCHANGED jobs \/ jobs' = Append(jobs, e))
    BY <1>10 DEF CreateTargetedJob
  <2>2. e \in Job
    BY <1>2 DEF Job, JobStatuses, Req
  <2> HIDE DEF e
  <2>3. DOMAIN jobs \subseteq DOMAIN jobs' /\ \A k \in DOMAIN jobs : jobs'[k].params = jobs[k].params
    BY <1>2, <2>1, <2>2, Appended
  <2>4. QED
    BY <1>1, <2>1, <2>3, SameOrders
<1>11. CASE SaveTask(r)
  <2> DEFINE e == [status |-> "pending", orders |-> req[r].orders, job |-> req[r].survivor,
                   confirmed |-> FALSE]
             n == Len(tasks) + 1
  <2>1. req[r].pc = "save" /\ UNCHANGED <<jobs, sync, shipped>> /\ tasks' = Append(tasks, e)
    BY <1>4, <1>11 DEF SaveTask
  <2>2. e \in Task /\ e.orders = req[r].orders /\ e.job = req[r].survivor
    BY <1>2 DEF Task, TaskStatuses, Req
  <2>3. jobs[req[r].survivor].params = req[r].orders
    BY <1>2, <2>1 DEF ReqHolds
  <2> HIDE DEF e
  <2>4. /\ DOMAIN tasks' = DOMAIN tasks \cup {n} /\ tasks'[n] = e
        /\ \A i \in DOMAIN tasks : tasks'[i] = tasks[i]
    BY <1>2, <2>1, <2>2, Appended
  <2> HIDE DEF n
  <2>5. \A t \in DOMAIN tasks' : tasks'[t].status # "cancelled" =>
          tasks'[t].orders = jobs[tasks'[t].job].params
    BY <1>5, <2>1, <2>2, <2>3, <2>4
  <2>6. QED
    BY <2>1, <2>5 DEF Exact, JobOf, OwnWaybill
<1>12. QED
  BY <1>6, <1>7, <1>8, <1>9, <1>10, <1>11 DEF ReqStep

\* The waybill is the one order's: the job printed nothing else.
LEMMA ShipsOwn ==
  ASSUME Inv, Exact, NEW y \in Syncs, ConfirmShip(y)
  PROVE  OwnWaybill'
<1> DEFINE c == Current(y)
           mail == sync[y].seen[c].mail
<1>1. /\ sync[y].pc = "confirm"
      /\ shipped' = shipped \cup {<<o, mail>> : o \in sync[y].rows[c].orders}
  BY DEF ConfirmShip
<1>2. c \in DOMAIN sync[y].rows /\ SyncHolds(y)
  BY <1>1, CurrentIn DEF Inv
<1>3. /\ c \in DOMAIN tasks /\ sync[y].seen[c] \in Job /\ sync[y].rows[c].orders = tasks[c].orders
      /\ tasks[c].status # "cancelled" /\ AutoConfirms(sync[y].rows[c], mail)
      /\ mail # NoMail => sync[y].seen[c] = JobOf(c)
  BY <1>1, <1>2 DEF SyncHolds
<1>4. \A r \in Reqs : req[r].pc = "idle"
  BY <1>1, SyncAlone DEF Inv
<1>5. tasks[c].orders = JobOf(c).params
  BY <1>3, <1>4 DEF Exact
<1>6. mail # NoMail /\ Cardinality(tasks[c].orders) = 1
  BY <1>3 DEF AutoConfirms
<1>7. mail \in tasks[c].orders
  <2>1. mail = JobOf(c).mail
    BY <1>3, <1>6
  <2>2. tasks[c].job \in DOMAIN jobs
    BY <1>3 DEF Inv, TasksCovered
  <2>3. JobOf(c).mail \in JobOf(c).params
    BY <1>6, <2>1, <2>2 DEF Inv, JobsAnswered, JobOf
  <2>4. QED
    BY <1>5, <2>1, <2>3
<1>8. \E o : tasks[c].orders = {o}
  <2>1. IsFiniteSet(tasks[c].orders)
    <3>1. tasks[c].orders \subseteq Orders
      BY <1>3, Places DEF Inv, Task
    <3>2. QED
      BY <3>1, PrintAssumption, FS_Subset
  <2>2. QED
    BY <1>6, <2>1, FS_Singleton
<1>9. \A o \in sync[y].rows[c].orders : o = mail
  BY <1>3, <1>7, <1>8
<1> HIDE DEF mail, c
<1>10. \A p \in shipped' : p \in shipped \/ p = <<mail, mail>>
  BY <1>1, <1>9
<1>11. QED
  BY <1>10 DEF Exact, OwnWaybill

LEMMA SyncExact ==
  ASSUME Inv, Exact, NEW y \in Syncs, SyncStep(y)
  PROVE  Exact'
<1>1. CASE SyncRead(y) \/ GetJobs(y) \/ ConfirmFails(y)
  BY <1>1, SameOrders DEF SyncRead, GetJobs, ConfirmFails
<1>2. CASE SyncRow(y)
  <2> DEFINE c == Current(y) row == sync[y].rows[c]
             st == mapAgentsJobStatus(sync[y].seen[c].status)
  <2>1. /\ sync[y].pc = "rows" /\ UNCHANGED <<jobs, req, accepted, shipped>>
        /\ tasks' = IF st # row.status THEN [tasks EXCEPT ![c].status = st] ELSE tasks
    BY <1>2 DEF SyncRow
  <2>2. row = tasks[c] /\ row.status \in {"pending", "claimed", "done"}
    BY <2>1, RowIs
  <2>3. c = Current(y) /\ st = mapAgentsJobStatus(sync[y].seen[c].status) /\ row = sync[y].rows[c]
    OBVIOUS
  <2> HIDE DEF c, row, st
  <2>4. /\ DOMAIN tasks' = DOMAIN tasks
        /\ \A t \in DOMAIN tasks \ {c} : tasks'[t] = tasks[t]
        /\ tasks'[c].orders = tasks[c].orders /\ tasks'[c].job = tasks[c].job
    BY <2>1, <2>3, RowWritten
  <2>5. \A t \in DOMAIN tasks :
          /\ tasks'[t].orders = tasks[t].orders /\ tasks'[t].job = tasks[t].job
          /\ tasks'[t].status # "cancelled" => tasks[t].status # "cancelled"
    BY <2>2, <2>4
  <2>6. QED
    BY <2>1, <2>4, <2>5, SameOrders
<1>3. CASE ConfirmShip(y)
  <2>1. UNCHANGED <<tasks, jobs, req>>
    BY <1>3 DEF ConfirmShip
  <2>2. OwnWaybill'
    BY <1>3, ShipsOwn
  <2>3. QED
    BY <2>1, <2>2 DEF Exact, JobOf
<1>4. CASE MarkConfirmed(y)
  <2>1. UNCHANGED <<jobs, req, shipped>>
    BY <1>4 DEF MarkConfirmed
  <2>2. QED
    BY <1>4, <2>1, MarkWritten, SameOrders
<1>5. QED
  BY <1>1, <1>2, <1>3, <1>4 DEF SyncStep

LEMMA AgentExact ==
  ASSUME Inv, Exact, NEW j \in DOMAIN jobs, AgentClaims(j) \/ AgentFinishes(j)
  PROVE  Exact'
<1>1. UNCHANGED <<tasks, req, sync, accepted, shipped>> /\ jobs \in Seq(Job) /\ jobs[j] \in Job
  BY Places DEF AgentClaims, AgentFinishes, Inv, Typed
<1>2. \E x : jobs' = [jobs EXCEPT ![j] = x] /\ x.params = jobs[j].params
  <2>1. CASE AgentClaims(j) \/ jobs' = [jobs EXCEPT ![j].status = "failed"]
    <3>1. /\ [jobs[j] EXCEPT !.status = "running"].params = jobs[j].params
          /\ [jobs[j] EXCEPT !.status = "failed"].params = jobs[j].params
      BY <1>1 DEF Job, JobStatuses
    <3>2. QED
      BY <2>1, <3>1 DEF AgentClaims
  <2>2. ASSUME NEW m \in jobs[j].params \cup {NoMail},
               jobs' = [jobs EXCEPT ![j].status = "succeeded", ![j].mail = m]
        PROVE  \E x : jobs' = [jobs EXCEPT ![j] = x] /\ x.params = jobs[j].params
    <3> DEFINE x == [jobs[j] EXCEPT !.status = "succeeded", !.mail = m]
    <3>1. m \in Orders \cup {NoMail}
      BY <1>1 DEF Job
    <3>2. x.params = jobs[j].params
      BY <1>1, <3>1 DEF Job, JobStatuses
    <3>3. jobs' = [jobs EXCEPT ![j] = x]
      BY <2>2
    <3> HIDE DEF x
    <3>4. QED
      BY <3>2, <3>3
  <2>3. QED
    BY <2>1, <2>2 DEF AgentFinishes
<1>3. PICK x : jobs' = [jobs EXCEPT ![j] = x] /\ x.params = jobs[j].params
  BY <1>2
<1>4. DOMAIN jobs' = DOMAIN jobs /\ \A k \in DOMAIN jobs : jobs'[k].params = jobs[k].params
  BY <1>1, <1>3
<1>5. QED
  BY <1>1, <1>4, SameOrders

\* An order is only shipped with its own waybill when no reply is lost, no write
\* fails and the process does not stop: the confirmation then takes place when
\* the task holds the orders of its job, and a batch is not confirmed.
THEOREM ShipsOwnWaybill ==
  ASSUME NothingHalfDone
  PROVE  Spec => []OwnWaybill
<1>1. Init => Exact
  <2>1. Init => DOMAIN tasks = {} /\ shipped = {}
    BY DEF Init
  <2>2. QED
    BY <2>1 DEF Exact, OwnWaybill
<1>2. Inv /\ Exact /\ [Next]_vars => Exact'
  <2> SUFFICES ASSUME Inv, Exact, [Next]_vars PROVE Exact'
    OBVIOUS
  <2>1. CASE UNCHANGED vars
    BY <2>1, SameOrders DEF vars
  <2>2. ~ Crash
    BY DEF Crash, NothingHalfDone
  <2>3. QED
    BY <2>1, <2>2, ReqExact, SyncExact, AgentExact DEF Next
<1>3. Exact => OwnWaybill
  BY DEF Exact
<1>4. Sequential
  BY DEF NothingHalfDone
<1>5. Spec => []Inv
  BY <1>4, InvHolds
<1>6. QED
  BY <1>1, <1>2, <1>3, <1>5, PTL DEF Spec
=============================================================================
