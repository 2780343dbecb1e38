---------------------------- MODULE UploadSessions ----------------------------
(***************************************************************************)
(* The short sessions the server keeps in memory: photos a phone uploads   *)
(* for a page that polls (admin/upload_session.go), and tasks handed to    *)
(* the browser extension once (admin/kdzs_helper_handoff.go).              *)
(*                                                                         *)
(* Every access to a session is one step under the handler's mutex.  An    *)
(* upload looks at its session, lets go of the mutex while the photo is    *)
(* stored, and looks again.  An expired session may be deleted at any time *)
(* by the cleaning goroutine or by whoever finds it.                       *)
(***************************************************************************)
EXTENDS Integers, FiniteSets

CONSTANTS
  Batches,   \* tokens of photo sessions, each created once
  Uploads,   \* photos sent by phones
  MaxItems,  \* maxPhotoSessionItems
  TTL,       \* photoSessionTTL
  KeepAlive, \* photoSessionKeepAlive
  Renew,     \* less time left than this is renewed
  Tasks,     \* tokens of handed-off tasks, each created once
  Takers,    \* pages that ask for tasks
  TaskTTL,   \* kdzsHelperHandoffTTL
  MaxTime    \* bound on the clock

ASSUME UploadSessionsAssumption ==
  /\ MaxItems \in Nat \ {0} /\ MaxTime \in Nat /\ TaskTTL \in Nat
  /\ TTL \in Nat /\ KeepAlive \in Nat /\ Renew \in Nat
  /\ KeepAlive <= Renew /\ Renew <= TTL
  /\ "none" \notin Batches

VARIABLES
  now,     \* the clock
  batch,   \* photo sessions
  upload,  \* where each photo is
  handoff, \* when each task expires; -1: not created yet, -2: deleted
  got      \* who was given each task

uploadVars == <<now, batch, upload, handoff, got>>

\* status: "none" before the session is created, "gone" when it is deleted.
\* last: when its last photo was accepted.
NewBatch == [status |-> "none", items |-> {}, expires |-> 0, last |-> 0]
Waiting == [pc |-> "ready", to |-> "none"]

Open(b) == batch[b].status \in {"pending", "done"}
Live(b) == Open(b) /\ now <= batch[b].expires
Delete(b) == batch' = [batch EXCEPT ![b].status = "gone"]
Answer(u, how) == upload' = [upload EXCEPT ![u].pc = how]

UploadInit ==
  /\ now = 0
  /\ batch = [b \in Batches |-> NewBatch]
  /\ upload = [u \in Uploads |-> Waiting]
  /\ handoff = [t \in Tasks |-> -1]
  /\ got = [t \in Tasks |-> {}]

Tick == now < MaxTime /\ now' = now + 1 /\ UNCHANGED <<batch, upload, handoff, got>>

-----------------------------------------------------------------------------
(* Photos.                                                                 *)

CreateSession(b) ==
  /\ batch[b].status = "none"
  /\ batch' = [batch EXCEPT ![b] =
       [status |-> "pending", items |-> {}, expires |-> now + TTL, last |-> now]]
  /\ UNCHANGED <<now, upload, handoff, got>>

\* Seeded bug: sessions are cleaned when they are done, too.
ExpireDone(b) ==
  /\ Open(b) /\ (~Live(b) \/ batch[b].status = "done")
  /\ Delete(b)
  /\ UNCHANGED <<now, upload, handoff, got>>

\* cleanupLoop, and get for a poll that comes too late.
ExpireSession(b) ==
  /\ Open(b) /\ ~Live(b)
  /\ Delete(b)
  /\ UNCHANGED <<now, upload, handoff, got>>

\* The first look of MobileUpload.
BeginUpload(u, b) ==
  /\ upload[u].pc = "ready" /\ batch[b].status # "none"
  /\ \/ /\ ~Live(b)
        /\ IF Open(b) THEN Delete(b) ELSE UNCHANGED batch
        /\ upload' = [upload EXCEPT ![u] = [pc |-> "notFound", to |-> b]]
     \/ /\ Live(b)
        /\ upload' = [upload EXCEPT ![u] =
             [to |-> b,
              pc |-> IF batch[b].status = "done" /\ batch[b].items # {} THEN "passed"
                     ELSE IF Cardinality(batch[b].items) >= MaxItems THEN "full"
                     ELSE "storing"]]
        /\ UNCHANGED batch
  /\ UNCHANGED <<now, handoff, got>>

\* A photo that is no image, is too large or cannot be stored.
RefuseUpload(u) ==
  /\ upload[u].pc = "storing"
  /\ Answer(u, "refused")
  /\ UNCHANGED <<now, batch, handoff, got>>

\* The session as the accepted photo leaves it.
Closes(b, final) == final \/ Cardinality(batch[b].items) + 1 >= MaxItems
Accepted(b, u, final) ==
  [status |-> IF Closes(b, final) THEN "done" ELSE "pending",
   items |-> batch[b].items \cup {u},
   last |-> now,
   expires |-> IF Closes(b, final) THEN now + KeepAlive
               ELSE IF batch[b].expires - now < Renew THEN now + TTL
               ELSE batch[b].expires]

\* Seeded bug: the second look does not ask whether the batch is done.
EndUploadAppends(u, final) ==
  LET b == upload[u].to IN
  /\ upload[u].pc = "storing"
  /\ \/ ~Live(b) /\ Answer(u, "notFound") /\ UNCHANGED batch
     \/ /\ Live(b)
        /\ batch' = [batch EXCEPT ![b] = Accepted(b, u, final)]
        /\ Answer(u, "accepted")
  /\ UNCHANGED <<now, handoff, got>>

\* Seeded bug: only the phone's last photo ends the batch.
EndUploadUncounted(u, final) ==
  LET b == upload[u].to IN
  /\ upload[u].pc = "storing"
  /\ \/ ~Live(b) /\ Answer(u, "notFound") /\ UNCHANGED batch
     \/ Live(b) /\ batch[b].status = "done" /\ Answer(u, "passed") /\ UNCHANGED batch
     \/ /\ Live(b) /\ batch[b].status # "done"
        /\ batch' = [batch EXCEPT ![b] =
             [Accepted(b, u, final) EXCEPT !.status = IF final THEN "done" ELSE "pending"]]
        /\ Answer(u, "accepted")
  /\ UNCHANGED <<now, handoff, got>>

\* The second look: the photo is stored.
EndUpload(u, final) ==
  LET b == upload[u].to IN
  /\ upload[u].pc = "storing"
  /\ \/ ~Live(b) /\ Answer(u, "notFound") /\ UNCHANGED batch
     \/ Live(b) /\ batch[b].status = "done" /\ Answer(u, "passed") /\ UNCHANGED batch
     \/ /\ Live(b) /\ batch[b].status # "done"
        /\ batch' = [batch EXCEPT ![b] = Accepted(b, u, final)]
        /\ Answer(u, "accepted")
  /\ UNCHANGED <<now, handoff, got>>

-----------------------------------------------------------------------------
(* Tasks.                                                                  *)

CreateTask(t) ==
  /\ handoff[t] = -1 /\ got[t] = {}
  /\ handoff' = [handoff EXCEPT ![t] = now + TaskTTL]
  /\ UNCHANGED <<now, batch, upload, got>>

\* Seeded bug: the task is read, and left to the cleaning goroutine.
TakeReads(t, p) ==
  /\ handoff[t] >= 0
  /\ got' = IF now <= handoff[t] THEN [got EXCEPT ![t] = @ \cup {p}] ELSE got
  /\ UNCHANGED <<now, batch, upload, handoff>>

\* take: given out and deleted under the mutex; deleted only, when too late.
TakeTask(t, p) ==
  /\ handoff[t] >= 0
  /\ got' = IF now <= handoff[t] THEN [got EXCEPT ![t] = @ \cup {p}] ELSE got
  /\ handoff' = [handoff EXCEPT ![t] = -2]
  /\ UNCHANGED <<now, batch, upload>>

ExpireTask(t) ==
  /\ handoff[t] >= 0 /\ now > handoff[t]
  /\ handoff' = [handoff EXCEPT ![t] = -2]
  /\ UNCHANGED <<now, batch, upload, got>>

UploadNext ==
  \/ Tick
  \/ \E b \in Batches : CreateSession(b) \/ ExpireSession(b)
  \/ \E u \in Uploads :
       \/ \E b \in Batches : BeginUpload(u, b)
       \/ RefuseUpload(u)
       \/ \E final \in BOOLEAN : EndUpload(u, final)
  \/ \E t \in Tasks :
       CreateTask(t) \/ ExpireTask(t) \/ (\E p \in Takers : TakeTask(t, p))

UploadSpec == UploadInit /\ [][UploadNext]_uploadVars

-----------------------------------------------------------------------------
(* Properties.                                                             *)

UploadTypeOK ==
  /\ now \in 0 .. MaxTime
  /\ batch \in [Batches -> [status: {"none", "pending", "done", "gone"}, items: SUBSET Uploads,
                            expires: Int, last: Int]]
  /\ upload \in [Uploads -> [pc: {"ready", "storing", "accepted", "passed", "full", "refused",
                                  "notFound"}, to: Batches \cup {"none"}]]
  /\ handoff \in [Tasks -> Int] /\ got \in [Tasks -> SUBSET Takers]

\* However many phones upload at once past the first check, a batch holds no
\* more photos than its limit.
BatchLimit == \A b \in Batches : Cardinality(batch[b].items) <= MaxItems

\* A batch that is done stays as it is until it is deleted: the page that polls
\* and saw it done has all its photos.
DoneIsFinal ==
  [][\A b \in Batches : batch[b].status = "done" =>
       batch'[b].status \in {"done", "gone"} /\ batch'[b].items = batch[b].items]_uploadVars

\* A page that polls at least every KeepAlive sees every photo that was
\* accepted: a session is not deleted sooner after its last one.
PollSeesAll ==
  [][\A b \in Batches : Open(b) /\ ~Open(b)' => now > batch[b].last + KeepAlive]_uploadVars

\* A task is given to one page at most, whoever asks when.
HandedOutOnce == \A t \in Tasks : Cardinality(got[t]) <= 1
=============================================================================
