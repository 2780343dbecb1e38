----------------------------- MODULE Desk_proofs ------------------------------
(***************************************************************************)
(* The small parts of the server: tokens, upload sessions, profiles and    *)
(* SF's times, each for any constants that keep its assumption; and that   *)
(* the desk, whose behaviours the runs explore, is these parts, so that    *)
(* what is proved of a part holds of the desk.                             *)
(***************************************************************************)
EXTENDS Desk, FiniteSetTheorems, TLAPS

-----------------------------------------------------------------------------
(* OAuthCache.                                                              *)

\* The life of a token, as SF tells it or by default.
Life == (Lives \ {0}) \cup {DefaultLife}

\* A token on its way was issued no longer ago than the client waits for it.
FetchedInTime ==
  \A c \in Callers : fetch[c].pc = "issued" =>
    /\ fetch[c].told \in Lives
    /\ fetch[c].issued <= clock /\ clock <= fetch[c].issued + Timeout

\* The cache keeps a token no longer than from the latest time it can have come.
CachedInTime ==
  cache.until # 0 =>
    cache.life \in Life /\ cache.until <= cache.issued + Timeout + Kept(cache.life)

CacheInv == OAuthTypeOK /\ FetchedInTime /\ CachedInTime /\ HandedAlive

LEMMA LifeLong ==
  \A told \in Lives : LifeOf(told) \in Life
  BY DEF Life, LifeOf

LEMMA LifeBounds ==
  ASSUME NEW life \in Life
  PROVE  life \in Nat /\ life > LeastTTL + Timeout
  BY OAuthCacheAssumption DEF Life

\* The cache drops a token before it expires, and Margin earlier when it lives
\* long enough.
LEMMA KeptAlive ==
  ASSUME NEW life \in Life
  PROVE  /\ Kept(life) \in Nat
         /\ Timeout + Kept(life) < life \/ (Timeout <= Margin /\ Timeout + Kept(life) <= life)
         /\ life >= Margin + LeastTTL => Kept(life) = life - Margin
  BY LifeBounds, OAuthCacheAssumption DEF Kept

LEMMA CacheInit == OAuthInit => CacheInv
  BY OAuthCacheAssumption
  DEF OAuthInit, CacheInv, OAuthTypeOK, FetchedInTime, CachedInTime, HandedAlive, NoToken, NotHanded,
      Resting

LEMMA CacheSteps == CacheInv /\ [OAuthNext]_oauthVars => CacheInv'
<1> SUFFICES ASSUME CacheInv, [OAuthNext]_oauthVars PROVE CacheInv'
  OBVIOUS
<1> USE OAuthCacheAssumption DEF CacheInv
<1>1. CASE OAuthTick
  BY <1>1 DEF OAuthTick, OAuthTypeOK, FetchedInTime, CachedInTime, HandedAlive
<1>2. ASSUME NEW c \in Callers, LookUp(c) PROVE CacheInv'
  <2>1. OAuthTypeOK' /\ FetchedInTime' /\ CachedInTime'
    BY <1>2 DEF LookUp, HandOut, OAuthTypeOK, FetchedInTime, CachedInTime
  <2>2. HandedAlive'
    <3>1. CASE clock < cache.until
      <4>1. /\ handed' = [issued |-> cache.issued, life |-> cache.life, at |-> clock]
            /\ cache.life \in Life /\ cache.until <= cache.issued + Timeout + Kept(cache.life)
        BY <1>2, <3>1 DEF LookUp, HandOut, CachedInTime, OAuthTypeOK
      <4>2. cache.issued \in Nat /\ cache.until \in Nat /\ cache.life \in Nat /\ clock \in Nat
        BY DEF OAuthTypeOK
      <4>3. QED
        BY <3>1, <4>1, <4>2, KeptAlive, LifeBounds DEF HandedAlive
    <3>2. CASE ~(clock < cache.until)
      BY <1>2, <3>2 DEF LookUp, HandedAlive, OAuthTypeOK
    <3>3. QED
      BY <3>1, <3>2
  <2>3. QED
    BY <2>1, <2>2
<1>3. ASSUME NEW c \in Callers, NEW told \in Lives, Issue(c, told) PROVE CacheInv'
  BY <1>3 DEF Issue, OAuthTypeOK, FetchedInTime, CachedInTime, HandedAlive
<1>4. ASSUME NEW c \in Callers, FetchFails(c) PROVE CacheInv'
  BY <1>4 DEF FetchFails, Rest, Resting, OAuthTypeOK, FetchedInTime, CachedInTime, HandedAlive
<1>5. ASSUME NEW c \in Callers, Store(c) PROVE CacheInv'
  <2> DEFINE life == LifeOf(fetch[c].told)
  <2>1. /\ life \in Life
        /\ fetch[c].issued \in Nat /\ clock \in Nat
        /\ fetch[c].issued <= clock /\ clock <= fetch[c].issued + Timeout
    BY <1>5, LifeLong DEF Store, FetchedInTime, OAuthTypeOK
  <2>2. /\ cache' = [issued |-> fetch[c].issued, life |-> life, until |-> clock + Kept(life)]
        /\ handed' = [issued |-> fetch[c].issued, life |-> life, at |-> clock]
        /\ fetch' = [fetch EXCEPT ![c] = Resting]
        /\ clock' = clock
    BY <1>5 DEF Store, HandOut, Rest
  <2>3. life \in Nat /\ Kept(life) \in Nat /\ life > LeastTTL + Timeout
    BY <2>1, KeptAlive, LifeBounds
  <2> HIDE DEF life
  <2>4. OAuthTypeOK'
    BY <2>1, <2>2, <2>3 DEF OAuthTypeOK, Resting
  <2>5. FetchedInTime'
    BY <2>2 DEF FetchedInTime, Resting, OAuthTypeOK
  <2>6. CachedInTime'
    BY <2>1, <2>2, <2>3 DEF CachedInTime
  <2>7. HandedAlive'
    BY <2>1, <2>2, <2>3 DEF HandedAlive
  <2>8. QED
    BY <2>4, <2>5, <2>6, <2>7
<1>6. CASE UNCHANGED oauthVars
  BY <1>6 DEF oauthVars, OAuthTypeOK, FetchedInTime, CachedInTime, HandedAlive
<1>7. QED
  BY <1>1, <1>2, <1>3, <1>4, <1>5, <1>6 DEF OAuthNext

\* A token that is handed out has not expired at SF, for all constants
\* (oauth.go's GetAccessToken), by the invariant CacheInv.
THEOREM TokensHandedAlive == OAuthSpec => []HandedAlive
<1>1. CacheInv => HandedAlive
  BY DEF CacheInv
<1>2. QED
  BY CacheInit, CacheSteps, <1>1, PTL DEF OAuthSpec

-----------------------------------------------------------------------------
(* UploadSessions.                                                          *)

\* While a batch is not closed there is room for one more photo: the check after
\* the upload, and not the one before it, keeps the limit.
RoomLeft ==
  \A b \in Batches :
    /\ IsFiniteSet(batch[b].items)
    /\ Cardinality(batch[b].items) <= MaxItems
    /\ batch[b].status \in {"none", "pending"} => Cardinality(batch[b].items) < MaxItems

\* A session that is open outlives its last photo by KeepAlive.
LastsLong == \A b \in Batches : Open(b) => batch[b].expires >= batch[b].last + KeepAlive

\* A task that was given to somebody is gone.
GivenIsGone ==
  \A t \in Tasks : got[t] = {} \/ (handoff[t] = -2 /\ \E p \in Takers : got[t] = {p})

UploadInv == UploadTypeOK /\ RoomLeft /\ LastsLong /\ GivenIsGone

\* One photo more in a batch that is not closed.
LEMMA AcceptedFits ==
  ASSUME UploadTypeOK, RoomLeft, NEW b \in Batches, batch[b].status = "pending",
         NEW u \in Uploads, NEW final \in BOOLEAN
  PROVE  LET r == Accepted(b, u, final) IN
         /\ r \in [status: {"none", "pending", "done", "gone"}, items: SUBSET Uploads,
                   expires: Int, last: Int]
         /\ IsFiniteSet(r.items)
         /\ Cardinality(r.items) <= MaxItems
         /\ r.status \in {"none", "pending"} => Cardinality(r.items) < MaxItems
         /\ r.expires >= r.last + KeepAlive
<1>1. IsFiniteSet(batch[b].items) /\ Cardinality(batch[b].items) < MaxItems
  BY DEF RoomLeft
<1>2. /\ IsFiniteSet(batch[b].items \cup {u})
      /\ \/ Cardinality(batch[b].items \cup {u}) = Cardinality(batch[b].items)
         \/ Cardinality(batch[b].items \cup {u}) = Cardinality(batch[b].items) + 1
  BY <1>1, FS_AddElement
<1>3. Cardinality(batch[b].items) \in Nat /\ Cardinality(batch[b].items \cup {u}) \in Nat
  BY <1>1, <1>2, FS_CardinalityType
<1>4. /\ now \in Nat /\ batch[b].expires \in Int
      /\ batch[b].items \subseteq Uploads
  BY DEF UploadTypeOK
<1>5. QED
  BY <1>1, <1>2, <1>3, <1>4, UploadSessionsAssumption DEF Accepted, Closes

LEMMA UploadInvInit == UploadInit => UploadInv
<1> SUFFICES ASSUME UploadInit PROVE UploadInv
  OBVIOUS
<1>1. IsFiniteSet({}) /\ Cardinality({}) = 0
  BY FS_EmptySet
<1>2. UploadTypeOK
  <2>1. now \in 0 .. MaxTime
    BY UploadSessionsAssumption DEF UploadInit
  <2>2. batch \in [Batches -> [status: {"none", "pending", "done", "gone"}, items: SUBSET Uploads,
                               expires: Int, last: Int]]
    BY DEF UploadInit, NewBatch
  <2>3. upload \in [Uploads -> [pc: {"ready", "storing", "accepted", "passed", "full", "refused",
                                     "notFound"}, to: Batches \cup {"none"}]]
    BY DEF UploadInit, Waiting
  <2>4. handoff \in [Tasks -> Int] /\ got \in [Tasks -> SUBSET Takers]
    BY DEF UploadInit
  <2>5. QED
    BY <2>1, <2>2, <2>3, <2>4 DEF UploadTypeOK
<1>3. RoomLeft
  <2>1. \A b \in Batches : batch[b].items = {}
    BY DEF UploadInit, NewBatch
  <2>2. 0 < MaxItems /\ 0 <= MaxItems
    BY UploadSessionsAssumption
  <2>3. QED
    BY <1>1, <2>1, <2>2 DEF RoomLeft
<1>4. LastsLong
  BY DEF UploadInit, LastsLong, NewBatch, Open
<1>5. GivenIsGone
  BY DEF UploadInit, GivenIsGone
<1>6. QED
  BY <1>2, <1>3, <1>4, <1>5 DEF UploadInv

\* What every step leaves of a batch: it is created empty, deleted when it has
\* expired, closed or filled by one photo, or left as it is.
BatchStep(b) ==
  \/ batch'[b] = batch[b]
  \/ /\ batch[b].status = "none"
     /\ batch'[b] = [status |-> "pending", items |-> {}, expires |-> now + TTL, last |-> now]
  \/ /\ Open(b) /\ ~Live(b)
     /\ batch'[b] = [batch[b] EXCEPT !.status = "gone"]
  \/ /\ batch[b].status = "pending"
     /\ \E u \in Uploads, final \in BOOLEAN : batch'[b] = Accepted(b, u, final)

LEMMA StepsOfBatches ==
  ASSUME UploadTypeOK, [UploadNext]_uploadVars, NEW b \in Batches
  PROVE  BatchStep(b)
<1>1. CASE Tick \/ UNCHANGED uploadVars
  BY <1>1 DEF Tick, uploadVars, BatchStep
<1>2. ASSUME NEW c \in Batches, CreateSession(c) PROVE BatchStep(b)
  BY <1>2 DEF CreateSession, BatchStep, UploadTypeOK
<1>3. ASSUME NEW c \in Batches, ExpireSession(c) PROVE BatchStep(b)
  BY <1>3 DEF ExpireSession, Delete, BatchStep, UploadTypeOK
<1>4. ASSUME NEW u \in Uploads, NEW c \in Batches, BeginUpload(u, c) PROVE BatchStep(b)
  <2>1. UNCHANGED batch \/ (~Live(c) /\ Open(c) /\ Delete(c))
    BY <1>4 DEF BeginUpload
  <2>2. QED
    BY <2>1 DEF Delete, BatchStep, UploadTypeOK
<1>5. ASSUME NEW u \in Uploads, RefuseUpload(u) PROVE BatchStep(b)
  BY <1>5 DEF RefuseUpload, BatchStep
<1>6. ASSUME NEW u \in Uploads, NEW final \in BOOLEAN, EndUpload(u, final) PROVE BatchStep(b)
  <2>1. CASE UNCHANGED batch
    BY <2>1 DEF BatchStep
  <2>2. CASE /\ Live(upload[u].to) /\ batch[upload[u].to].status # "done"
             /\ batch' = [batch EXCEPT ![upload[u].to] = Accepted(upload[u].to, u, final)]
    <3>1. CASE b = upload[u].to
      <4>1. batch[b].status = "pending"
        BY <2>2, <3>1 DEF Live, Open
      <4>2. batch'[b] = Accepted(b, u, final)
        BY <2>2, <3>1 DEF UploadTypeOK
      <4>3. QED
        BY <4>1, <4>2 DEF BatchStep
    <3>2. CASE b # upload[u].to
      BY <2>2, <3>2 DEF BatchStep, UploadTypeOK
    <3>3. QED
      BY <3>1, <3>2
  <2>3. QED
    BY <1>6, <2>1, <2>2 DEF EndUpload
<1>7. ASSUME NEW t \in Tasks, CreateTask(t) PROVE BatchStep(b)
  BY <1>7 DEF CreateTask, BatchStep
<1>8. ASSUME NEW t \in Tasks, ExpireTask(t) PROVE BatchStep(b)
  BY <1>8 DEF ExpireTask, BatchStep
<1>9. ASSUME NEW t \in Tasks, NEW p \in Takers, TakeTask(t, p) PROVE BatchStep(b)
  BY <1>9 DEF TakeTask, BatchStep
<1>10. QED
  BY <1>1, <1>2, <1>3, <1>4, <1>5, <1>6, <1>7, <1>8, <1>9 DEF UploadNext

\* Deleting a session keeps the table of sessions well typed.
LEMMA DeletedTyped ==
  ASSUME NEW S, NEW f, NEW b,
         f \in [Batches -> [status: {"none", "pending", "done", "gone"}, items: S,
                            expires: Int, last: Int]]
  PROVE  [f EXCEPT ![b].status = "gone"] \in
           [Batches -> [status: {"none", "pending", "done", "gone"}, items: S,
                        expires: Int, last: Int]]
<1> DEFINE R == [status: {"none", "pending", "done", "gone"}, items: S, expires: Int, last: Int]
<1>1. \A r \in R : [r EXCEPT !.status = "gone"] \in R
  OBVIOUS
<1>2. f \in [Batches -> R]
  OBVIOUS
<1> HIDE DEF R
<1>3. [f EXCEPT ![b].status = "gone"] \in [Batches -> R]
  BY <1>1, <1>2
<1>4. QED
  BY <1>3 DEF R

LEMMA TypeHolds ==
  ASSUME UploadInv, [UploadNext]_uploadVars
  PROVE  UploadTypeOK'
<1> USE UploadSessionsAssumption DEF UploadTypeOK
<1> SUFFICES ASSUME UploadTypeOK PROVE UploadTypeOK'
  BY DEF UploadInv
<1>1. CASE Tick \/ UNCHANGED uploadVars
  BY <1>1 DEF Tick, uploadVars
<1>2. ASSUME NEW b \in Batches, CreateSession(b) PROVE UploadTypeOK'
  <2>1. now \in Int /\ now + TTL \in Int
    OBVIOUS
  <2>2. batch' \in [Batches -> [status: {"none", "pending", "done", "gone"}, items: SUBSET Uploads,
                                expires: Int, last: Int]]
    BY <1>2, <2>1 DEF CreateSession
  <2>3. QED
    BY <1>2, <2>2 DEF CreateSession
<1>3. ASSUME NEW b \in Batches, ExpireSession(b) PROVE UploadTypeOK'
  BY <1>3, DeletedTyped DEF ExpireSession, Delete
<1>4. ASSUME NEW u \in Uploads, NEW b \in Batches, BeginUpload(u, b) PROVE UploadTypeOK'
  <2>1. batch' \in [Batches -> [status: {"none", "pending", "done", "gone"}, items: SUBSET Uploads,
                                expires: Int, last: Int]]
    <3>1. UNCHANGED batch \/ Delete(b)
      BY <1>4 DEF BeginUpload
    <3>2. CASE UNCHANGED batch
      BY <3>2
    <3>3. CASE Delete(b)
      BY <3>3, DeletedTyped DEF Delete
    <3>4. QED
      BY <3>1, <3>2, <3>3
  <2>2. \E pc \in {"notFound", "passed", "full", "storing"} :
          upload' = [upload EXCEPT ![u] = [pc |-> pc, to |-> b]]
    BY <1>4 DEF BeginUpload
  <2>3. UNCHANGED <<now, handoff, got>>
    BY <1>4 DEF BeginUpload
  <2>4. QED
    BY <2>1, <2>2, <2>3
<1>5. ASSUME NEW u \in Uploads, RefuseUpload(u) PROVE UploadTypeOK'
  BY <1>5 DEF RefuseUpload, Answer
<1>6. ASSUME NEW u \in Uploads, NEW final \in BOOLEAN, EndUpload(u, final) PROVE UploadTypeOK'
  <2>1. upload' \in [Uploads -> [pc: {"ready", "storing", "accepted", "passed", "full", "refused",
                                      "notFound"}, to: Batches \cup {"none"}]]
    BY <1>6 DEF EndUpload, Answer
  <2>2. CASE UNCHANGED batch
    BY <1>6, <2>1, <2>2 DEF EndUpload
  <2>3. CASE /\ Live(upload[u].to) /\ batch[upload[u].to].status # "done"
             /\ batch' = [batch EXCEPT ![upload[u].to] = Accepted(upload[u].to, u, final)]
    <3>1. CASE upload[u].to \in Batches
      <4>1. batch[upload[u].to].status = "pending"
        BY <2>3 DEF Live, Open
      <4>2. Accepted(upload[u].to, u, final) \in
              [status: {"none", "pending", "done", "gone"}, items: SUBSET Uploads, expires: Int,
               last: Int]
        BY <3>1, <4>1, AcceptedFits DEF UploadInv
      <4>3. QED
        BY <1>6, <2>1, <2>3, <4>2 DEF EndUpload
    <3>2. CASE upload[u].to \notin Batches
      BY <1>6, <2>1, <2>3, <3>2 DEF EndUpload
    <3>3. QED
      BY <3>1, <3>2
  <2>4. QED
    BY <1>6, <2>2, <2>3 DEF EndUpload
<1>7. ASSUME NEW t \in Tasks, CreateTask(t) PROVE UploadTypeOK'
  BY <1>7 DEF CreateTask
<1>8. ASSUME NEW t \in Tasks, ExpireTask(t) PROVE UploadTypeOK'
  BY <1>8 DEF ExpireTask
<1>9. ASSUME NEW t \in Tasks, NEW p \in Takers, TakeTask(t, p) PROVE UploadTypeOK'
  BY <1>9 DEF TakeTask
<1>10. QED
  BY <1>1, <1>2, <1>3, <1>4, <1>5, <1>6, <1>7, <1>8, <1>9 DEF UploadNext

LEMMA BatchesHold ==
  ASSUME UploadInv, [UploadNext]_uploadVars
  PROVE  RoomLeft' /\ LastsLong'
<1> SUFFICES ASSUME NEW b \in Batches
             PROVE  /\ IsFiniteSet(batch'[b].items)
                    /\ Cardinality(batch'[b].items) <= MaxItems
                    /\ batch'[b].status \in {"none", "pending"} =>
                         Cardinality(batch'[b].items) < MaxItems
                    /\ batch'[b].status \in {"pending", "done"} =>
                         batch'[b].expires >= batch'[b].last + KeepAlive
  BY DEF RoomLeft, LastsLong, Open
<1>1. batch[b] \in [status: {"none", "pending", "done", "gone"}, items: SUBSET Uploads,
                    expires: Int, last: Int] /\ now \in Nat
  BY DEF UploadInv, UploadTypeOK
<1>2. /\ IsFiniteSet(batch[b].items)
      /\ Cardinality(batch[b].items) <= MaxItems
      /\ batch[b].status \in {"none", "pending"} => Cardinality(batch[b].items) < MaxItems
      /\ batch[b].status \in {"pending", "done"} =>
           batch[b].expires >= batch[b].last + KeepAlive
  BY DEF UploadInv, RoomLeft, LastsLong, Open
<1>3. BatchStep(b)
  BY StepsOfBatches DEF UploadInv
<1>4. CASE /\ batch[b].status = "pending"
           /\ \E u \in Uploads, final \in BOOLEAN : batch'[b] = Accepted(b, u, final)
  BY <1>4, AcceptedFits DEF UploadInv
<1>5. CASE batch'[b] = batch[b]
  BY <1>2, <1>5
<1>6. CASE /\ batch[b].status = "none"
           /\ batch'[b] = [status |-> "pending", items |-> {}, expires |-> now + TTL, last |-> now]
  BY <1>1, <1>2, <1>6, FS_EmptySet, UploadSessionsAssumption
<1>7. CASE batch'[b] = [batch[b] EXCEPT !.status = "gone"]
  BY <1>1, <1>2, <1>7
<1>8. QED
  BY <1>3, <1>4, <1>5, <1>6, <1>7 DEF BatchStep

LEMMA GivenHolds ==
  ASSUME UploadInv, [UploadNext]_uploadVars
  PROVE  GivenIsGone'
<1> USE DEF GivenIsGone
<1>0. GivenIsGone /\ UploadTypeOK
  BY DEF UploadInv
<1>1. CASE UNCHANGED <<handoff, got>>
  BY <1>0, <1>1
<1>2. ASSUME NEW t \in Tasks, CreateTask(t) PROVE GivenIsGone'
  BY <1>0, <1>2 DEF CreateTask, UploadTypeOK
<1>3. ASSUME NEW t \in Tasks, ExpireTask(t) PROVE GivenIsGone'
  BY <1>0, <1>3 DEF ExpireTask, UploadTypeOK
<1>4. ASSUME NEW t \in Tasks, NEW p \in Takers, TakeTask(t, p) PROVE GivenIsGone'
  <2>1. got[t] = {}
    BY <1>0, <1>4 DEF TakeTask
  <2>2. got' = got \/ got' = [got EXCEPT ![t] = got[t] \cup {p}]
    BY <1>4 DEF TakeTask
  <2>3. handoff' = [handoff EXCEPT ![t] = -2]
    BY <1>4 DEF TakeTask
  <2>4. QED
    BY <1>0, <2>1, <2>2, <2>3 DEF UploadTypeOK
<1>5. CASE \/ Tick \/ UNCHANGED uploadVars
           \/ \E b \in Batches : CreateSession(b) \/ ExpireSession(b)
           \/ \E u \in Uploads : (\E b \in Batches : BeginUpload(u, b)) \/ RefuseUpload(u)
           \/ \E u \in Uploads, final \in BOOLEAN : EndUpload(u, final)
  BY <1>1, <1>5
  DEF Tick, uploadVars, CreateSession, ExpireSession, BeginUpload, RefuseUpload, EndUpload
<1>6. QED
  BY <1>2, <1>3, <1>4, <1>5 DEF UploadNext

LEMMA UploadInvHolds == UploadSpec => []UploadInv
<1>1. UploadInv /\ [UploadNext]_uploadVars => UploadInv'
  BY TypeHolds, BatchesHold, GivenHolds DEF UploadInv
<1>2. QED
  BY UploadInvInit, <1>1, PTL DEF UploadSpec

\* A batch never holds more photos than its limit, however many phones upload at
\* once (upload_session.go's MobileUpload).
THEOREM BatchWithinLimit == UploadSpec => []BatchLimit
<1>1. UploadInv => BatchLimit
  BY DEF UploadInv, RoomLeft, BatchLimit
<1>2. QED
  BY UploadInvHolds, <1>1, PTL

\* A task is given to one page at most (kdzs_helper_handoff.go's take).
THEOREM TaskHandedOutOnce == UploadSpec => []HandedOutOnce
<1>1. ASSUME UploadInv PROVE HandedOutOnce
  <2>1. Cardinality({}) = 0 /\ \A p \in Takers : Cardinality({p}) = 1
    BY FS_EmptySet, FS_Singleton
  <2>2. QED
    BY <1>1, <2>1 DEF UploadInv, GivenIsGone, HandedOutOnce
<1>2. QED
  BY UploadInvHolds, <1>1, PTL

\* A batch that is done stays as it is until it is deleted.
THEOREM DoneStaysDone == UploadSpec => DoneIsFinal
<1>1. ASSUME UploadInv, [UploadNext]_uploadVars
      PROVE  \A b \in Batches : batch[b].status = "done" =>
               batch'[b].status \in {"done", "gone"} /\ batch'[b].items = batch[b].items
  <2> SUFFICES ASSUME NEW b \in Batches, batch[b].status = "done"
               PROVE  batch'[b].status \in {"done", "gone"} /\ batch'[b].items = batch[b].items
    OBVIOUS
  <2>1. BatchStep(b) /\ batch[b] \in [status: {"none", "pending", "done", "gone"},
                                     items: SUBSET Uploads, expires: Int, last: Int]
    BY <1>1, StepsOfBatches DEF UploadInv, UploadTypeOK
  <2>2. QED
    BY <2>1 DEF BatchStep
<1>2. QED
  BY UploadInvHolds, <1>1, PTL DEF UploadSpec, DoneIsFinal

\* A session is not deleted sooner than KeepAlive after its last photo, so that a
\* page that polls that often sees all of them.
THEOREM PollsInTime == UploadSpec => PollSeesAll
<1>1. ASSUME UploadInv, [UploadNext]_uploadVars
      PROVE  \A b \in Batches : Open(b) /\ ~Open(b)' => now > batch[b].last + KeepAlive
  <2> SUFFICES ASSUME NEW b \in Batches, Open(b), ~Open(b)'
               PROVE  now > batch[b].last + KeepAlive
    OBVIOUS
  <2>1. batch[b] \in [status: {"none", "pending", "done", "gone"}, items: SUBSET Uploads,
                      expires: Int, last: Int] /\ now \in Nat
    BY <1>1 DEF UploadInv, UploadTypeOK
  <2>2. ~Live(b)
    <3>1. BatchStep(b) /\ batch'[b].status \notin {"pending", "done"}
      BY <1>1, StepsOfBatches DEF UploadInv, Open
    <3>2. batch[b].status \in {"pending", "done"}
      BY DEF Open
    <3>3. \A u \in Uploads, final \in BOOLEAN : Accepted(b, u, final).status \in {"pending", "done"}
      BY DEF Accepted
    <3>4. QED
      BY <3>1, <3>2, <3>3 DEF BatchStep
  <2>3. batch[b].expires >= batch[b].last + KeepAlive /\ ~(now <= batch[b].expires)
    BY <1>1, <2>2 DEF UploadInv, LastsLong, Live
  <2>4. QED
    BY <2>1, <2>3, UploadSessionsAssumption
<1>2. QED
  BY UploadInvHolds, <1>1, PTL DEF UploadSpec, PollSeesAll

-----------------------------------------------------------------------------
(* Profiles.                                                                *)

\* Tables are functions; a step changes no more than the row it names.
CarrierRows == carrier = [i \in Ids |-> carrier[i]]

LEMMA SaveKeepsNames ==
  ASSUME CarrierRows, NamesUnique, NEW e \in Editors, SaveCarrier(e)
  PROVE  CarrierRows' /\ NamesUnique'
<1>1. CASE Taken(edit[e].id, edit[e].name)
  BY <1>1 DEF SaveCarrier, CarrierRows, NamesUnique
<1>2. CASE ~Taken(edit[e].id, edit[e].name)
  <2>1. carrier' = [carrier EXCEPT ![edit[e].id] = edit[e].name]
    BY <1>2 DEF SaveCarrier
  <2>2. \A j \in Ids : j # edit[e].id => carrier[j] # edit[e].name
    BY <1>2 DEF Taken
  <2>3. QED
    BY <2>1, <2>2 DEF CarrierRows, NamesUnique
<1>3. QED
  BY <1>1, <1>2

\* Two carrier accounts never share a name (carrier_service.go): the unique index
\* refuses what the check before let through.
THEOREM NamesApart == ProfileSpec => []NamesUnique
<1>1. ProfileInit => CarrierRows /\ NamesUnique
  BY DEF ProfileInit, CarrierRows, NamesUnique
<1>2. CarrierRows /\ NamesUnique /\ [ProfileNext]_profileVars => CarrierRows' /\ NamesUnique'
  <2> SUFFICES ASSUME CarrierRows, NamesUnique, [ProfileNext]_profileVars
               PROVE  CarrierRows' /\ NamesUnique'
    OBVIOUS
  <2>1. CASE UNCHANGED carrier
    BY <2>1 DEF CarrierRows, NamesUnique
  <2>2. ASSUME NEW e \in Editors, SaveCarrier(e) PROVE CarrierRows' /\ NamesUnique'
    BY <2>2, SaveKeepsNames
  <2>3. ASSUME NEW e \in Editors, NEW i \in Ids, DeleteCarrier(e, i)
        PROVE  CarrierRows' /\ NamesUnique'
    BY <2>3 DEF DeleteCarrier, CarrierRows, NamesUnique
  <2>4. CASE UNCHANGED profileVars
    BY <2>1, <2>4 DEF profileVars
  <2>5. QED
    BY <2>1, <2>2, <2>3, <2>4
    DEF ProfileNext, EditFails, BeginShipper, DeleteShipper, BeginCarrier, ClearDefault,
        WriteShipper, ensureUniqueName, BeginPrinters, UpdateColumns
<1>3. QED
  BY <1>1, <1>2, PTL DEF ProfileSpec

\* Each printer is the one given last (print_settings_service.go's Update): an
\* update writes the columns it was given and no other.
THEOREM PrintersStay == ProfileSpec => []PrintersKept
<1>1. ProfileInit => PrintersKept
  BY DEF ProfileInit, PrintersKept
<1>2. PrintersKept /\ [ProfileNext]_profileVars => PrintersKept'
  <2> SUFFICES ASSUME PrintersKept, [ProfileNext]_profileVars PROVE PrintersKept'
    OBVIOUS
  <2>1. CASE UNCHANGED <<printer, given>>
    BY <2>1 DEF PrintersKept
  <2>2. ASSUME NEW e \in Editors, UpdateColumns(e) PROVE PrintersKept'
    BY <2>2 DEF UpdateColumns, PrintersKept
  <2>3. CASE UNCHANGED profileVars
    BY <2>1, <2>3 DEF profileVars
  <2>4. QED
    BY <2>1, <2>2, <2>3
    DEF ProfileNext, EditFails, BeginShipper, DeleteShipper, BeginCarrier, ClearDefault,
        WriteShipper, ensureUniqueName, SaveCarrier, DeleteCarrier, BeginPrinters
<1>3. QED
  BY <1>1, <1>2, PTL DEF ProfileSpec

\* Ids are used before rows are written with them.
RowsInv ==
  /\ shipper = [i \in Ids |-> shipper[i]]
  /\ \A i \in Ids : "default" \in DOMAIN shipper[i]
  /\ edit = [e \in Editors |-> edit[e]]
  /\ \A e \in Editors : {"pc", "id", "default", "copy"} \subseteq DOMAIN edit[e]
  /\ standing # 0 => standing \in Ids
  /\ \A i \in Ids : <<"shipper", i>> \notin used => ~shipper[i].default
  /\ \A e \in Editors : edit[e].pc \in {"clear", "write"} =>
       edit[e].id \in Ids /\ <<"shipper", edit[e].id>> \in used

\* What holds of a request on profiles while no other runs: the default is
\* cleared before a new one is written, and a copy has the default of its row.
EditOf(e) ==
  /\ edit[e].pc = "clear" => edit[e].default /\ edit[e].copy
  /\ edit[e].pc = "write" /\ edit[e].default =>
       edit[e].copy /\ \A i \in Ids : ~shipper[i].default
  /\ edit[e].pc = "write" /\ ~edit[e].default =>
       (edit[e].copy <=> shipper[edit[e].id].default)

Asked(e) == edit[e].pc \in {"clear", "write"} /\ edit[e].default

SerialInv ==
  serial =>
    /\ \A e, f \in Editors : edit[e] # Still /\ edit[f] # Still => e = f
    /\ \A i, j \in Ids : shipper[i].default /\ shipper[j].default => i = j
    /\ \A e \in Editors : EditOf(e)
    /\ (standing # 0 /\ \A e \in Editors : ~Asked(e)) => shipper[standing].default

ShipperInv == RowsInv /\ SerialInv

LEMMA ShipperInit == ProfileInit => ShipperInv
BY DEF ProfileInit, ShipperInv, RowsInv, SerialInv, EditOf, Asked, Still, NoProfile

\* A request that is begun or ended, or moves on, at other tables than profiles.
LEMMA ShipperElsewhere ==
  ASSUME ShipperInv, UNCHANGED <<serial, shipper, standing>>, used \subseteq used',
         NEW e \in Editors, NEW w, edit' = [edit EXCEPT ![e] = w],
         {"pc", "id", "default", "copy"} \subseteq DOMAIN w,
         w.pc \notin {"clear", "write"}, edit[e].pc \notin {"clear", "write"},
         w = Still \/ edit[e] # Still \/ (serial => AllStill)
  PROVE  ShipperInv'
<1>1. \A f \in Editors : edit'[f] = IF f = e THEN w ELSE edit[f]
  BY DEF ShipperInv, RowsInv
<1>2. RowsInv'
  BY <1>1 DEF ShipperInv, RowsInv
<1>3. \A f \in Editors : EditOf(f) => EditOf(f)'
  BY <1>1 DEF EditOf
<1>4. \A f \in Editors : Asked(f)' = Asked(f)
  BY <1>1 DEF Asked
<1>5. serial => \A f, g \in Editors : edit'[f] # Still /\ edit'[g] # Still => f = g
  BY <1>1 DEF ShipperInv, SerialInv, AllStill
<1>6. SerialInv'
  BY <1>3, <1>4, <1>5 DEF ShipperInv, SerialInv
<1>7. QED
  BY <1>2, <1>6 DEF ShipperInv

LEMMA ShipperSteps == ShipperInv /\ [ProfileNext]_profileVars => ShipperInv'
<1> SUFFICES ASSUME ShipperInv, [ProfileNext]_profileVars PROVE ShipperInv'
  OBVIOUS
<1> USE DEF ShipperInv
<1>1. ASSUME NEW e \in Editors, EditFails(e) PROVE ShipperInv'
  <2>1. \A f \in Editors : edit'[f] = IF f = e THEN Still ELSE edit[f]
    BY <1>1 DEF EditFails, End, RowsInv
  <2>2. RowsInv'
    BY <1>1, <2>1 DEF EditFails, End, RowsInv, Still
  <2>3. SerialInv'
    <3> SUFFICES ASSUME serial PROVE SerialInv'
      BY <1>1 DEF EditFails, SerialInv
    <3>1. \A f \in Editors : f # e => edit[f] = Still
      BY <1>1 DEF EditFails, SerialInv
    <3>2. \A f \in Editors : edit'[f] = Still
      BY <2>1, <3>1
    <3>3. UNCHANGED shipper /\ (standing' = 0 \/ (standing' = standing /\ ~Asked(e)))
      BY <1>1 DEF EditFails, Asked
    <3>4. \A f \in Editors : ~Asked(f)' /\ EditOf(f)'
      BY <3>2 DEF Asked, EditOf, Still
    <3>5. standing' # 0 => \A f \in Editors : ~Asked(f)
      BY <3>1, <3>3 DEF Asked, Still
    <3>6. QED
      BY <3>2, <3>3, <3>4, <3>5 DEF SerialInv
  <2>4. QED
    BY <2>2, <2>3
<1>2. ASSUME NEW e \in Editors, NEW i \in Ids, NEW default \in BOOLEAN, NEW new \in BOOLEAN,
             BeginShipper(e, i, default, new)
      PROVE  ShipperInv'
  <2> DEFINE w == [Still EXCEPT !.pc = IF default THEN "clear" ELSE "write", !.id = i,
                                !.default = default,
                                !.copy = default \/ (~new /\ shipper[i].default)]
  <2>1. /\ w.pc = IF default THEN "clear" ELSE "write"
        /\ w.id = i /\ w.default = default /\ w.copy = (default \/ (~new /\ shipper[i].default))
        /\ {"pc", "id", "default", "copy"} \subseteq DOMAIN w
    BY DEF Still
  <2>2. /\ edit' = [edit EXCEPT ![e] = w] /\ edit[e] = Still /\ (serial => AllStill)
        /\ IF new THEN <<"shipper", i>> \notin used ELSE shipper[i].there
        /\ used' = used \cup {<<"shipper", i>>}
        /\ UNCHANGED <<serial, shipper, standing>>
    BY <1>2 DEF BeginShipper, MayBegin, Begin, Fresh
  <2> HIDE DEF w
  <2>3. \A f \in Editors : edit'[f] = IF f = e THEN w ELSE edit[f]
    BY <2>2 DEF RowsInv
  <2>4. RowsInv'
    BY <2>1, <2>2, <2>3 DEF RowsInv
  <2>5. SerialInv'
    <3> SUFFICES ASSUME serial PROVE SerialInv'
      BY <2>2 DEF SerialInv
    <3>1. \A f \in Editors : edit[f] = Still
      BY <2>2 DEF AllStill
    <3>2. \A f \in Editors : ~Asked(f)
      BY <3>1 DEF Asked, Still
    <3>3. new => ~shipper[i].default
      BY <2>2 DEF RowsInv
    <3>4. EditOf(e)'
      BY <2>1, <2>2, <2>3, <3>3 DEF EditOf
    <3>5. \A f \in Editors : f # e => EditOf(f)'
      BY <2>3, <3>1 DEF EditOf, Still
    <3>6. QED
      BY <2>2, <2>3, <3>1, <3>2, <3>4, <3>5 DEF SerialInv
  <2>6. QED
    BY <2>4, <2>5
<1>3. ASSUME NEW e \in Editors, NEW i \in Ids, DeleteShipper(e, i) PROVE ShipperInv'
  <2>1. /\ \A j \in Ids : shipper'[j] = IF j = i THEN NoProfile ELSE shipper[j]
        /\ standing' = IF standing = i THEN 0 ELSE standing
        /\ serial => AllStill
        /\ UNCHANGED <<serial, used, edit>>
    BY <1>3 DEF DeleteShipper, MayBegin, RowsInv
  <2>2. ~NoProfile.default /\ "default" \in DOMAIN NoProfile
    BY DEF NoProfile
  <2>3. RowsInv'
    BY <1>3, <2>1, <2>2 DEF DeleteShipper, RowsInv
  <2>4. SerialInv'
    <3> SUFFICES ASSUME serial PROVE SerialInv'
      BY <2>1 DEF SerialInv
    <3>1. \A f \in Editors : edit[f] = Still /\ edit'[f] = Still
      BY <2>1 DEF AllStill
    <3>2. \A f \in Editors : EditOf(f)' /\ ~Asked(f) /\ ~Asked(f)'
      BY <3>1 DEF EditOf, Asked, Still
    <3>3. standing' # 0 => standing' = standing /\ standing' # i /\ standing' \in Ids
      BY <2>1 DEF RowsInv
    <3>4. QED
      BY <2>1, <2>2, <3>1, <3>2, <3>3 DEF SerialInv
  <2>5. QED
    BY <2>3, <2>4
<1>4. ASSUME NEW e \in Editors, ClearDefault(e) PROVE ShipperInv'
  <2>1. /\ edit[e].pc = "clear"
        /\ \A j \in Ids : ~shipper'[j].default
        /\ UNCHANGED <<serial, used, standing>>
    BY <1>4 DEF ClearDefault, RowsInv
  <2>2. \A f \in Editors : edit'[f] = IF f = e THEN [edit[e] EXCEPT !.pc = "write"] ELSE edit[f]
    BY <1>4 DEF ClearDefault, RowsInv
  <2>3. /\ edit'[e].pc = "write" /\ edit'[e].id = edit[e].id
        /\ edit'[e].default = edit[e].default /\ edit'[e].copy = edit[e].copy
    BY <2>1, <2>2 DEF RowsInv
  <2>4. RowsInv'
    BY <1>4, <2>1, <2>2, <2>3 DEF ClearDefault, RowsInv
  <2>5. SerialInv'
    <3> SUFFICES ASSUME serial PROVE SerialInv'
      BY <2>1 DEF SerialInv
    <3>1. edit[e] # Still
      BY <2>1 DEF Still
    <3>2. \A f \in Editors : f # e => edit[f] = Still /\ edit'[f] = Still
      BY <2>2, <3>1 DEF SerialInv
    <3>3. edit[e].default /\ edit[e].copy
      BY <2>1 DEF SerialInv, EditOf
    <3>4. \A f \in Editors : EditOf(f)'
      <4>1. EditOf(e)'
        BY <2>1, <2>3, <3>3 DEF EditOf
      <4>2. \A f \in Editors : f # e => EditOf(f)'
        BY <3>2 DEF EditOf, Still
      <4>3. QED
        BY <4>1, <4>2
    <3>5. Asked(e)'
      BY <2>3, <3>3 DEF Asked
    <3>6. QED
      BY <2>1, <3>2, <3>4, <3>5 DEF SerialInv
  <2>6. QED
    BY <2>4, <2>5
<1>5. ASSUME NEW e \in Editors, WriteShipper(e) PROVE ShipperInv'
  <2> DEFINE k == edit[e].id
  <2>1. /\ edit[e].pc = "write" /\ k \in Ids /\ <<"shipper", k>> \in used
        /\ \A j \in Ids : shipper'[j] = IF j = k THEN [there |-> TRUE, default |-> edit[e].copy]
                                        ELSE shipper[j]
        /\ standing' = IF edit[e].default THEN k ELSE standing
        /\ UNCHANGED <<serial, used>>
    BY <1>5 DEF WriteShipper, RowsInv
  <2>2. \A f \in Editors : edit'[f] = IF f = e THEN Still ELSE edit[f]
    BY <1>5 DEF WriteShipper, End, RowsInv
  <2> HIDE DEF k
  <2>3. shipper'[k].default = edit[e].copy /\ \A j \in Ids : j # k => shipper'[j] = shipper[j]
    BY <2>1
  <2>4. RowsInv'
    BY <1>5, <2>1, <2>2, <2>3 DEF WriteShipper, End, RowsInv, Still
  <2>5. SerialInv'
    <3> SUFFICES ASSUME serial PROVE SerialInv'
      BY <2>1 DEF SerialInv
    <3>1. edit[e] # Still
      BY <2>1 DEF Still
    <3>2. \A f \in Editors : edit'[f] = Still /\ (f # e => edit[f] = Still)
      BY <2>2, <3>1 DEF SerialInv
    <3>3. \A f \in Editors : EditOf(f)' /\ ~Asked(f)' /\ (f # e => ~Asked(f))
      BY <3>2 DEF EditOf, Asked, Still
    <3>4. CASE edit[e].default
      <4>1. edit[e].copy /\ \A j \in Ids : ~shipper[j].default
        BY <2>1, <3>4 DEF SerialInv, EditOf
      <4>2. standing' = k
        BY <2>1, <3>4
      <4>3. QED
        BY <2>1, <2>3, <3>2, <3>3, <4>1, <4>2 DEF SerialInv
    <3>5. CASE ~edit[e].default
      <4>1. edit[e].copy <=> shipper[k].default
        BY <2>1, <3>5 DEF SerialInv, EditOf, k
      <4>2. \A j \in Ids : shipper'[j].default <=> shipper[j].default
        BY <2>1, <2>3, <4>1
      <4>3. standing' = standing /\ (standing # 0 => standing \in Ids) /\ ~Asked(e)
        BY <2>1, <3>5 DEF RowsInv, Asked
      <4>4. QED
        BY <2>1, <3>2, <3>3, <4>2, <4>3 DEF SerialInv
    <3>6. QED
      BY <3>4, <3>5
  <2>6. QED
    BY <2>4, <2>5
<1>6. ASSUME NEW e \in Editors, NEW i \in Ids, NEW name \in Names, NEW new \in BOOLEAN,
             BeginCarrier(e, i, name, new)
      PROVE  ShipperInv'
  <2> DEFINE w == [Still EXCEPT !.pc = "unique", !.id = i, !.name = name]
  <2>1. /\ w.pc = "unique" /\ Still.pc = "idle"
        /\ {"pc", "id", "default", "copy"} \subseteq DOMAIN w
    BY DEF Still
  <2>2. /\ edit' = [edit EXCEPT ![e] = w] /\ edit[e] = Still /\ (serial => AllStill)
        /\ used \subseteq used' /\ UNCHANGED <<serial, shipper, standing>>
    BY <1>6 DEF BeginCarrier, MayBegin, Begin
  <2> HIDE DEF w
  <2>3. QED
    BY <2>1, <2>2, ShipperElsewhere
<1>7. ASSUME NEW e \in Editors, ensureUniqueName(e) PROVE ShipperInv'
  <2>1. \/ edit' = [edit EXCEPT ![e] = Still]
        \/ edit' = [edit EXCEPT ![e] = [edit[e] EXCEPT !.pc = "save"]]
    BY <1>7 DEF ensureUniqueName, End
  <2>2. /\ edit[e].pc = "unique" /\ edit[e] # Still /\ Still.pc = "idle"
        /\ UNCHANGED <<serial, shipper, standing, used>>
    BY <1>7 DEF ensureUniqueName, Still
  <2>3. /\ [edit[e] EXCEPT !.pc = "save"].pc \notin {"clear", "write"}
        /\ {"pc", "id", "default", "copy"} \subseteq DOMAIN [edit[e] EXCEPT !.pc = "save"]
        /\ {"pc", "id", "default", "copy"} \subseteq DOMAIN Still
    BY DEF RowsInv, Still
  <2>4. QED
    BY <2>1, <2>2, <2>3, ShipperElsewhere
<1>8. ASSUME NEW e \in Editors, SaveCarrier(e) \/ UpdateColumns(e) PROVE ShipperInv'
  <2>1. /\ edit' = [edit EXCEPT ![e] = Still] /\ edit[e].pc \in {"save", "printers"}
        /\ UNCHANGED <<serial, shipper, standing, used>>
    BY <1>8 DEF SaveCarrier, UpdateColumns, End
  <2>2. Still.pc = "idle" /\ {"pc", "id", "default", "copy"} \subseteq DOMAIN Still
    BY DEF Still
  <2>3. QED
    BY <2>1, <2>2, ShipperElsewhere
<1>9. ASSUME NEW e \in Editors, NEW i \in Ids, DeleteCarrier(e, i) PROVE ShipperInv'
  BY <1>9 DEF DeleteCarrier, RowsInv, SerialInv, EditOf, Asked
<1>10. ASSUME NEW e \in Editors, NEW columns \in (SUBSET Columns) \ {{}}, NEW name \in Printers,
              BeginPrinters(e, columns, name)
       PROVE  ShipperInv'
  <2> DEFINE w == [Still EXCEPT !.pc = "printers", !.columns = columns, !.name = name]
  <2>1. /\ w.pc = "printers" /\ Still.pc = "idle"
        /\ {"pc", "id", "default", "copy"} \subseteq DOMAIN w
    BY DEF Still
  <2>2. /\ edit' = [edit EXCEPT ![e] = w] /\ edit[e] = Still /\ (serial => AllStill)
        /\ UNCHANGED <<serial, shipper, standing, used>>
    BY <1>10 DEF BeginPrinters, MayBegin, Begin
  <2> HIDE DEF w
  <2>3. QED
    BY <2>1, <2>2, ShipperElsewhere
<1>11. CASE UNCHANGED profileVars
  BY <1>11 DEF profileVars, RowsInv, SerialInv, EditOf, Asked
<1>12. QED
  BY <1>1, <1>2, <1>3, <1>4, <1>5, <1>6, <1>7, <1>8, <1>9, <1>10, <1>11 DEF ProfileNext

\* When requests come one at a time, whichever of them fail half way, at most one
\* profile is the default, and the one made default last still is
\* (shipper_service.go's saveWithDefault and SetDefault).
THEOREM DefaultHolds == ProfileSpec => []OneDefault
<1>1. ShipperInv => OneDefault
  <2>1. AllStill => \A e \in Editors : ~Asked(e)
    BY DEF AllStill, Asked, Still
  <2>2. QED
    BY <2>1 DEF ShipperInv, SerialInv, OneDefault
<1>2. QED
  BY ShipperInit, ShipperSteps, <1>1, PTL DEF ProfileSpec

-----------------------------------------------------------------------------
(* SFTimes.                                                                 *)

LEMMA MinutesTyped ==
  ASSUME NEW v, v \in Int, IsTime(v)
  PROVE  parseHHMM(v) \in 0 .. 1439
<1>1. /\ v \in 0 .. 2359 /\ v % 100 \in 0 .. 59
      /\ v = 100 * (v \div 100) + (v % 100)
  BY DEF IsTime
<1>2. v \div 100 \in 0 .. 23
  BY <1>1
<1>3. QED
  BY <1>1, <1>2 DEF parseHHMM

LEMMA WindowTyped ==
  ASSUME NEW w, w \in Int \X Int
  PROVE  StartMin(w) \in 0 .. 1439 /\ EndMin(w) \in Nat
<1>1. PICK a \in Int, b \in Int : w[1] = a /\ w[2] = b
  OBVIOUS
<1>2. StartMin(w) \in 0 .. 1439
  <2>1. StartMin(w) = IF IsTime(a) THEN parseHHMM(a) ELSE 8 * 60
    BY <1>1 DEF StartMin
  <2>2. CASE IsTime(a)
    <3>1. parseHHMM(a) \in 0 .. 1439
      BY <1>1, <2>2, MinutesTyped
    <3>2. QED
      BY <2>1, <2>2, <3>1
  <2>3. CASE ~IsTime(a)
    BY <2>1, <2>3
  <2>4. QED
    BY <2>2, <2>3
<1>3. EndMin(w) \in Nat
  <2> DEFINE end == IF IsTime(b) THEN parseHHMM(b) ELSE 20 * 60
  <2>1. EndMin(w) = IF end <= StartMin(w) THEN StartMin(w) + 60 ELSE end
    BY <1>1 DEF EndMin
  <2>2. CASE IsTime(b)
    <3>1. parseHHMM(b) \in 0 .. 1439
      BY <1>1, <2>2, MinutesTyped
    <3>2. end \in Nat
      BY <2>2, <3>1
    <3>3. QED
      BY <1>2, <2>1, <3>2
  <2>3. CASE ~IsTime(b)
    BY <1>2, <2>1, <2>3
  <2>4. QED
    BY <2>2, <2>3
<1>4. QED
  BY <1>2, <1>3

\* HourUp is the least full hour that is not earlier.
LEMMA HourUpLeast ==
  ASSUME NEW min \in Nat
  PROVE  \E f \in Nat : HourUp(min) = 60 * f /\ \A k \in Int : 60 * k >= 60 * f <=> 60 * k >= min
<1> DEFINE q == min \div 60
           r == min % 60
<1>1. q \in Nat /\ r \in 0 .. 59 /\ min = 60 * q + r
  OBVIOUS
<1> HIDE DEF q, r
<1>2. CASE r = 0
  <2>1. HourUp(min) = 60 * q
    BY <1>1, <1>2 DEF HourUp, r
  <2>2. \A k \in Int : 60 * k >= 60 * q <=> 60 * k >= min
    BY <1>1, <1>2
  <2>3. QED
    BY <1>1, <2>1, <2>2
<1>3. CASE r # 0
  <2>1. HourUp(min) = min + (60 - r)
    BY <1>3 DEF HourUp, r
  <2>2. HourUp(min) = 60 * (q + 1)
    BY <1>1, <2>1
  <2>3. \A k \in Int : 60 * k >= 60 * (q + 1) <=> 60 * k >= min
    BY <1>1, <1>3
  <2>4. q + 1 \in Nat
    BY <1>1
  <2>5. QED
    BY <2>2, <2>3, <2>4
<1>4. QED
  BY <1>2, <1>3

Ahead(moment, m) == m > moment.min \/ (m = moment.min /\ moment.exact)

\* The next hour is the least that has not begun.
LEMMA NextHourLeast ==
  ASSUME NEW t \in 0 .. 1439, NEW e \in BOOLEAN
  PROVE  LET next == IF e /\ t % 60 = 0 THEN t ELSE (t \div 60 + 1) * 60 IN
         /\ next \in Nat
         /\ \A k \in Nat : 60 * k >= next <=> 60 * k > t \/ (60 * k = t /\ e)
<1> DEFINE next == IF e /\ t % 60 = 0 THEN t ELSE (t \div 60 + 1) * 60
           q == t \div 60
           r == t % 60
<1>1. q \in Nat /\ r \in 0 .. 59 /\ t = 60 * q + r
  OBVIOUS
<1>2. next = IF e /\ r = 0 THEN t ELSE (q + 1) * 60
  OBVIOUS
<1> HIDE DEF q, r, next
<1>3. CASE e /\ r = 0
  <2>1. next = t /\ e
    BY <1>2, <1>3
  <2>2. QED
    BY <2>1 DEF next
<1>4. CASE ~e
  <2>1. next = 60 * q + 60
    BY <1>1, <1>2, <1>4
  <2>2. \A k \in Nat : 60 * k >= 60 * q + 60 <=> 60 * k > t
    BY <1>1
  <2>3. next \in Nat
    BY <1>1, <2>1
  <2>4. QED
    BY <1>4, <2>1, <2>2, <2>3 DEF next
<1>5. CASE e /\ r # 0
  <2>1. next = 60 * q + 60
    BY <1>1, <1>2, <1>5
  <2>2. \A k \in Nat : 60 * k >= 60 * q + 60 <=> 60 * k > t \/ 60 * k = t
    BY <1>1, <1>5
  <2>3. next \in Nat
    BY <1>1, <2>1
  <2>4. QED
    BY <1>5, <2>1, <2>2, <2>3 DEF next
<1>6. QED
  BY <1>3, <1>4, <1>5

\* The hours from the first one on are those that begin in the window and, today,
\* have not begun.
LEMMA FirstHourLeast ==
  ASSUME NEW moment \in Now, NEW w \in Int \X Int, NEW day \in 0 .. 2
  PROVE  \E f \in Nat :
           /\ FirstHour(moment, w, day) = 60 * f
           /\ \A k \in Nat : 60 * k >= 60 * f <=>
                60 * k >= StartMin(w) /\ (day = 0 => Ahead(moment, 60 * k))
<1> DEFINE t == moment.min
           e == moment.exact
           start == StartMin(w)
<1>1. /\ t \in 0 .. 1439 /\ e \in BOOLEAN /\ start \in 0 .. 1439
      /\ moment.min = t /\ moment.exact = e /\ StartMin(w) = start
  <2>1. moment.min \in 0 .. 1439 /\ moment.exact \in BOOLEAN
    BY DEF Now
  <2>2. StartMin(w) \in 0 .. 1439
    BY WindowTyped
  <2>3. QED
    BY <2>1, <2>2
<1> HIDE DEF t, e, start
<1> DEFINE next == IF e /\ t % 60 = 0 THEN t ELSE (t \div 60 + 1) * 60
           from == IF day > 0 THEN 0 ELSE next
           first == LaterOf(start, from)
<1>2. FirstHour(moment, w, day) = HourUp(first)
  BY <1>1 DEF FirstHour
<1>3. next \in Nat /\ \A k \in Nat : 60 * k >= next <=> Ahead(moment, 60 * k)
  BY <1>1, NextHourLeast DEF Ahead
<1> HIDE DEF next
<1>4. from \in Nat /\ \A k \in Nat : 60 * k >= from <=> (day = 0 => Ahead(moment, 60 * k))
  <2>1. CASE day = 0
    BY <1>3, <2>1
  <2>2. CASE day # 0
    <3>1. from = 0
      BY <2>2
    <3>2. \A k \in Nat : 60 * k >= 0
      OBVIOUS
    <3> HIDE DEF from
    <3>3. from \in Nat /\ \A k \in Nat : 60 * k >= from
      BY <3>1, <3>2
    <3>4. QED
      BY <2>2, <3>3
  <2> HIDE DEF from
  <2>3. QED
    BY <2>1, <2>2
<1> HIDE DEF from
<1>5. /\ first \in Nat
      /\ \A k \in Nat : 60 * k >= first <=> 60 * k >= start /\ 60 * k >= from
  <2>1. start \in Nat /\ from \in Nat
    BY <1>1, <1>4
  <2>2. QED
    BY <2>1 DEF LaterOf
<1> HIDE DEF first
<1>6. PICK f \in Nat : HourUp(first) = 60 * f /\ \A k \in Int : 60 * k >= 60 * f <=> 60 * k >= first
  <2>1. first \in Nat
    BY <1>5
  <2>2. QED
    BY <2>1, HourUpLeast
<1>7. ASSUME NEW k \in Nat
      PROVE  60 * k >= 60 * f <=> 60 * k >= StartMin(w) /\ (day = 0 => Ahead(moment, 60 * k))
  <2>1. 60 * k >= 60 * f <=> 60 * k >= first
    BY <1>6
  <2>2. 60 * k >= first <=> 60 * k >= StartMin(w) /\ 60 * k >= from
    BY <1>1, <1>5
  <2>3. QED
    BY <1>4, <2>1, <2>2
<1>8. QED
  BY <1>2, <1>6, <1>7

LEMMA HoursOffered ==
  ASSUME NEW moment \in Now, NEW w \in Int \X Int, NEW day \in 0 .. 2
  PROVE  HourSlots(FirstHour(moment, w, day), EndMin(w)) =
           {60 * h : h \in {k \in 0 .. 23 : /\ StartMin(w) <= 60 * k
                                            /\ 60 * k < EndMin(w)
                                            /\ day = 0 => Ahead(moment, 60 * k)}}
<1>1. PICK f \in Nat :
        /\ FirstHour(moment, w, day) = 60 * f
        /\ \A k \in Nat : 60 * k >= 60 * f <=>
             60 * k >= StartMin(w) /\ (day = 0 => Ahead(moment, 60 * k))
  BY FirstHourLeast
<1>2. StartMin(w) \in Nat /\ EndMin(w) \in Nat
  BY WindowTyped
<1>3. ASSUME NEW m \in HourSlots(FirstHour(moment, w, day), EndMin(w))
      PROVE  \E k \in 0 .. 23 : /\ m = 60 * k
                                /\ StartMin(w) <= 60 * k /\ 60 * k < EndMin(w)
                                /\ day = 0 => Ahead(moment, 60 * k)
  <2>1. PICK j \in 0 .. 24 : m = 60 * f + 60 * j /\ m < EndMin(w) /\ m <= 1380
    BY <1>1 DEF HourSlots
  <2>2. f + j \in 0 .. 23 /\ m = 60 * (f + j) /\ 60 * (f + j) >= 60 * f
    BY <2>1
  <2>3. 60 * (f + j) >= StartMin(w) /\ (day = 0 => Ahead(moment, 60 * (f + j)))
    <3>1. PICK i \in Nat : i = f + j
      BY <2>2
    <3>2. 60 * i >= 60 * f
      BY <2>2, <3>1
    <3>3. 60 * i >= StartMin(w) /\ (day = 0 => Ahead(moment, 60 * i))
      BY <1>1, <3>2
    <3>4. QED
      BY <3>1, <3>3
  <2>4. StartMin(w) <= 60 * (f + j)
    BY <1>2, <2>2, <2>3
  <2>5. QED
    BY <2>1, <2>2, <2>3, <2>4
<1>4. ASSUME NEW k \in 0 .. 23, StartMin(w) <= 60 * k, 60 * k < EndMin(w),
             day = 0 => Ahead(moment, 60 * k)
      PROVE  60 * k \in HourSlots(FirstHour(moment, w, day), EndMin(w))
  <2>1. 60 * k >= 60 * f
    BY <1>1, <1>2, <1>4
  <2>2. k - f \in 0 .. 24 /\ 60 * k = 60 * f + 60 * (k - f) /\ 60 * k <= 1380
    BY <2>1
  <2>3. QED
    BY <1>1, <1>4, <2>2 DEF HourSlots
<1>5. QED
  BY <1>3, <1>4

Answered ==
  asked.kind = "pickup" =>
    \E moment \in Clocks, w \in Windows :
      /\ asked = [kind |-> "pickup", now |-> moment, window |-> w]
      /\ answer = [kind |-> "pickup", days |-> buildPickupAppointOptions(moment, w)]

LEMMA AnsweredHolds == TimeSpec => []Answered
<1>1. TimeInit => Answered
  BY DEF TimeInit, NothingAsked, Answered
<1>2. Answered /\ [TimeNext]_timeVars => Answered'
  <2> SUFFICES ASSUME Answered, [TimeNext]_timeVars PROVE Answered'
    OBVIOUS
  <2>1. ASSUME NEW moment \in Clocks, NEW w \in Windows, CheckPickupTime(moment, w) PROVE Answered'
    BY <2>1 DEF CheckPickupTime, Answered
  <2>2. ASSUME NEW items, QueryDeliverTm(items) PROVE Answered'
    BY <2>2 DEF QueryDeliverTm, Answered
  <2>3. CASE CheckRefused
    BY <2>3 DEF CheckRefused, Answered
  <2>4. CASE QueryRefused
    BY <2>4 DEF QueryRefused, Answered
  <2>5. CASE UNCHANGED timeVars
    BY <2>5 DEF timeVars, Answered
  <2>6. QED
    BY <2>1, <2>2, <2>3, <2>4, <2>5 DEF TimeNext
<1>3. QED
  BY <1>1, <1>2, PTL DEF TimeSpec

\* The hours offered for a pick-up are exactly the full hours of the window that
\* have not begun, whenever it is asked and whatever window SF answers
\* (pickup_time.go's buildPickupAppointOptions).
THEOREM PickupHours == TimeSpec => []HoursAhead
<1>1. ASSUME Answered PROVE HoursAhead
  <2> SUFFICES ASSUME NEW moment \in Clocks, NEW w \in Windows,
                      asked = [kind |-> "pickup", now |-> moment, window |-> w],
                      answer = [kind |-> "pickup", days |-> buildPickupAppointOptions(moment, w)]
               PROVE  HoursAhead
    BY <1>1 DEF Answered, HoursAhead
  <2>1. moment \in Now /\ w \in Int \X Int
    BY SFTimesAssumption
  <2>2. StartMin(w) \in Nat /\ EndMin(w) \in Nat /\ Within(moment) \in Nat
    <3>1. PICK t \in 0 .. 1439 : moment.min = t
      BY <2>1 DEF Now
    <3>2. (t + 15) % 1440 \in Nat
      OBVIOUS
    <3>3. Within(moment) \in Nat
      BY <3>1, <3>2 DEF Within
    <3>4. StartMin(w) \in 0 .. 1439 /\ EndMin(w) \in Nat
      BY <2>1, WindowTyped
    <3>5. QED
      BY <3>3, <3>4
  <2>3. \A day \in 0 .. 2 :
          answer.days[day].hours = HourSlots(FirstHour(moment, w, day), EndMin(w))
    BY DEF buildPickupAppointOptions
  <2>4. answer.days[0].within1h <=> StartMin(w) <= Within(moment) /\ Within(moment) < EndMin(w)
    <3>1. answer.days[0] =
            [within1h |-> 0 = 0 /\ StartMin(w) <= Within(moment) /\ Within(moment) < EndMin(w),
             hours |-> HourSlots(FirstHour(moment, w, 0), EndMin(w))]
      BY DEF buildPickupAppointOptions
    <3>2. \A P, H : [within1h |-> P, hours |-> H].within1h = P
      OBVIOUS
    <3>3. answer.days[0].within1h = (0 = 0 /\ StartMin(w) <= Within(moment) /\ Within(moment) < EndMin(w))
      BY <3>1, <3>2, Zenon
    <3>4. QED
      BY <3>3, Zenon
  <2>5. QED
    BY <2>1, <2>2, <2>3, <2>4, HoursOffered DEF HoursAhead, Ahead
<1>2. QED
  BY AnsweredHolds, <1>1, PTL

\* A product before it is tagged.
Untagged == [code: OrderedTypes, fee: Nat, tag: {"", "fastest", "economical"}, time: Nat \cup {-1}]

LEMMA TagsOf ==
  ASSUME NEW ps, \A i \in DOMAIN ps : ps[i] \in Untagged
  PROVE  LET q == Tagged(ps)
             Priced == {i \in DOMAIN ps : ps[i].fee > 0}
             Timed == {i \in DOMAIN ps : ps[i].time > 0} IN
         /\ DOMAIN q = DOMAIN ps
         /\ \A i \in DOMAIN ps :
              /\ q[i].code = ps[i].code /\ q[i].fee = ps[i].fee /\ q[i].time = ps[i].time
              /\ q[i].tag = "cheapest" <=> i \in Priced /\ \A j \in Priced : ps[i].fee <= ps[j].fee
              /\ (i \in Timed /\ \A j \in Timed : ps[i].time <= ps[j].time) =>
                   q[i].tag \in {"cheapest", "fastest"}
<1> DEFINE tag(i) == IF ps[i].fee \in MinFee(ps) THEN "cheapest"
                     ELSE IF ps[i].code \in earliestCodes(ps) THEN "fastest"
                     ELSE IF ps[i].tag # "" THEN ps[i].tag
                     ELSE IF ps[i].code = "1" THEN "fastest"
                     ELSE IF MinFee(ps) = {} THEN "economical" ELSE ""
           q == Tagged(ps)
           Tags == {"", "fastest", "economical", "cheapest"}
<1>1. \A i \in DOMAIN ps :
        /\ ps[i] \in [code: OrderedTypes, fee: Nat, tag: Tags, time: Nat \cup {-1}]
        /\ ps[i].fee \in Nat /\ ps[i].time \in Nat \cup {-1} /\ ps[i].tag # "cheapest"
  BY DEF Untagged
<1>2. \A i \in DOMAIN ps : tag(i) \in Tags
  BY DEF Untagged
<1>3. DOMAIN q = DOMAIN ps /\ \A i \in DOMAIN ps : q[i] = [ps[i] EXCEPT !.tag = tag(i)]
  BY DEF Tagged
<1> HIDE DEF tag, q
<1>4. \A i \in DOMAIN ps :
        q[i].code = ps[i].code /\ q[i].fee = ps[i].fee /\ q[i].time = ps[i].time /\ q[i].tag = tag(i)
  BY <1>1, <1>2, <1>3
<1>5. \A i \in DOMAIN ps : ps[i].fee \in MinFee(ps) <=>
        ps[i].fee > 0 /\ \A j \in DOMAIN ps : ps[j].fee > 0 => ps[i].fee <= ps[j].fee
  <2> DEFINE all == {ps[j].fee : j \in DOMAIN ps}
             fees == all \ {0}
  <2>1. \A x : x \in fees <=> \E j \in DOMAIN ps : x = ps[j].fee /\ ps[j].fee > 0
    <3>1. \A x : x \in all <=> \E j \in DOMAIN ps : x = ps[j].fee
      OBVIOUS
    <3> HIDE DEF all
    <3>2. \A x : x \in fees <=> x \in all /\ x \notin {0}
      OBVIOUS
    <3> HIDE DEF fees
    <3>3. \A z \in Nat : z > 0 <=> z \notin {0}
      OBVIOUS
    <3>4. \A j \in DOMAIN ps : ps[j].fee > 0 <=> ps[j].fee \notin {0}
      BY <1>1, <3>3, Zenon
    <3>5. ASSUME NEW x \in fees PROVE \E j \in DOMAIN ps : x = ps[j].fee /\ ps[j].fee > 0
      <4>1. x \in all /\ x \notin {0}
        BY <3>2, Zenon
      <4>2. PICK j \in DOMAIN ps : x = ps[j].fee
        BY <3>1, <4>1, Zenon
      <4>3. QED
        BY <3>4, <4>1, <4>2, Zenon
    <3>6. ASSUME NEW j \in DOMAIN ps, ps[j].fee > 0 PROVE ps[j].fee \in fees
      BY <3>1, <3>2, <3>4, <3>6, Zenon
    <3>7. QED
      BY <3>5, <3>6, Zenon
  <2> HIDE DEF fees
  <2>2. \A x : x \in LeastOf(fees) <=> x \in fees /\ \A z \in fees : x <= z
    BY DEF LeastOf
  <2>3. MinFee(ps) = LeastOf(fees)
    BY DEF MinFee, fees, all
  <2>4. QED
    BY <2>1, <2>2, <2>3
<1>6. \A i \in DOMAIN ps : tag(i) = "cheapest" <=> ps[i].fee \in MinFee(ps)
  BY <1>1 DEF tag
<1>7. ASSUME NEW i \in DOMAIN ps, ps[i].time > 0,
             \A j \in DOMAIN ps : ps[j].time > 0 => ps[i].time <= ps[j].time
      PROVE  ps[i].code \in earliestCodes(ps)
  <2> DEFINE all == {ps[j].time : j \in DOMAIN ps}
             times == all \ {-1, 0}
  <2>1. \A x : x \in times <=> \E j \in DOMAIN ps : x = ps[j].time /\ ps[j].time > 0
    <3>1. \A x : x \in all <=> \E j \in DOMAIN ps : x = ps[j].time
      OBVIOUS
    <3> HIDE DEF all
    <3>2. \A x : x \in times <=> x \in all /\ x \notin {-1, 0}
      OBVIOUS
    <3> HIDE DEF times
    <3>3. \A z \in Nat \cup {-1} : z > 0 <=> z \notin {-1, 0}
      OBVIOUS
    <3>4. \A j \in DOMAIN ps : ps[j].time > 0 <=> ps[j].time \notin {-1, 0}
      BY <1>1, <3>3, Zenon
    <3>5. ASSUME NEW x \in times PROVE \E j \in DOMAIN ps : x = ps[j].time /\ ps[j].time > 0
      <4>1. x \in all /\ x \notin {-1, 0}
        BY <3>2, Zenon
      <4>2. PICK j \in DOMAIN ps : x = ps[j].time
        BY <3>1, <4>1, Zenon
      <4>3. QED
        BY <3>4, <4>1, <4>2, Zenon
    <3>6. ASSUME NEW j \in DOMAIN ps, ps[j].time > 0 PROVE ps[j].time \in times
      BY <3>1, <3>2, <3>4, <3>6, Zenon
    <3>7. QED
      BY <3>5, <3>6, Zenon
  <2> HIDE DEF times
  <2>2. \A x : x \in LeastOf(times) <=> x \in times /\ \A z \in times : x <= z
    BY DEF LeastOf
  <2>3. Earliest(ps) = LeastOf(times)
    BY DEF Earliest, times, all
  <2>4. ps[i].time \in Earliest(ps)
    BY <1>7, <2>1, <2>2, <2>3
  <2>5. QED
    BY <2>4 DEF earliestCodes
<1>8. \A i \in DOMAIN ps : ps[i].code \in earliestCodes(ps) => tag(i) \in {"cheapest", "fastest"}
  BY DEF tag
<1>9. QED
  BY <1>3, <1>4, <1>5, <1>6, <1>7, <1>8 DEF q

\* Every type is there once it was told or added, and nothing else is.
LEMMA ProductsAre ==
  ASSUME NEW items \in Seq(Items)
  PROVE  LET ps == Products(items) IN
         /\ \A i \in DOMAIN ps : ps[i] \in Untagged
         /\ {ps[i].code : i \in DOMAIN ps} = OrderedTypes
<1> DEFINE core == {i \in DOMAIN items : isCoreExpressType(items[i])}
           told == {items[i].code : i \in core}
           n == Len(items)
           added == {n + k : k \in {m \in 1 .. 2 : Common[m] \notin told}}
           ps == Products(items)
           old(i) == [code |-> items[i].code, fee |-> items[i].fee, tag |-> "",
                      time |-> formatDeliverTimeLabel(items[i].times)]
<1>1. n \in Nat /\ DOMAIN items = 1 .. n /\ \A i \in DOMAIN items : items[i] \in Items
  OBVIOUS
<1>2. /\ DOMAIN ps = core \cup added
      /\ \A i \in core : ps[i] = old(i)
      /\ \A i \in added : i \notin core => ps[i] = Added(Common[i - n])
  BY DEF Products
<1>3. \A i \in core : items[i] \in Items /\ items[i].code \in OrderedTypes
  BY <1>1 DEF isCoreExpressType
<1>4. \A it \in Items : it.fee \in Nat /\ formatDeliverTimeLabel(it.times) \in Nat \cup {-1}
  <2> SUFFICES ASSUME NEW it \in Items
               PROVE  it.fee \in Nat /\ formatDeliverTimeLabel(it.times) \in Nat \cup {-1}
    OBVIOUS
  <2>1. it.fee \in Nat /\ it.times \in Seq(Nat \cup {-1}) /\ it.times # <<>>
    BY SFTimesAssumption
  <2>2. Len(it.times) \in DOMAIN it.times /\ 1 \in DOMAIN it.times
    BY <2>1
  <2>3. it.times[Len(it.times)] \in Nat \cup {-1} /\ it.times[1] \in Nat \cup {-1}
    BY <2>1, <2>2
  <2>4. QED
    BY <2>1, <2>3 DEF formatDeliverTimeLabel
<1>5. \A i \in core : old(i) \in Untagged /\ old(i).code = items[i].code
  BY <1>3, <1>4 DEF Untagged
<1>6. \A k \in 1 .. 2 : Common[k] \in OrderedTypes /\ Added(Common[k]) \in Untagged
                        /\ Added(Common[k]).code = Common[k]
  <2>1. \A k \in 1 .. 2 : Common[k] \in OrderedTypes
    BY DEF Common, OrderedTypes
  <2>2. \A c \in OrderedTypes : Added(c) \in Untagged /\ Added(c).code = c
    BY DEF Added, AddedTag, Untagged
  <2>3. QED
    BY <2>1, <2>2
<1>7. \A i \in added : i \notin core /\ i - n \in 1 .. 2 /\ Common[i - n] \notin told
  BY <1>1
<1>8. \A k \in 1 .. 2 : Common[k] \in told \/ (n + k \in added /\ (n + k) - n = k)
  BY <1>1
<1>9. \A c \in OrderedTypes : \E k \in 1 .. 2 : c = Common[k]
  BY DEF OrderedTypes, Common
<1>10. \A c \in told : \E i \in core : items[i].code = c
  OBVIOUS
<1> HIDE DEF core, told, n, added, old, ps
<1>11. \A i \in DOMAIN ps : ps[i] \in Untagged
  BY <1>2, <1>5, <1>6, <1>7
<1>12. \A i \in DOMAIN ps : ps[i].code \in OrderedTypes
  BY <1>11 DEF Untagged
<1>13. ASSUME NEW c \in OrderedTypes PROVE \E i \in DOMAIN ps : ps[i].code = c
  <2>1. PICK k \in 1 .. 2 : c = Common[k]
    BY <1>9
  <2>2. CASE c \in told
    <3>1. PICK i \in core : items[i].code = c
      BY <1>10, <2>2
    <3>2. QED
      BY <1>2, <1>5, <3>1
  <2>3. CASE c \notin told
    <3>1. n + k \in added /\ (n + k) - n = k
      BY <1>8, <2>1, <2>3
    <3>2. ps[n + k] = Added(Common[k])
      BY <1>2, <1>7, <3>1
    <3>3. QED
      BY <1>2, <1>6, <2>1, <3>1, <3>2
  <2>4. QED
    BY <2>2, <2>3
<1>14. {ps[i].code : i \in DOMAIN ps} = OrderedTypes
  BY <1>12, <1>13
<1>15. QED
  BY <1>11, <1>14 DEF ps

Offered ==
  asked.kind = "products" =>
    \E items \in Seq(Items) : answer = [kind |-> "products", products |-> Tagged(Products(items))]

LEMMA OfferedHolds == TimeSpec => []Offered
<1>1. TimeInit => Offered
  BY DEF TimeInit, NothingAsked, Offered
<1>2. Offered /\ [TimeNext]_timeVars => Offered'
  <2> SUFFICES ASSUME Offered, [TimeNext]_timeVars PROVE Offered'
    OBVIOUS
  <2>1. ASSUME NEW moment, NEW w, CheckPickupTime(moment, w) PROVE Offered'
    BY <2>1 DEF CheckPickupTime, Offered
  <2>2. ASSUME NEW items \in Seq(Items), QueryDeliverTm(items) PROVE Offered'
    BY <2>2 DEF QueryDeliverTm, Offered
  <2>3. CASE CheckRefused \/ QueryRefused
    <3>1. asked' = [kind |-> "no pickup"] \/ asked' = [kind |-> "no products"]
      BY <2>3 DEF CheckRefused, QueryRefused
    <3>2. [kind |-> "no pickup"].kind = "no pickup" /\ [kind |-> "no products"].kind = "no products"
      OBVIOUS
    <3>3. asked'.kind = "no pickup" \/ asked'.kind = "no products"
      BY <3>1, <3>2, Zenon
    <3>4. QED
      BY <3>3 DEF Offered
  <2>4. CASE UNCHANGED timeVars
    BY <2>4 DEF timeVars, Offered
  <2>5. \A items \in {<<>>} \cup {<<a>> : a \in Items} \cup (Items \X Items) : items \in Seq(Items)
    <3>1. \A items \in Items \X Items : items \in Seq(Items)
      <4>1. \A items \in Items \X Items : \E a, b \in Items : items = <<a, b>>
        OBVIOUS
      <4>2. \A a, b \in Items : <<a, b>> \in Seq(Items)
        OBVIOUS
      <4>3. QED
        BY <4>1, <4>2
    <3>2. <<>> \in Seq(Items) /\ \A a \in Items : <<a>> \in Seq(Items)
      OBVIOUS
    <3>3. \A items \in {<<a>> : a \in Items} : items \in Seq(Items)
      BY <3>2
    <3>4. QED
      BY <3>1, <3>2, <3>3, Zenon
  <2>6. QED
    BY <2>1, <2>2, <2>3, <2>4, <2>5 DEF TimeNext
<1>3. QED
  BY <1>1, <1>2, PTL DEF TimeSpec

\* Whatever products, fees and times SF answers, both that can be ordered are
\* offered, the cheapest and no other is called so, and the earliest is called
\* the fastest or the cheapest (deliver_tm.go's QueryDeliverTm).
THEOREM TagsHold == TimeSpec => []TagsTrue
<1>1. ASSUME Offered PROVE TagsTrue
  <2> SUFFICES ASSUME NEW items \in Seq(Items),
                      answer = [kind |-> "products", products |-> Tagged(Products(items))]
               PROVE  TagsTrue
    BY <1>1 DEF Offered, TagsTrue
  <2> DEFINE ps == Products(items)
             q == Tagged(ps)
  <2>1. (\A i \in DOMAIN ps : ps[i] \in Untagged) /\ {ps[i].code : i \in DOMAIN ps} = OrderedTypes
    BY ProductsAre
  <2>2. answer.products = q
    OBVIOUS
  <2> HIDE DEF ps
  <2>3. /\ DOMAIN q = DOMAIN ps
        /\ \A i \in DOMAIN ps :
              /\ q[i].code = ps[i].code /\ q[i].fee = ps[i].fee /\ q[i].time = ps[i].time
              /\ q[i].tag = "cheapest" <=>
                   ps[i].fee > 0 /\ \A j \in DOMAIN ps : ps[j].fee > 0 => ps[i].fee <= ps[j].fee
              /\ (ps[i].time > 0 /\ \A j \in DOMAIN ps : ps[j].time > 0 => ps[i].time <= ps[j].time) =>
                   q[i].tag \in {"cheapest", "fastest"}
    BY <2>1, TagsOf
  <2> HIDE DEF q
  <2>4. {q[i].code : i \in DOMAIN q} = OrderedTypes
    BY <2>1, <2>3
  <2>5. QED
    BY <2>2, <2>3, <2>4 DEF TagsTrue
<1>2. QED
  BY OfferedHolds, <1>1, PTL

-----------------------------------------------------------------------------
(* The desk.                                                               *)

\* What the desk does to one of its parts is a behaviour of that part: either it
\* is the part whose behaviour this is, or the part stands still.
THEOREM DeskIsItsParts ==
  Spec => UploadSpec /\ OAuthSpec /\ ProfileSpec /\ DeviceSpec /\ TimeSpec
<1>1. Init => UploadInit /\ OAuthInit /\ ProfileInit /\ DeviceInit /\ TimeInit
  BY DEF Init
<1>2. [Next]_deskVars => /\ [UploadNext]_uploadVars
                         /\ [OAuthNext]_oauthVars
                         /\ [ProfileNext]_profileVars
                         /\ [DeviceNext]_deviceVars
                         /\ [TimeNext]_timeVars
  BY Zenon DEF Next, deskVars
<1>3. QED
  BY <1>1, <1>2, PTL DEF Spec, UploadSpec, OAuthSpec, ProfileSpec, DeviceSpec, TimeSpec
=============================================================================
