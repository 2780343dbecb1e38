----------------------- MODULE ShipmentLifecycle_proofs -----------------------
(***************************************************************************)
(* Theorems about ShipmentLifecycle, for any number of shipments, orders,  *)
(* accounts and handler slots, any set of operations and of faults.        *)
(***************************************************************************)
EXTENDS ShipmentLifecycle, FiniteSetTheorems, TLAPS

-----------------------------------------------------------------------------
(* Type correctness.                                                       *)

\* What a slot holds at the points where it uses it: a sequence number before
\* the SF call, a waybill wherever one is reported, cancelled or printed.
SlotsNumbered ==
  \A r \in Reqs :
    /\ req[r].pc \in {"call", "saveCreated"} => req[r].seq # 0
    /\ req[r].pc \in {"shipCore", "sfCancel", "bgUpdate"} => req[r].snap.wb # 0

TypeInv == TypeOK /\ SlotsNumbered

LEMMA IdleType == Idle \in Request /\ Idle.pc = "idle" /\ NoRow \in Row
  <1>1. NoRow \in Row
    BY DEF NoRow, Row, Statuses
  <1>2. (CHOOSE s \in Ships : TRUE) \in Ships
    BY ShipsAssumption
  <1> QED
    BY <1>1, <1>2 DEF Idle, Request, PCs

LEMMA WaybillType ==
  ASSUME NEW s \in Ships, NEW n \in Nat, n # 0
  PROVE  Waybill(s, n) \in Waybills
  BY ShipsAssumption DEF Waybill, Waybills

LEMMA CountedType ==
  ASSUME NEW s \in Ships
  PROVE  IsFiniteSet(Counted(s)) /\ Cardinality(Counted(s)) \in Nat
  <1>1. Counted(s) \in SUBSET Ships
    BY DEF Counted
  <1> QED
    BY <1>1, FS_Subset, FS_CardinalityType, ShipsAssumption

LEMMA SeqType ==
  ASSUME NEW s \in Ships
  PROVE  nextSFOrderSeq(s) \in Nat /\ nextSFOrderSeq(s) # 0
  BY CountedType DEF nextSFOrderSeq

LEMMA MarkedTypes ==
  ASSUME NEW row \in Row
  PROVE  /\ markShipmentShipped(row) \in Row
         /\ markShipmentPrinted(row) \in Row
         /\ markShipmentShipped(row).wb = row.wb
         /\ markShipmentPrinted(row).wb = row.wb
  BY DEF Row, Statuses, markShipmentShipped, markShipmentPrinted

LEMMA TypeInit == Init => TypeInv
  BY IdleType DEF Init, TypeInv, TypeOK, SlotsNumbered

\* The calls of the users and the steps of the database's other clients.
LEMMA TypeCall ==
  ASSUME TypeInv, NEW r \in Reqs, Call(r)
  PROVE  TypeInv'
  <1> USE DEF TypeInv, TypeOK
  <1>1. ASSUME NEW s \in Ships, BeginCreateWaybill(r, s) PROVE TypeInv'
    BY <1>1 DEF BeginCreateWaybill, Begin, Request, PCs, SlotsNumbered
  <1>2. ASSUME NEW s \in Ships, BeginCancel(r, s) PROVE TypeInv'
    BY <1>2 DEF BeginCancel, Begin, Request, PCs, SlotsNumbered
  <1>3. ASSUME NEW s \in Ships, NEW kind \in {"print", "plugin", "pdf"},
               BeginPrint(r, s, kind)
        PROVE  TypeInv'
    BY <1>3 DEF BeginPrint, Begin, Request, PCs, SlotsNumbered
  <1>4. ASSUME NEW o \in Orders, BeginDelete(r, o) PROVE TypeInv'
    BY <1>4, IdleType DEF BeginDelete, Request, PCs, SlotsNumbered
  <1> QED
    BY <1>1, <1>2, <1>3, <1>4 DEF Call

\* A slot that changes to a well-formed request while the tables keep their types.
LEMMA SlotChange ==
  ASSUME TypeInv, NEW r \in Reqs, NEW x \in Request,
         x.pc \in {"call", "saveCreated"} => x.seq # 0,
         x.pc \in {"shipCore", "sfCancel", "bgUpdate"} => x.snap.wb # 0,
         req' = [req EXCEPT ![r] = x],
         rows' \in [Ships -> Row], born' \subseteq Ships, issued' \subseteq Waybills,
         voided' \subseteq Waybills, oc' \subseteq Waybills, jobs' \subseteq Ships
  PROVE  TypeInv'
  BY DEF TypeInv, TypeOK, SlotsNumbered

LEMMA RowUpdates ==
  ASSUME NEW row \in Row, NEW st \in Statuses, NEW n \in Nat,
         NEW b \in BOOLEAN, NEW c \in BOOLEAN
  PROVE  /\ [row EXCEPT !.status = st] \in Row
         /\ [row EXCEPT !.status = st, !.wb = n] \in Row
         /\ [row EXCEPT !.status = st, !.printed = b, !.pdf = c] \in Row
         /\ [row EXCEPT !.pdf = b] \in Row
         /\ [row EXCEPT !.shippedAt = "synced"] \in Row
         /\ [row EXCEPT !.shippedAt = "synced", !.printed = b] \in Row
         /\ [row EXCEPT !.status = st, !.shippedAt = "synced"] \in Row
         /\ [row EXCEPT !.status = st].wb = row.wb
         /\ [row EXCEPT !.pdf = b].wb = row.wb
         /\ [row EXCEPT !.status = st, !.wb = n].wb = n
         /\ row.status \in Statuses /\ row.wb \in Nat
         /\ row.printed \in BOOLEAN /\ row.pdf \in BOOLEAN
  BY DEF Row

LEMMA RequestUpdates ==
  ASSUME NEW q \in Request, NEW pc \in PCs, NEW row \in Row, NEW n \in Nat
  PROVE  /\ q.ship \in Ships /\ q.snap \in Row /\ q.seq \in Nat /\ q.ids \subseteq Ships
         /\ [q EXCEPT !.pc = pc] \in Request
         /\ [q EXCEPT !.pc = pc, !.snap = row] \in Request
         /\ [q EXCEPT !.pc = pc, !.seq = n] \in Request
  BY DEF Request

\* The steps of a running request.
LEMMA TypeStep ==
  ASSUME TypeInv, NEW r \in Reqs, Step(r)
  PROVE  TypeInv'
  <1> DEFINE s == req[r].ship
             sh == req[r].snap
             q == req[r]
  <1>0. q \in Request /\ s \in Ships /\ sh \in Row /\ q.seq \in Nat /\ q.ids \subseteq Ships
    BY RequestUpdates DEF TypeInv, TypeOK, Request
  <1>a. /\ rows \in [Ships -> Row] /\ born \subseteq Ships /\ issued \subseteq Waybills
        /\ voided \subseteq Waybills /\ oc \subseteq Waybills /\ jobs \subseteq Ships
        /\ req \in [Reqs -> Request]
    BY DEF TypeInv, TypeOK
  <1>b. /\ q.pc \in {"call", "saveCreated"} => q.seq # 0
        /\ q.pc \in {"shipCore", "sfCancel", "bgUpdate"} => sh.wb # 0
    BY DEF TypeInv, SlotsNumbered
  <1>c. Idle \in Request /\ Idle.pc = "idle"
    BY IdleType
  <1>d. ASSUME NEW row \in Row PROVE [rows EXCEPT ![s] = row] \in [Ships -> Row]
    BY <1>0, <1>a
  <1> HIDE DEF s, sh, q
  <1>1. CASE ResolveOrderID(r)
    <2>1. PICK n \in Nat : n # 0 /\ req' = [req EXCEPT ![r].pc = "call", ![r].seq = n]
      <3> DEFINE k == nextSFOrderSeq(req[r].ship)
      <3>1. k \in Nat /\ k # 0
        BY <1>0, SeqType DEF s
      <3>2. PICK n \in {k} \cup (IF "dbError" \in Faults THEN {1} ELSE {}) :
              req' = [req EXCEPT ![r].pc = "call", ![r].seq = n]
        BY <1>1 DEF ResolveOrderID
      <3> HIDE DEF k
      <3>3. n \in Nat /\ n # 0
        BY <3>1, <3>2
      <3> QED
        BY <3>2, <3>3
    <2> DEFINE x == [q EXCEPT !.pc = "call", !.seq = n]
    <2>2. req' = [req EXCEPT ![r] = x]
      BY <2>1, <1>a DEF q
    <2>3. x \in Request /\ x.seq # 0 /\ x.pc = "call"
      BY <2>1, <1>0 DEF Request, PCs
    <2> QED
      BY <1>1, <2>2, <2>3, <1>a, SlotChange DEF ResolveOrderID
  <1>2. CASE SFCreateOrder(r)
    <2>1. PICK pc \in {"saveCreated", "saveFailed"} : Goto(r, pc)
      BY <1>2 DEF SFCreateOrder
    <2> DEFINE x == [q EXCEPT !.pc = pc]
    <2>2. req' = [req EXCEPT ![r] = x]
      BY <2>1, <1>a DEF q, Goto
    <2>3. x \in Request /\ x.seq = q.seq /\ x.pc = pc
      BY <2>1, <1>0 DEF Request, PCs
    <2>4. q.pc = "call" /\ q.seq # 0
      BY <1>2, <1>b DEF SFCreateOrder, q
    <2>5. issued' \subseteq Waybills
      BY <1>2, <1>0, <1>a, <2>4, WaybillType DEF SFCreateOrder, q, s
    <2> QED
      BY <1>2, <2>1, <2>2, <2>3, <2>4, <2>5, <1>a, SlotChange DEF SFCreateOrder
  <1>3. CASE SaveCreated(r)
    <2> DEFINE row == markShipmentShipped([sh EXCEPT !.status = "created", !.wb = q.seq])
               pc == IF OrderOf[s] \in RefOnly THEN "bgRead" ELSE "shipCore"
               x == [q EXCEPT !.pc = pc, !.snap = row]
    <2>1. q.pc = "saveCreated" /\ rows' = [rows EXCEPT ![s] = row] /\ req' = [req EXCEPT ![r] = x]
      BY <1>3, <1>a DEF SaveCreated, Save, q, s, sh
    <2>2. row \in Row /\ row.wb = q.seq
      <3> DEFINE base == [sh EXCEPT !.status = "created", !.wb = q.seq]
      <3>1. base \in Row /\ base.wb = q.seq
        BY <1>0 DEF Row, Statuses
      <3> HIDE DEF base
      <3>2. markShipmentShipped(base) \in Row /\ markShipmentShipped(base).wb = base.wb
        BY <3>1, MarkedTypes
      <3> QED
        BY <3>1, <3>2 DEF base
    <2> HIDE DEF row
    <2>3. pc \in PCs /\ pc \in {"bgRead", "shipCore"}
      BY DEF PCs
    <2> HIDE DEF pc
    <2>4. x \in Request /\ x.snap = row /\ x.pc = pc
      BY <2>2, <2>3, <1>0 DEF Request
    <2>5. /\ x.pc \in {"call", "saveCreated"} => x.seq # 0
          /\ x.pc \in {"shipCore", "sfCancel", "bgUpdate"} => x.snap.wb # 0
      BY <2>1, <2>2, <2>3, <2>4, <1>b
    <2> HIDE DEF x
    <2> QED
      BY <1>3, <2>1, <2>2, <2>4, <2>5, <1>a, <1>d, SlotChange DEF SaveCreated
  <1>4. CASE SaveFailed(r)
    <2>1. [sh EXCEPT !.status = "failed"] \in Row
      BY <1>0, RowUpdates DEF Statuses
    <2> QED
      BY <1>4, <2>1, <1>a, <1>c, <1>d, SlotChange DEF SaveFailed, Save, Return, s, sh
  <1>5. CASE ShipOrderCore(r)
    <2>1. q.pc = "shipCore" /\ sh.wb # 0 /\ sh.wb \in Nat
      BY <1>5, <1>0, <1>b DEF ShipOrderCore, q, Row
    <2>2. oc' \subseteq Waybills
      BY <1>5, <1>0, <1>a, <2>1, WaybillType DEF ShipOrderCore, s, sh
    <2>3. PICK x \in {Idle, [q EXCEPT !.pc = "bgRead"]} : req' = [req EXCEPT ![r] = x]
      BY <1>5, <1>a DEF ShipOrderCore, Goto, Return, q
    <2>4. x \in Request /\ x.pc \in {"idle", "bgRead"}
      BY <1>0, <1>c DEF Request, PCs
    <2> QED
      BY <1>5, <2>2, <2>3, <2>4, <1>a, SlotChange DEF ShipOrderCore
  <1>6. CASE BackgroundRead(r)
    <2>1. PICK x \in {Idle, [q EXCEPT !.pc = "bgPrint", !.snap = rows[s]]} :
            req' = [req EXCEPT ![r] = x]
      BY <1>6, <1>a DEF BackgroundRead, Return, q, s
    <2>2. x \in Request /\ x.pc \in {"idle", "bgPrint"}
      BY <1>0, <1>a, <1>c DEF Request, PCs
    <2> QED
      BY <1>6, <2>1, <2>2, <1>a, SlotChange DEF BackgroundRead
  <1>7. CASE BackgroundUpdate(r)
    <2>1. rows[s] \in Row
      BY <1>0, <1>a
    <2>2. [rows[s] EXCEPT !.status = sh.status, !.printed = sh.printed, !.pdf = sh.pdf] \in Row
      BY <2>1, <1>0 DEF Row
    <2>3. rows' \in {rows, [rows EXCEPT ![s] = [rows[s] EXCEPT !.status = sh.status,
                             !.printed = sh.printed, !.pdf = sh.pdf]]}
      BY <1>7, <1>0, <1>a DEF BackgroundUpdate, s, sh
    <2> QED
      BY <1>7, <2>2, <2>3, <1>a, <1>c, <1>d, SlotChange DEF BackgroundUpdate, Return
  <1>8. CASE ApplyCloudPrint(r)
    <2> DEFINE x == [q EXCEPT !.pc = IF q.pc = "print" THEN "printSave" ELSE "bgUpdate",
                              !.snap = markShipmentPrinted(sh)]
    <2>1. req' = [req EXCEPT ![r] = x] /\ sh.wb # 0 /\ jobs' \subseteq Ships
      BY <1>8, <1>0, <1>a DEF ApplyCloudPrint, q, sh, s
    <2>2. x \in Request /\ x.snap = markShipmentPrinted(sh) /\ x.pc \in {"printSave", "bgUpdate"}
      BY <1>0, MarkedTypes DEF Request, PCs
    <2>3. x.snap.wb # 0
      BY <2>1, <2>2, <1>0, MarkedTypes
    <2> HIDE DEF x
    <2> QED
      BY <1>8, <2>1, <2>2, <2>3, <1>a, SlotChange DEF ApplyCloudPrint
  <1>9. CASE FetchPrintPluginData(r)
    <2> DEFINE x == [q EXCEPT !.pc = "pluginSave", !.snap = markShipmentPrinted(sh)]
    <2>1. req' = [req EXCEPT ![r] = x]
      BY <1>9, <1>0, <1>a DEF FetchPrintPluginData, q, sh
    <2>2. x \in Request /\ x.pc = "pluginSave"
      BY <1>0, MarkedTypes DEF Request, PCs
    <2> QED
      BY <1>9, <2>1, <2>2, <1>a, SlotChange DEF FetchPrintPluginData
  <1>10. CASE FetchLabelPDF(r)
    <2>1. PICK b \in {TRUE, req[r].snap.pdf} :
            req' = [req EXCEPT ![r].pc = "pdfSave",
                               ![r].snap = [markShipmentPrinted(@) EXCEPT !.pdf = b]]
      BY <1>10 DEF FetchLabelPDF
    <2> DEFINE m == markShipmentPrinted(sh)
               row == [m EXCEPT !.pdf = b]
               x == [q EXCEPT !.pc = "pdfSave", !.snap = row]
    <2>2. req' = [req EXCEPT ![r] = x]
      BY <2>1, <1>a DEF q, sh
    <2>3. m \in Row
      BY <1>0, MarkedTypes
    <2>4. row \in Row
      BY <2>1, <2>3, <1>0 DEF Row, sh
    <2>5. x \in Request /\ x.pc = "pdfSave"
      BY <2>4, <1>0 DEF Request, PCs
    <2> QED
      BY <1>10, <2>2, <2>5, <1>a, SlotChange DEF FetchLabelPDF
  <1>11. CASE SavePrinted(r)
    <2>1. rows' \in [Ships -> Row] /\ jobs' \subseteq Ships
      BY <1>11, <1>0, <1>a, <1>d DEF SavePrinted, Save, s, sh
    <2> QED
      BY <1>11, <2>1, <1>a, <1>c, SlotChange DEF SavePrinted, Return
  <1>12. CASE SFCancelOrder(r)
    <2>1. q.pc = "sfCancel" /\ sh.wb # 0 /\ sh.wb \in Nat
      BY <1>12, <1>0, <1>b DEF SFCancelOrder, q, Row
    <2>2. voided' \subseteq Waybills
      BY <1>12, <1>0, <1>a, <2>1, WaybillType DEF SFCancelOrder, s, sh
    <2>3. PICK x \in {Idle, [q EXCEPT !.pc = "cancelSave"]} : req' = [req EXCEPT ![r] = x]
      BY <1>12, <1>a DEF SFCancelOrder, Goto, Return, q
    <2>4. x \in Request /\ x.pc \in {"idle", "cancelSave"}
      BY <1>0, <1>c DEF Request, PCs
    <2> QED
      BY <1>12, <2>2, <2>3, <2>4, <1>a, SlotChange DEF SFCancelOrder
  <1>13. CASE CancelSave(r)
    <2> DEFINE row == [sh EXCEPT !.status = "cancelled"]
               x == [q EXCEPT !.pc = "unship", !.snap = row]
    <2>1. rows' = [rows EXCEPT ![s] = row] /\ req' = [req EXCEPT ![r] = x]
      BY <1>13, <1>a DEF CancelSave, Save, q, s, sh
    <2>2. row \in Row
      BY <1>0, RowUpdates DEF Statuses
    <2>3. x \in Request /\ x.pc = "unship"
      BY <2>2, <1>0 DEF Request, PCs
    <2> QED
      BY <1>13, <2>1, <2>2, <2>3, <1>a, <1>d, SlotChange DEF CancelSave
  <1>14. CASE UnshipOrderCore(r)
    BY <1>14, <1>a, <1>c, SlotChange DEF UnshipOrderCore, Return
  <1>15. CASE DeleteRows(r)
    BY <1>15, <1>a, <1>c, IdleType, SlotChange DEF DeleteRows, Return
  <1>16. CASE ErrorReturn(r)
    BY <1>16, <1>a, <1>c, SlotChange DEF ErrorReturn, Return
  <1> QED
    BY <1>1, <1>2, <1>3, <1>4, <1>5, <1>6, <1>7, <1>8, <1>9, <1>10, <1>11, <1>12,
       <1>13, <1>14, <1>15, <1>16 DEF Step

LEMMA TypeOthers ==
  ASSUME TypeInv,
         \/ \E s \in Ships : CreateFromOrder(s) \/ ArchiveLabelPDF(s)
                             \/ SyncShippedAtByMailNo(s) \/ UpsertKdzsFromSync(s)
         \/ Crash
  PROVE  TypeInv'
  <1> USE DEF TypeInv, TypeOK, SlotsNumbered
  <1>1. ASSUME NEW s \in Ships, CreateFromOrder(s) PROVE TypeInv'
    BY <1>1, IdleType DEF CreateFromOrder, NoRow, Row, Statuses
  <1>2. ASSUME NEW s \in Ships, ArchiveLabelPDF(s) PROVE TypeInv'
    BY <1>2 DEF ArchiveLabelPDF, Row, Statuses
  <1>3. ASSUME NEW s \in Ships, SyncShippedAtByMailNo(s) PROVE TypeInv'
    BY <1>3 DEF SyncShippedAtByMailNo, Row, Statuses
  <1>4. ASSUME NEW s \in Ships, UpsertKdzsFromSync(s) PROVE TypeInv'
    <2>1. rows[s] \in Row /\ [NoRow EXCEPT !.status = "printed", !.shippedAt = "synced"] \in Row
      BY IdleType, RowUpdates DEF Statuses
    <2>2. [rows[s] EXCEPT !.shippedAt = "synced",
                          !.printed = IF s \in KdzsShips THEN FALSE ELSE @] \in Row
      BY <2>1 DEF Row
    <2>3. rows' \in [Ships -> Row] /\ born' \subseteq Ships
      BY <1>4, <2>1, <2>2 DEF UpsertKdzsFromSync
    <2> QED
      BY <1>4, <2>3 DEF UpsertKdzsFromSync
  <1>5. CASE Crash
    BY <1>5, IdleType DEF Crash
  <1> QED
    BY <1>1, <1>2, <1>3, <1>4, <1>5

LEMMA TypeNext == TypeInv /\ [Next]_vars => TypeInv'
  <1>1. CASE UNCHANGED vars
    BY <1>1 DEF TypeInv, TypeOK, SlotsNumbered, vars
  <1> QED
    BY <1>1, TypeCall, TypeStep, TypeOthers DEF Next

\* Every variable keeps its type in every behaviour of the handlers.
THEOREM TypeCorrect == Spec => []TypeOK
  <1>1. Spec => []TypeInv
    BY TypeInit, TypeNext, PTL DEF Spec
  <1> QED
    BY <1>1, PTL DEF TypeInv

-----------------------------------------------------------------------------
(* Numbers are SF's: NumbersIssued is inductive on top of the types.       *)

LEMMA NumbersInit == Init => NumbersIssued
  BY IdleType DEF Init, NumbersIssued, NumberOf, Idle, NoRow

\* A slot takes over a snapshot whose number is issued, rows get a number that
\* is issued or keep theirs, and the ledger only grows.
LEMMA NumbersSlot ==
  ASSUME TypeInv, NumbersIssued, NEW r \in Reqs, NEW x \in Request,
         NumberOf(x.ship, x.snap),
         x.pc = "saveCreated" => Waybill(x.ship, x.seq) \in issued',
         req' = [req EXCEPT ![r] = x],
         \A s \in Ships : \/ rows'[s].wb \in {0, rows[s].wb}
                          \/ Waybill(s, rows'[s].wb) \in issued',
         issued \subseteq issued', voided' \subseteq issued', oc' \subseteq issued'
  PROVE  NumbersIssued'
  BY DEF TypeInv, TypeOK, NumbersIssued, NumberOf, Waybill

LEMMA NumbersCall ==
  ASSUME TypeInv, NumbersIssued, NEW r \in Reqs, Call(r)
  PROVE  NumbersIssued'
  <1>0. /\ rows \in [Ships -> Row] /\ req \in [Reqs -> Request]
        /\ voided \subseteq issued /\ oc \subseteq issued
    BY DEF TypeInv, TypeOK, NumbersIssued
  <1>1. ASSUME NEW s \in Ships, NEW pc \in PCs \ {"saveCreated"}, Begin(r, s, pc, rows[s]),
               UNCHANGED <<rows, issued, voided, oc>>
        PROVE  NumbersIssued'
    <2> DEFINE x == [pc |-> pc, ship |-> s, snap |-> rows[s], seq |-> 0, ids |-> {}]
    <2>1. x \in Request /\ x.ship = s /\ x.snap = rows[s] /\ x.pc # "saveCreated"
      BY <1>0 DEF Request
    <2>2. NumberOf(x.ship, x.snap)
      BY <2>1 DEF NumbersIssued
    <2>3. req' = [req EXCEPT ![r] = x]
      BY <1>1 DEF Begin
    <2> HIDE DEF x
    <2> QED
      BY <1>0, <1>1, <2>1, <2>2, <2>3, NumbersSlot
  <1>2. ASSUME NEW s \in Ships, BeginCreateWaybill(r, s) PROVE NumbersIssued'
    BY <1>1, <1>2 DEF BeginCreateWaybill, PCs
  <1>3. ASSUME NEW s \in Ships, BeginCancel(r, s) PROVE NumbersIssued'
    <2>1. PICK pc \in {"unship", "cancelSave", "sfCancel"} : Begin(r, s, pc, rows[s])
      BY <1>3 DEF BeginCancel
    <2> QED
      BY <1>1, <1>3, <2>1 DEF BeginCancel, PCs
  <1>4. ASSUME NEW s \in Ships, NEW kind \in {"print", "plugin", "pdf"}, BeginPrint(r, s, kind)
        PROVE  NumbersIssued'
    BY <1>1, <1>4 DEF BeginPrint, PCs
  <1>5. ASSUME NEW o \in Orders, BeginDelete(r, o) PROVE NumbersIssued'
    <2>1. PICK ids \in SUBSET Ships :
            req' = [req EXCEPT ![r] = [Idle EXCEPT !.pc = "delete", !.ids = ids]]
      BY <1>5 DEF BeginDelete
    <2> DEFINE x == [Idle EXCEPT !.pc = "delete", !.ids = ids]
    <2>2. x \in Request /\ x.pc = "delete" /\ x.snap = Idle.snap
      BY IdleType DEF Request, PCs
    <2>3. x.snap.wb = 0
      BY <2>2 DEF Idle, NoRow
    <2>4. req' = [req EXCEPT ![r] = x]
      BY <2>1
    <2> HIDE DEF x
    <2>5. NumberOf(x.ship, x.snap)
      BY <2>3 DEF NumberOf
    <2> QED
      BY <1>0, <1>5, <2>2, <2>4, <2>5, NumbersSlot DEF BeginDelete
  <1> QED
    BY <1>2, <1>3, <1>4, <1>5 DEF Call

\* The slot ends, and the tables change as NumbersSlot allows.
LEMMA NumbersReturn ==
  ASSUME TypeInv, NumbersIssued, NEW r \in Reqs, Return(r),
         \A s \in Ships : \/ rows'[s].wb \in {0, rows[s].wb}
                          \/ Waybill(s, rows'[s].wb) \in issued',
         issued \subseteq issued', voided' \subseteq issued', oc' \subseteq issued'
  PROVE  NumbersIssued'
  <1>1. Idle \in Request /\ Idle.pc # "saveCreated" /\ NumberOf(Idle.ship, Idle.snap)
    BY IdleType DEF NumberOf, Idle, NoRow
  <1> QED
    BY <1>1, NumbersSlot DEF Return

LEMMA NumbersStep ==
  ASSUME TypeInv, NumbersIssued, NEW r \in Reqs, Step(r)
  PROVE  NumbersIssued'
  <1> DEFINE s == req[r].ship
             sh == req[r].snap
             q == req[r]
  <1>0. /\ q \in Request /\ s \in Ships /\ sh \in Row /\ q.seq \in Nat
        /\ q.ship = s /\ q.snap = sh /\ sh.wb \in Nat
    BY DEF TypeInv, TypeOK, Request, Row
  <1>a. /\ rows \in [Ships -> Row] /\ req \in [Reqs -> Request]
        /\ voided \subseteq issued /\ oc \subseteq issued
        /\ NumberOf(s, sh)
        /\ q.pc = "saveCreated" => Waybill(s, q.seq) \in issued
    BY DEF TypeInv, TypeOK, NumbersIssued
  <1>b. q.pc \in {"shipCore", "sfCancel", "bgUpdate"} => sh.wb # 0
    BY DEF TypeInv, SlotsNumbered
  <1>c. ASSUME NEW row \in Row, \/ row.wb \in {0, sh.wb}
                                \/ Waybill(s, row.wb) \in issued,
               rows' = [rows EXCEPT ![s] = row]
        PROVE  \A t \in Ships : \/ rows'[t].wb \in {0, rows[t].wb}
                                \/ Waybill(t, rows'[t].wb) \in issued
    BY <1>0, <1>a, <1>c DEF NumberOf
  <1> HIDE DEF s, sh, q
  <1>1. CASE ResolveOrderID(r)
    <2>1. PICK n : req' = [req EXCEPT ![r].pc = "call", ![r].seq = n]
      BY <1>1 DEF ResolveOrderID
    <2>2. req' \in [Reqs -> Request]
      BY <1>1, TypeStep DEF TypeInv, TypeOK
    <2> DEFINE x == [q EXCEPT !.pc = "call", !.seq = n]
    <2>3. req' = [req EXCEPT ![r] = x]
      BY <2>1, <1>a DEF q
    <2>4. x \in Request
      BY <2>2, <2>3, <1>a
    <2>5. x.pc = "call" /\ x.ship = s /\ x.snap = sh
      BY <1>0 DEF Request
    <2> HIDE DEF x
    <2> QED
      BY <1>1, <1>a, <2>3, <2>4, <2>5, NumbersSlot DEF ResolveOrderID
  <1>2. CASE SFCreateOrder(r)
    <2>1. PICK pc \in {"saveCreated", "saveFailed"} :
            Goto(r, pc) /\ (pc = "saveCreated" => Waybill(s, q.seq) \in issued')
      BY <1>2 DEF SFCreateOrder, s, q
    <2> DEFINE x == [q EXCEPT !.pc = pc]
    <2>2. req' = [req EXCEPT ![r] = x]
      BY <2>1, <1>a DEF q, Goto
    <2>3. x \in Request /\ x.seq = q.seq /\ x.pc = pc /\ x.ship = s /\ x.snap = sh
      BY <2>1, <1>0 DEF Request, PCs
    <2>4. issued \subseteq issued' /\ UNCHANGED <<rows, voided, oc>>
      BY <1>2 DEF SFCreateOrder
    <2> HIDE DEF x
    <2> QED
      BY <1>a, <2>1, <2>2, <2>3, <2>4, NumbersSlot
  <1>3. CASE SaveCreated(r)
    <2> DEFINE base == [sh EXCEPT !.status = "created", !.wb = q.seq]
               row == markShipmentShipped(base)
               pc == IF OrderOf[s] \in RefOnly THEN "bgRead" ELSE "shipCore"
               x == [q EXCEPT !.pc = pc, !.snap = row]
    <2>1. q.pc = "saveCreated" /\ rows' = [rows EXCEPT ![s] = row] /\ req' = [req EXCEPT ![r] = x]
      BY <1>3, <1>a DEF SaveCreated, Save, q, s, sh
    <2>2. base \in Row /\ base.wb = q.seq
      BY <1>0 DEF Row, Statuses
    <2> HIDE DEF base
    <2>3. row \in Row /\ row.wb = q.seq
      BY <2>2, MarkedTypes
    <2> HIDE DEF row
    <2>4. pc \in PCs /\ pc # "saveCreated"
      BY DEF PCs
    <2> HIDE DEF pc
    <2>5. x \in Request /\ x.snap = row /\ x.pc = pc /\ x.ship = s
      BY <2>3, <2>4, <1>0 DEF Request
    <2> HIDE DEF x
    <2>6. Waybill(s, row.wb) \in issued
      BY <1>a, <2>1, <2>3
    <2>7. UNCHANGED <<issued, voided, oc>>
      BY <1>3 DEF SaveCreated
    <2>8. \A t \in Ships : rows'[t].wb \in {0, rows[t].wb} \/ Waybill(t, rows'[t].wb) \in issued
      BY <1>c, <2>1, <2>3, <2>6
    <2>9. NumberOf(x.ship, x.snap)
      BY <2>5, <2>6 DEF NumberOf
    <2> QED
      BY <1>a, <2>1, <2>4, <2>5, <2>7, <2>8, <2>9, NumbersSlot
  <1>4. CASE SaveFailed(r)
    <2> DEFINE row == [sh EXCEPT !.status = "failed"]
    <2>1. row \in Row /\ row.wb = sh.wb
      BY <1>0, RowUpdates DEF Statuses
    <2>2. rows' = [rows EXCEPT ![s] = row] /\ Return(r) /\ UNCHANGED <<issued, voided, oc>>
      BY <1>4 DEF SaveFailed, Save, s, sh
    <2> HIDE DEF row
    <2> QED
      BY <1>a, <1>c, <2>1, <2>2, NumbersReturn
  <1>5. CASE ShipOrderCore(r)
    <2>1. q.pc = "shipCore" /\ sh.wb # 0 /\ Waybill(s, sh.wb) \in issued
      BY <1>5, <1>a, <1>b DEF ShipOrderCore, q, NumberOf
    <2>2. oc' \subseteq issued /\ UNCHANGED <<rows, issued, voided>>
      BY <1>5, <1>a, <2>1 DEF ShipOrderCore, s, sh
    <2>3. CASE Return(r)
      BY <1>a, <2>2, <2>3, NumbersReturn
    <2>4. CASE Goto(r, "bgRead")
      <3> DEFINE x == [q EXCEPT !.pc = "bgRead"]
      <3>1. req' = [req EXCEPT ![r] = x]
        BY <2>4, <1>a DEF q, Goto
      <3>2. x \in Request /\ x.pc = "bgRead" /\ x.ship = s /\ x.snap = sh
        BY <1>0 DEF Request, PCs
      <3> HIDE DEF x
      <3> QED
        BY <1>a, <2>2, <3>1, <3>2, NumbersSlot
    <2> QED
      BY <1>5, <2>3, <2>4 DEF ShipOrderCore
  <1>6. CASE BackgroundRead(r)
    <2>1. UNCHANGED <<rows, issued, voided, oc>>
      BY <1>6 DEF BackgroundRead
    <2>2. CASE Return(r)
      BY <1>a, <2>1, <2>2, NumbersReturn
    <2>3. CASE req' = [req EXCEPT ![r].pc = "bgPrint", ![r].snap = rows[req[r].ship]]
      <3> DEFINE x == [q EXCEPT !.pc = "bgPrint", !.snap = rows[s]]
      <3>1. req' = [req EXCEPT ![r] = x]
        BY <2>3, <1>a DEF q, s
      <3>2. x \in Request /\ x.pc = "bgPrint" /\ x.ship = s /\ x.snap = rows[s]
        BY <1>0, <1>a DEF Request, PCs
      <3>3. NumberOf(s, rows[s])
        BY <1>0 DEF NumbersIssued
      <3> HIDE DEF x
      <3> QED
        BY <1>a, <2>1, <3>1, <3>2, <3>3, NumbersSlot
    <2> QED
      BY <1>6, <2>2, <2>3 DEF BackgroundRead
  <1>7. CASE BackgroundUpdate(r)
    <2>1. \A t \in Ships : rows'[t].wb = rows[t].wb
      BY <1>7, <1>0, <1>a DEF BackgroundUpdate, Row
    <2> QED
      BY <1>7, <1>a, <2>1, NumbersReturn DEF BackgroundUpdate
  <1>8. CASE ApplyCloudPrint(r)
    <2> DEFINE x == [q EXCEPT !.pc = IF q.pc = "print" THEN "printSave" ELSE "bgUpdate",
                              !.snap = markShipmentPrinted(sh)]
    <2>1. req' = [req EXCEPT ![r] = x]
      BY <1>8, <1>a DEF ApplyCloudPrint, q, sh, s
    <2>2. /\ x \in Request /\ x.ship = s /\ x.snap = markShipmentPrinted(sh)
          /\ x.pc \in {"printSave", "bgUpdate"}
      BY <1>0, MarkedTypes DEF Request, PCs
    <2>3. NumberOf(s, markShipmentPrinted(sh))
      BY <1>0, <1>a, MarkedTypes DEF NumberOf
    <2> HIDE DEF x
    <2>4. UNCHANGED <<rows, issued, voided, oc>> /\ NumberOf(x.ship, x.snap)
      BY <1>8, <2>2, <2>3 DEF ApplyCloudPrint
    <2>5. x.pc # "saveCreated"
      BY <2>2
    <2> QED
      BY <1>a, <2>1, <2>2, <2>4, <2>5, NumbersSlot
  <1>9. CASE FetchPrintPluginData(r)
    <2> DEFINE x == [q EXCEPT !.pc = "pluginSave", !.snap = markShipmentPrinted(sh)]
    <2>1. req' = [req EXCEPT ![r] = x]
      BY <1>9, <1>a DEF FetchPrintPluginData, q, sh
    <2>2. x \in Request /\ x.pc = "pluginSave" /\ x.ship = s /\ x.snap = markShipmentPrinted(sh)
      BY <1>0, MarkedTypes DEF Request, PCs
    <2>3. NumberOf(s, markShipmentPrinted(sh))
      BY <1>0, <1>a, MarkedTypes DEF NumberOf
    <2> HIDE DEF x
    <2> QED
      BY <1>9, <1>a, <2>1, <2>2, <2>3, NumbersSlot DEF FetchPrintPluginData
  <1>10. CASE FetchLabelPDF(r)
    <2>1. PICK b \in {TRUE, req[r].snap.pdf} :
            req' = [req EXCEPT ![r].pc = "pdfSave",
                               ![r].snap = [markShipmentPrinted(@) EXCEPT !.pdf = b]]
      BY <1>10 DEF FetchLabelPDF
    <2> DEFINE m == markShipmentPrinted(sh)
               row == [m EXCEPT !.pdf = b]
               x == [q EXCEPT !.pc = "pdfSave", !.snap = row]
    <2>2. req' = [req EXCEPT ![r] = x]
      BY <2>1, <1>a DEF q, sh
    <2>3. m \in Row /\ m.wb = sh.wb
      BY <1>0, MarkedTypes
    <2> HIDE DEF m
    <2>4. row \in Row /\ row.wb = sh.wb
      BY <2>1, <2>3, <1>0 DEF Row, sh
    <2> HIDE DEF row
    <2>5. x \in Request /\ x.pc = "pdfSave" /\ x.ship = s /\ x.snap = row
      BY <2>4, <1>0 DEF Request, PCs
    <2>6. NumberOf(s, row)
      BY <2>4, <1>a DEF NumberOf
    <2> HIDE DEF x
    <2> QED
      BY <1>10, <1>a, <2>2, <2>5, <2>6, NumbersSlot DEF FetchLabelPDF
  <1>11. CASE SavePrinted(r)
    <2>1. UNCHANGED <<issued, voided, oc>> /\ Return(r)
      BY <1>11 DEF SavePrinted
    <2>2. rows' = [rows EXCEPT ![s] = sh] \/ UNCHANGED rows
      BY <1>11 DEF SavePrinted, Save, s, sh
    <2> QED
      BY <1>0, <1>a, <1>c, <2>1, <2>2, NumbersReturn
  <1>12. CASE SFCancelOrder(r)
    <2>1. q.pc = "sfCancel" /\ Waybill(s, sh.wb) \in issued
      BY <1>12, <1>a, <1>b DEF SFCancelOrder, q, NumberOf
    <2>2. voided' \subseteq issued /\ UNCHANGED <<rows, issued, oc>>
      BY <1>12, <1>a, <2>1 DEF SFCancelOrder, s, sh
    <2>3. CASE Return(r)
      BY <1>a, <2>2, <2>3, NumbersReturn
    <2>4. CASE Goto(r, "cancelSave")
      <3> DEFINE x == [q EXCEPT !.pc = "cancelSave"]
      <3>1. req' = [req EXCEPT ![r] = x]
        BY <2>4, <1>a DEF q, Goto
      <3>2. x \in Request /\ x.pc = "cancelSave" /\ x.ship = s /\ x.snap = sh
        BY <1>0 DEF Request, PCs
      <3> HIDE DEF x
      <3> QED
        BY <1>a, <2>2, <3>1, <3>2, NumbersSlot
    <2> QED
      BY <1>12, <2>3, <2>4 DEF SFCancelOrder
  <1>13. CASE CancelSave(r)
    <2> DEFINE row == [sh EXCEPT !.status = "cancelled"]
               x == [q EXCEPT !.pc = "unship", !.snap = row]
    <2>1. rows' = [rows EXCEPT ![s] = row] /\ req' = [req EXCEPT ![r] = x]
      BY <1>13, <1>a DEF CancelSave, Save, q, s, sh
    <2>2. row \in Row /\ row.wb = sh.wb
      BY <1>0, RowUpdates DEF Statuses
    <2> HIDE DEF row
    <2>3. x \in Request /\ x.pc = "unship" /\ x.ship = s /\ x.snap = row
      BY <2>2, <1>0 DEF Request, PCs
    <2> HIDE DEF x
    <2>4. NumberOf(s, row)
      BY <2>2, <1>a DEF NumberOf
    <2>5. UNCHANGED <<issued, voided, oc>>
      BY <1>13 DEF CancelSave
    <2>6. \A t \in Ships : rows'[t].wb \in {0, rows[t].wb} \/ Waybill(t, rows'[t].wb) \in issued
      BY <1>c, <2>1, <2>2
    <2> QED
      BY <1>a, <2>1, <2>3, <2>4, <2>5, <2>6, NumbersSlot
  <1>14. CASE UnshipOrderCore(r)
    BY <1>14, <1>a, NumbersReturn DEF UnshipOrderCore
  <1>15. CASE DeleteRows(r)
    BY <1>15, <1>a, NumbersReturn DEF DeleteRows, NoRow
  <1>16. CASE ErrorReturn(r)
    BY <1>16, <1>a, NumbersReturn DEF ErrorReturn
  <1> QED
    BY <1>1, <1>2, <1>3, <1>4, <1>5, <1>6, <1>7, <1>8, <1>9, <1>10, <1>11, <1>12,
       <1>13, <1>14, <1>15, <1>16 DEF Step

LEMMA NumbersOthers ==
  ASSUME TypeInv, NumbersIssued,
         \/ \E s \in Ships : CreateFromOrder(s) \/ ArchiveLabelPDF(s)
                             \/ SyncShippedAtByMailNo(s) \/ UpsertKdzsFromSync(s)
         \/ Crash
  PROVE  NumbersIssued'
  <1>0. rows \in [Ships -> Row] /\ req \in [Reqs -> Request]
    BY DEF TypeInv, TypeOK
  <1>1. ASSUME UNCHANGED <<issued, voided, oc, req>>,
               \A s \in Ships : rows'[s].wb \in {0, rows[s].wb}
        PROVE  NumbersIssued'
    BY <1>1 DEF NumbersIssued, NumberOf, Waybill
  <1>2. ASSUME NEW s \in Ships, CreateFromOrder(s) PROVE NumbersIssued'
    <2>1. \A t \in Ships : rows'[t].wb \in {0, rows[t].wb}
      BY <1>0, <1>2 DEF CreateFromOrder, NoRow
    <2> QED
      BY <1>1, <1>2, <2>1 DEF CreateFromOrder
  <1>3. ASSUME NEW s \in Ships, ArchiveLabelPDF(s) PROVE NumbersIssued'
    <2>1. \A t \in Ships : rows'[t].wb \in {0, rows[t].wb}
      BY <1>0, <1>3 DEF ArchiveLabelPDF, Row
    <2> QED
      BY <1>1, <1>3, <2>1 DEF ArchiveLabelPDF
  <1>4. ASSUME NEW s \in Ships, SyncShippedAtByMailNo(s) PROVE NumbersIssued'
    <2>1. \A t \in Ships : rows'[t].wb \in {0, rows[t].wb}
      BY <1>0, <1>4 DEF SyncShippedAtByMailNo, Row
    <2> QED
      BY <1>1, <1>4, <2>1 DEF SyncShippedAtByMailNo
  <1>5. ASSUME NEW s \in Ships, UpsertKdzsFromSync(s) PROVE NumbersIssued'
    <2> DEFINE old == [rows[s] EXCEPT !.shippedAt = "synced",
                                      !.printed = IF s \in KdzsShips THEN FALSE ELSE @]
               new == [NoRow EXCEPT !.status = "printed", !.shippedAt = "synced"]
    <2>0. old.wb = rows[s].wb /\ new.wb = 0
      BY <1>0 DEF Row, NoRow
    <2>a. rows' \in {[rows EXCEPT ![s] = old], [rows EXCEPT ![s] = new]}
      BY <1>0, <1>5 DEF UpsertKdzsFromSync
    <2> HIDE DEF old, new
    <2>1. \A t \in Ships : rows'[t].wb \in {0, rows[t].wb}
      BY <1>0, <2>0, <2>a
    <2> QED
      BY <1>1, <1>5, <2>1 DEF UpsertKdzsFromSync
  <1>6. CASE Crash
    BY <1>6, IdleType DEF Crash, NumbersIssued, NumberOf, Idle, NoRow, Waybill
  <1> QED
    BY <1>2, <1>3, <1>4, <1>5, <1>6

LEMMA NumbersNext == TypeInv /\ NumbersIssued /\ [Next]_vars => NumbersIssued'
  <1>1. CASE UNCHANGED vars
    BY <1>1 DEF NumbersIssued, NumberOf, Waybill, vars
  <1> QED
    BY <1>1, NumbersCall, NumbersStep, NumbersOthers DEF Next

\* No row, handler, order or cancellation ever shows a waybill that SF did not
\* issue for that very shipment: stale whole-row saves cannot mix numbers.
THEOREM NumbersAreIssued == Spec => []NumbersIssued
  <1>1. TypeInv /\ NumbersIssued /\ [Next]_vars => (TypeInv /\ NumbersIssued)'
    BY TypeNext, NumbersNext
  <1>2. Init => TypeInv /\ NumbersIssued
    BY TypeInit, NumbersInit
  <1> QED
    BY <1>1, <1>2, PTL DEF Spec

-----------------------------------------------------------------------------
(* One SF order per shipment.  Each shipment of an order holds a different *)
(* number, and the numbers SF has accepted for the order are 1, 2, ..., k; *)
(* so the number a second try for a numbered shipment computes, one more   *)
(* than the numbered others, is at most k, and SF refuses it.              *)

LedgerKeys ==
  \A w \in issued : w = Waybill(w.ship, w.seq)

UniqueKeys ==
  \A w, x \in issued : (w.order = x.order /\ w.carrier = x.carrier /\ w.seq = x.seq) => w = x

Prefix ==
  \A o \in Orders : OneAccount(o) => \A n \in Taken(o) : 1 .. n \subseteq Taken(o)

\* A try for a shipment SF already has an order of can only be refused.
RetryRefused ==
  \A r \in Reqs :
    (req[r].pc = "call" /\ OneAccount(OrderOf[req[r].ship])) =>
      \A w \in issued : w.ship = req[r].ship => req[r].seq \in Taken(OrderOf[req[r].ship])

LedgerInv ==
  LedgerKeys /\ UniqueKeys /\ Prefix /\ NoGaps /\ RetryRefused /\ SingleWaybill

\* A set of numbers without gaps that n different things map to has 1, ..., n.
LEMMA PrefixCount ==
  ASSUME NEW T \in SUBSET (Nat \ {0}), \A n \in T : 1 .. n \subseteq T,
         NEW S, IsFiniteSet(S), NEW f \in [S -> T],
         \A s, t \in S : f[s] = f[t] => s = t
  PROVE  1 .. Cardinality(S) \subseteq T
  <1> SUFFICES ASSUME NEW n \in 1 .. Cardinality(S), n \notin T PROVE FALSE
    OBVIOUS
  <1>0. Cardinality(S) \in Nat
    BY FS_CardinalityType
  <1>1. T \subseteq 1 .. (n - 1)
    <2> SUFFICES ASSUME NEW m \in T, m >= n PROVE FALSE
      BY <1>0
    <2>1. n \in 1 .. m
      BY <1>0
    <2> QED
      BY <2>1
  <1>2. IsFiniteSet(1 .. (n - 1)) /\ Cardinality(1 .. (n - 1)) = n - 1
    <2>1. n - 1 \in Int /\ n - 1 >= 0 /\ 1 \in Int
      BY <1>0
    <2> DEFINE k == n - 1
    <2>2. IsFiniteSet(1 .. k) /\ Cardinality(1 .. k) = IF 1 > k THEN 0 ELSE k - 1 + 1
      <3>1. k \in Int
        BY <2>1
      <3> HIDE DEF k
      <3> QED
        BY <3>1, FS_Interval
    <2> HIDE DEF k
    <2>3. k \in Int /\ k >= 0
      BY <2>1 DEF k
    <2>4. IsFiniteSet(1 .. k) /\ Cardinality(1 .. k) = k
      BY <2>2, <2>3
    <2> QED
      BY <2>4 DEF k
  <1>3. Cardinality(S) > Cardinality(1 .. (n - 1))
    BY <1>0, <1>2
  <1>4. f \in [S -> 1 .. (n - 1)]
    BY <1>1
  <1>5. \E s, t \in S : s # t /\ f[s] = f[t]
    BY <1>2, <1>3, <1>4, FS_PigeonHole
  <1> QED
    BY <1>5

LEMMA LedgerInit == Init => LedgerInv
  BY IdleType DEF Init, LedgerInv, LedgerKeys, UniqueKeys, Prefix, NoGaps, RetryRefused,
     SingleWaybill, Taken

\* A step that leaves SF alone and starts no call to it.
LEMMA LedgerStable ==
  ASSUME LedgerInv, issued' = issued,
         \A q \in Reqs : req'[q].pc = "call" => req'[q] = req[q]
  PROVE  LedgerInv'
  <1>1. (LedgerKeys /\ UniqueKeys /\ Prefix /\ SingleWaybill)'
    BY DEF LedgerInv, LedgerKeys, UniqueKeys, Prefix, SingleWaybill, Taken, OneAccount, Waybill
  <1>2. NoGaps'
    BY DEF LedgerInv, NoGaps, Taken, OneAccount
  <1>3. RetryRefused'
    BY DEF LedgerInv, RetryRefused, Taken, OneAccount
  <1> QED
    BY <1>1, <1>2, <1>3 DEF LedgerInv

\* The numbers of an order are those of its shipments' waybills.
LEMMA TakenType ==
  ASSUME TypeInv, NEW o \in Orders
  PROVE  Taken(o) \in SUBSET (Nat \ {0})
  BY DEF TypeInv, TypeOK, Taken, Waybills

\* Shipments of one order and account that hold waybills hold different numbers:
\* with one number each, 1, ..., n of them are taken.
LEMMA HoldersTake ==
  ASSUME TypeInv, LedgerInv, NEW o \in Orders, OneAccount(o),
         NEW S \in SUBSET Ships, NEW n \in [S -> Nat],
         \A s \in S : OrderOf[s] = o /\ Waybill(s, n[s]) \in issued
  PROVE  1 .. Cardinality(S) \subseteq Taken(o)
  <1>1. n \in [S -> Taken(o)]
    <2> SUFFICES ASSUME NEW s \in S PROVE n[s] \in Taken(o)
      OBVIOUS
    <2>1. Waybill(s, n[s]).order = o /\ Waybill(s, n[s]).seq = n[s]
      BY DEF Waybill
    <2> QED
      BY <2>1 DEF Taken
  <1>2. ASSUME NEW s \in S, NEW t \in S, n[s] = n[t] PROVE s = t
    <2> DEFINE w == Waybill(s, n[s])
               x == Waybill(t, n[t])
    <2>1. CarrierOf[s] = CarrierOf[t]
      BY DEF OneAccount
    <2>2. /\ w.order = x.order /\ w.carrier = x.carrier /\ w.seq = x.seq
          /\ w.ship = s /\ x.ship = t
      BY <2>1, <1>2 DEF Waybill
    <2>3. w \in issued /\ x \in issued
      OBVIOUS
    <2> HIDE DEF w, x
    <2>4. w = x
      BY <2>2, <2>3 DEF LedgerInv, UniqueKeys
    <2> QED
      BY <2>2, <2>4
  <1>3. IsFiniteSet(S)
    BY ShipsAssumption, FS_Subset
  <1>4. \A m \in Taken(o) : 1 .. m \subseteq Taken(o)
    BY DEF LedgerInv, Prefix
  <1> QED
    BY <1>1, <1>2, <1>3, <1>4, TakenType, PrefixCount

\* What nextSFOrderSeq computes: no gap below it, and not free for a shipment
\* that has a waybill.
LEMMA SeqCounts ==
  ASSUME TypeInv, NumbersIssued, LedgerInv, NEW s \in Ships, OneAccount(OrderOf[s])
  PROVE  /\ 1 .. (nextSFOrderSeq(s) - 1) \subseteq Taken(OrderOf[s])
         /\ \A w \in issued : w.ship = s => nextSFOrderSeq(s) \in Taken(OrderOf[s])
  <1> DEFINE o == OrderOf[s]
             C == Counted(s)
  <1>0. o \in Orders /\ C \in SUBSET Ships /\ s \notin C /\ IsFiniteSet(C) /\ Cardinality(C) \in Nat
    BY ShipsAssumption, CountedType DEF Counted
  <1>1. ASSUME NEW t \in C PROVE OrderOf[t] = o /\ rows[t].wb \in Nat /\ Waybill(t, rows[t].wb) \in issued
    <2>1. OrderOf[t] = o /\ t \in Ships /\ HasNumber(t, rows[t])
      BY <1>1 DEF Counted
    <2>2. rows[t].wb # 0
      BY <2>1 DEF HasNumber, OneAccount
    <2> QED
      BY <2>1, <2>2 DEF NumbersIssued, NumberOf, TypeInv, TypeOK, Row
  <1>2. 1 .. Cardinality(C) \subseteq Taken(o)
    <2> DEFINE n == [t \in C |-> rows[t].wb]
    <2>1. n \in [C -> Nat] /\ \A t \in C : OrderOf[t] = o /\ Waybill(t, n[t]) \in issued
      BY <1>1
    <2> HIDE DEF n, C, o
    <2> QED
      BY <1>0, <2>1, HoldersTake DEF o
  <1>3. ASSUME NEW w \in issued, w.ship = s PROVE 1 .. (Cardinality(C) + 1) \subseteq Taken(o)
    <2> DEFINE D == C \cup {s}
               n == [t \in D |-> IF t = s THEN w.seq ELSE rows[t].wb]
    <2>1. w.seq \in Nat /\ Waybill(s, w.seq) = w
      BY <1>3 DEF LedgerInv, LedgerKeys, TypeInv, TypeOK, Waybills
    <2>2. n \in [D -> Nat] /\ \A t \in D : OrderOf[t] = o /\ Waybill(t, n[t]) \in issued
      BY <1>1, <2>1
    <2>3. D \in SUBSET Ships /\ Cardinality(D) = Cardinality(C) + 1
      BY <1>0, FS_AddElement
    <2> HIDE DEF n, D, C, o
    <2>4. 1 .. Cardinality(D) \subseteq Taken(o)
      BY <1>0, <2>2, <2>3, HoldersTake DEF o
    <2> QED
      BY <2>3, <2>4
  <1> HIDE DEF C
  <1>4. nextSFOrderSeq(s) \in {1, Cardinality(C) + 1}
    BY DEF nextSFOrderSeq, C
  <1> QED
    BY <1>0, <1>2, <1>3, <1>4

LEMMA LedgerResolve ==
  ASSUME TypeInv, NumbersIssued, LedgerInv, NEW r \in Reqs, ResolveOrderID(r)
  PROVE  LedgerInv'
  <1> DEFINE s == req[r].ship
             o == OrderOf[s]
             k == nextSFOrderSeq(s)
  <1>0. s \in Ships /\ o \in Orders /\ req \in [Reqs -> Request] /\ issued' = issued /\ k \in Nat /\ k # 0
    BY ShipsAssumption, SeqType DEF TypeInv, TypeOK, Request, ResolveOrderID
  <1>1. PICK n \in {k} \cup (IF "dbError" \in Faults THEN {1} ELSE {}) :
          req' = [req EXCEPT ![r].pc = "call", ![r].seq = n]
    BY DEF ResolveOrderID
  <1>2. req'[r].pc = "call" /\ req'[r].seq = n /\ req'[r].ship = s
    BY <1>0, <1>1 DEF Request
  <1>3. \A q \in Reqs : q # r => req'[q] = req[q]
    BY <1>0, <1>1
  <1>4. \A x : Taken(x)' = Taken(x)
    BY <1>0 DEF Taken
  <1>5. ASSUME OneAccount(o)
        PROVE  /\ 1 .. (n - 1) \subseteq Taken(o)
               /\ \A w \in issued : w.ship = s => n \in Taken(o)
    <2>1. CASE n = k
      BY <2>1, <1>0, <1>5, SeqCounts
    <2>2. CASE n = 1
      <3> SUFFICES ASSUME NEW w \in issued, w.ship = s PROVE 1 \in Taken(o)
        BY <2>2
      <3>1. w = Waybill(s, w.seq) /\ w.seq \in Nat \ {0}
        BY DEF LedgerInv, LedgerKeys, TypeInv, TypeOK, Waybills
      <3>2. w.seq \in Taken(o)
        BY <3>1 DEF Taken, Waybill
      <3>3. 1 .. w.seq \subseteq Taken(o)
        BY <3>2, <1>0, <1>5 DEF LedgerInv, Prefix
      <3> QED
        BY <3>1, <3>3
    <2> QED
      BY <1>1, <2>1, <2>2
  <1> HIDE DEF s, o, k
  <1>6. (LedgerKeys /\ UniqueKeys /\ Prefix /\ SingleWaybill)'
    BY <1>0, <1>4 DEF LedgerInv, LedgerKeys, UniqueKeys, Prefix, SingleWaybill, OneAccount, Waybill
  <1>7. NoGaps'
    BY <1>0, <1>2, <1>3, <1>4, <1>5 DEF LedgerInv, NoGaps, OneAccount, o
  <1>8. RetryRefused'
    BY <1>0, <1>2, <1>3, <1>4, <1>5 DEF LedgerInv, RetryRefused, OneAccount, o
  <1> QED
    BY <1>6, <1>7, <1>8 DEF LedgerInv

\* The numbers a ledger holds for an order: Taken(o) with the ledger as an argument.
SeqsOf(ledger, o) == {w.seq : w \in {x \in ledger : x.order = o}}

\* SF accepts a customer order.
LEMMA LedgerAccept ==
  ASSUME TypeInv, LedgerInv, NEW r \in Reqs, req[r].pc = "call",
         NEW w, w = Waybill(req[r].ship, req[r].seq),
         SFAccepts(w), issued' = issued \cup {w},
         \A q \in Reqs : req'[q].pc = "call" => req'[q] = req[q]
  PROVE  LedgerInv'
  <1> DEFINE s == req[r].ship
             n == req[r].seq
             o == OrderOf[s]
  <1>0. /\ s \in Ships /\ n \in Nat /\ n # 0 /\ o \in Orders /\ req \in [Reqs -> Request]
        /\ issued \subseteq Waybills
    BY ShipsAssumption DEF TypeInv, TypeOK, SlotsNumbered, Request
  <1>1. w.order = o /\ w.carrier = CarrierOf[s] /\ w.seq = n /\ w.ship = s
    BY DEF Waybill
  <1>2. \A x \in issued : x = Waybill(x.ship, x.seq) /\ x.ship \in Ships
    BY <1>0 DEF LedgerInv, LedgerKeys, Waybills
  <1>3. \A x \in issued : x.order = OrderOf[x.ship] /\ x.carrier = CarrierOf[x.ship]
    BY <1>2 DEF Waybill
  <1>a. \A p : Taken(p) = SeqsOf(issued, p)
    BY DEF Taken, SeqsOf
  <1>4. /\ SeqsOf(issued', o) = Taken(o) \cup {n}
        /\ \A p : p # o => SeqsOf(issued', p) = Taken(p)
    BY <1>1 DEF Taken, SeqsOf
  <1>5. OneAccount(o) => n \notin Taken(o)
    BY <1>0, <1>1, <1>2, <1>3 DEF SFAccepts, Taken, OneAccount
  <1>6. OneAccount(o) => 1 .. (n - 1) \subseteq Taken(o)
    BY <1>0 DEF LedgerInv, NoGaps
  <1>7. Taken(o) \in SUBSET (Nat \ {0})
    BY <1>0, TakenType
  <1> HIDE DEF s, n, o
  <1>8. LedgerKeys'
    BY <1>1, <1>2 DEF LedgerKeys, Waybill, s, n
  <1>9. UniqueKeys'
    BY <1>1 DEF LedgerInv, UniqueKeys, SFAccepts
  <1>10. Prefix'
    <2> SUFFICES ASSUME NEW p \in Orders, OneAccount(p), NEW m \in SeqsOf(issued', p)
                 PROVE  1 .. m \subseteq SeqsOf(issued', p)
      BY DEF Prefix, OneAccount, Taken, SeqsOf
    <2>1. CASE p = o /\ m = n
      <3>1. 1 .. n = (1 .. (n - 1)) \cup {n}
        BY <1>0
      <3> QED
        BY <2>1, <3>1, <1>4, <1>6
    <2>2. CASE m \in Taken(p)
      BY <2>2, <1>4 DEF LedgerInv, Prefix
    <2> QED
      BY <1>4, <2>1, <2>2
  <1>11. NoGaps'
    <2> SUFFICES ASSUME NEW p \in Orders, OneAccount(p), NEW q \in Reqs,
                        OrderOf[req'[q].ship] = p, req'[q].pc = "call"
                 PROVE  1 .. (req'[q].seq - 1) \subseteq SeqsOf(issued', p)
      BY DEF NoGaps, OneAccount, Taken, SeqsOf
    <2>1. req'[q] = req[q]
      OBVIOUS
    <2>2. 1 .. (req[q].seq - 1) \subseteq Taken(p)
      BY <2>1 DEF LedgerInv, NoGaps
    <2> QED
      BY <2>1, <2>2, <1>4
  <1>12. RetryRefused'
    <2> SUFFICES ASSUME NEW q \in Reqs, req'[q].pc = "call", OneAccount(OrderOf[req'[q].ship]),
                        NEW x \in issued', x.ship = req'[q].ship
                 PROVE  req'[q].seq \in SeqsOf(issued', OrderOf[req'[q].ship])
      BY DEF RetryRefused, OneAccount, Taken, SeqsOf
    <2> DEFINE j == req[q].seq
               p == OrderOf[req[q].ship]
    <2>1. req'[q] = req[q] /\ req[q].pc = "call" /\ j \in Nat /\ j # 0 /\ p \in Orders /\ req[q].ship \in Ships
      BY <1>0, ShipsAssumption DEF TypeInv, SlotsNumbered, Request
    <2>2. CASE x \in issued
      <3>1. j \in Taken(p)
        BY <2>1, <2>2 DEF LedgerInv, RetryRefused
      <3> QED
        BY <2>1, <3>1, <1>4
    <2>3. CASE x = w
      <3>1. p = o
        BY <2>1, <2>3, <1>1 DEF o
      <3>2. 1 .. (j - 1) \subseteq Taken(o)
        BY <2>1, <3>1 DEF LedgerInv, NoGaps
      <3>3. ~(n < j)
        <4> SUFFICES ASSUME n < j PROVE FALSE
          OBVIOUS
        <4>1. n \in 1 .. (j - 1)
          BY <2>1, <1>0
        <4> QED
          BY <4>1, <3>1, <3>2, <1>5, <2>1
      <3>4. j < n => j \in Taken(o)
        <4> SUFFICES ASSUME j < n PROVE j \in Taken(o)
          OBVIOUS
        <4>1. j \in 1 .. (n - 1)
          BY <2>1, <1>0
        <4> QED
          BY <4>1, <3>1, <1>6, <2>1
      <3>5. j = n \/ j \in Taken(o)
        BY <3>3, <3>4, <2>1, <1>0
      <3> QED
        BY <3>1, <3>5, <1>4, <2>1
    <2> QED
      BY <2>2, <2>3
  <1>13. SingleWaybill'
    <2>1. ASSUME NEW x \in issued, x.ship = s, OneAccount(o) PROVE FALSE
      BY <2>1, <1>0, <1>5 DEF LedgerInv, RetryRefused, s, n, o
    <2>2. \A x \in issued : x.ship = s => x.order = o
      BY <1>3 DEF o
    <2> QED
      BY <2>1, <2>2, <1>1 DEF LedgerInv, SingleWaybill, OneAccount
  <1> QED
    BY <1>8, <1>9, <1>10, <1>11, <1>12, <1>13 DEF LedgerInv

\* No other step starts a call to SF or changes one that runs.
LEMMA CallsKept ==
  ASSUME TypeInv, Next, \A r \in Reqs : ~ResolveOrderID(r)
  PROVE  \A q \in Reqs : req'[q].pc = "call" => req'[q] = req[q]
  <1>0. req \in [Reqs -> Request] /\ Idle.pc = "idle" /\ Idle \in Request
    BY IdleType DEF TypeInv, TypeOK
  <1>1. ASSUME NEW r \in Reqs, req' = [req EXCEPT ![r] = Idle]
        PROVE  \A q \in Reqs : req'[q].pc = "call" => req'[q] = req[q]
    BY <1>0, <1>1
  <1>2. ASSUME NEW r \in Reqs, NEW x, x.pc # "call", req' = [req EXCEPT ![r] = x]
        PROVE  \A q \in Reqs : req'[q].pc = "call" => req'[q] = req[q]
    BY <1>0, <1>2
  <1>3. ASSUME NEW r \in Reqs, Call(r)
        PROVE  \A q \in Reqs : req'[q].pc = "call" => req'[q] = req[q]
    <2>1. ASSUME NEW s \in Ships, NEW pc \in PCs \ {"call"}, Begin(r, s, pc, rows[s])
          PROVE  \A q \in Reqs : req'[q].pc = "call" => req'[q] = req[q]
      BY <1>0, <2>1 DEF Begin
    <2>2. ASSUME NEW s \in Ships, BeginCreateWaybill(r, s)
          PROVE  \A q \in Reqs : req'[q].pc = "call" => req'[q] = req[q]
      BY <2>1, <2>2 DEF BeginCreateWaybill, PCs
    <2>3. ASSUME NEW s \in Ships, BeginCancel(r, s)
          PROVE  \A q \in Reqs : req'[q].pc = "call" => req'[q] = req[q]
      <3>1. PICK pc \in {"unship", "cancelSave", "sfCancel"} : Begin(r, s, pc, rows[s])
        BY <2>3 DEF BeginCancel
      <3> QED
        BY <2>1, <3>1 DEF PCs
    <2>4. ASSUME NEW s \in Ships, NEW kind \in {"print", "plugin", "pdf"}, BeginPrint(r, s, kind)
          PROVE  \A q \in Reqs : req'[q].pc = "call" => req'[q] = req[q]
      BY <2>1, <2>4 DEF BeginPrint, PCs
    <2>5. ASSUME NEW o \in Orders, BeginDelete(r, o)
          PROVE  \A q \in Reqs : req'[q].pc = "call" => req'[q] = req[q]
      <3>1. PICK ids : req' = [req EXCEPT ![r] = [Idle EXCEPT !.pc = "delete", !.ids = ids]]
        BY <2>5 DEF BeginDelete
      <3>2. [Idle EXCEPT !.pc = "delete", !.ids = ids].pc # "call"
        BY <1>0 DEF Request
      <3> QED
        BY <1>2, <3>1, <3>2
    <2> QED
      BY <1>3, <2>2, <2>3, <2>4, <2>5 DEF Call
  <1>4. ASSUME NEW r \in Reqs, NEW pc \in PCs \ {"call"}, Goto(r, pc)
        PROVE  \A q \in Reqs : req'[q].pc = "call" => req'[q] = req[q]
    BY <1>0, <1>4 DEF Goto, Request
  <1>5. ASSUME NEW r \in Reqs, Step(r)
        PROVE  \A q \in Reqs : req'[q].pc = "call" => req'[q] = req[q]
    <2>1. CASE SFCreateOrder(r)
      BY <1>4, <2>1 DEF SFCreateOrder, PCs
    <2>2. CASE SaveCreated(r)
      BY <1>0, <2>2 DEF SaveCreated, Request
    <2>3. CASE SaveFailed(r) \/ DeleteRows(r) \/ ErrorReturn(r) \/ UnshipOrderCore(r)
               \/ BackgroundUpdate(r) \/ SavePrinted(r)
      BY <1>1, <2>3 DEF SaveFailed, DeleteRows, ErrorReturn, UnshipOrderCore, BackgroundUpdate,
         SavePrinted, Return
    <2>4. CASE ShipOrderCore(r)
      BY <1>1, <1>4, <2>4 DEF ShipOrderCore, PCs, Return
    <2>5. CASE BackgroundRead(r)
      <3>1. CASE Return(r)
        BY <1>1, <3>1 DEF Return
      <3>2. CASE req' = [req EXCEPT ![r].pc = "bgPrint", ![r].snap = rows[req[r].ship]]
        BY <1>0, <3>2 DEF Request
      <3> QED
        BY <2>5, <3>1, <3>2 DEF BackgroundRead
    <2>6. CASE ApplyCloudPrint(r)
      <3>1. PICK pc \in {"printSave", "bgUpdate"}, sh \in {markShipmentPrinted(req[r].snap)} :
              req' = [req EXCEPT ![r] = [req[r] EXCEPT !.pc = pc, !.snap = sh]]
        BY <1>0, <2>6 DEF ApplyCloudPrint
      <3>2. [req[r] EXCEPT !.pc = pc, !.snap = sh].pc # "call"
        BY <1>0 DEF Request
      <3> QED
        BY <1>2, <3>1, <3>2
    <2>7. CASE FetchPrintPluginData(r)
      BY <1>0, <2>7 DEF FetchPrintPluginData, Request
    <2>8. CASE FetchLabelPDF(r)
      <3>1. PICK b : req' = [req EXCEPT ![r].pc = "pdfSave",
                               ![r].snap = [markShipmentPrinted(@) EXCEPT !.pdf = b]]
        BY <2>8 DEF FetchLabelPDF
      <3> QED
        BY <1>0, <3>1 DEF Request
    <2>9. CASE SFCancelOrder(r)
      BY <1>1, <1>4, <2>9 DEF SFCancelOrder, PCs, Return
    <2>10. CASE CancelSave(r)
      BY <1>0, <2>10 DEF CancelSave, Request
    <2> QED
      BY <1>5, <2>1, <2>2, <2>3, <2>4, <2>5, <2>6, <2>7, <2>8, <2>9, <2>10 DEF Step
  <1>6. ASSUME NEW s \in Ships, \/ CreateFromOrder(s) \/ ArchiveLabelPDF(s)
                                \/ SyncShippedAtByMailNo(s) \/ UpsertKdzsFromSync(s)
        PROVE  \A q \in Reqs : req'[q].pc = "call" => req'[q] = req[q]
    BY <1>6 DEF CreateFromOrder, ArchiveLabelPDF, SyncShippedAtByMailNo, UpsertKdzsFromSync
  <1>7. CASE Crash
    BY <1>0, <1>7 DEF Crash
  <1> QED
    BY <1>3, <1>5, <1>6, <1>7 DEF Next

\* Only SF's answer to CreateWaybill changes the ledger of issued waybills.
LEMMA OnlySFIssues ==
  ASSUME Next, \A r \in Reqs : ~SFCreateOrder(r)
  PROVE  issued' = issued
  BY DEF Next, Call, Step, BeginCreateWaybill, BeginCancel, BeginPrint, BeginDelete,
     ResolveOrderID, SaveCreated, SaveFailed, ShipOrderCore, BackgroundRead, BackgroundUpdate,
     ApplyCloudPrint, FetchPrintPluginData, FetchLabelPDF, SavePrinted, SFCancelOrder,
     CancelSave, UnshipOrderCore, DeleteRows, ErrorReturn, CreateFromOrder, ArchiveLabelPDF,
     SyncShippedAtByMailNo, UpsertKdzsFromSync, Crash

LEMMA LedgerNext ==
  ASSUME TypeInv, NumbersIssued, LedgerInv, [Next]_vars
  PROVE  LedgerInv'
  <1>1. CASE UNCHANGED vars
    BY <1>1, LedgerStable DEF vars
  <1>2. CASE Next /\ \E r \in Reqs : ResolveOrderID(r)
    BY <1>2, LedgerResolve
  <1>3. CASE Next /\ \A r \in Reqs : ~ResolveOrderID(r)
    <2>1. \A q \in Reqs : req'[q].pc = "call" => req'[q] = req[q]
      BY <1>3, CallsKept
    <2>2. ASSUME NEW r \in Reqs, SFCreateOrder(r) PROVE LedgerInv'
      <3> DEFINE w == Waybill(req[r].ship, req[r].seq)
      <3>1. CASE UNCHANGED issued
        BY <2>1, <3>1, LedgerStable
      <3>2. CASE SFAccepts(w) /\ issued' = issued \cup {w}
        BY <2>1, <2>2, <3>2, LedgerAccept DEF SFCreateOrder
      <3> QED
        BY <2>2, <3>1, <3>2 DEF SFCreateOrder
    <2>3. CASE \A r \in Reqs : ~SFCreateOrder(r)
      BY <1>3, <2>1, <2>3, OnlySFIssues, LedgerStable
    <2> QED
      BY <2>2, <2>3
  <1> QED
    BY <1>1, <1>2, <1>3

LEMMA LedgerCorrect == Spec => [](TypeInv /\ NumbersIssued /\ LedgerInv)
  <1>1. TypeInv /\ NumbersIssued /\ LedgerInv /\ [Next]_vars
          => (TypeInv /\ NumbersIssued /\ LedgerInv)'
    BY TypeNext, NumbersNext, LedgerNext
  <1>2. Init => TypeInv /\ NumbersIssued /\ LedgerInv
    BY TypeInit, NumbersInit, LedgerInit
  <1> QED
    BY <1>1, <1>2, PTL DEF Spec

\* The customer order numbers of an order are tried without gaps.
THEOREM TriedWithoutGaps == Spec => []NoGaps
  BY LedgerCorrect, PTL DEF LedgerInv

\* However often CreateWaybill is called, retried, run twice at once or cut
\* short by a crash, SF gets at most one order for a shipment.
THEOREM OneWaybillPerShipment == Spec => []SingleWaybill
  BY LedgerCorrect, PTL DEF LedgerInv

-----------------------------------------------------------------------------
(* The lifecycle implements WaybillLedger: every step is a step of one     *)
(* shipment's ledger or leaves all of them alone.                          *)

\* The numbers a ledger holds for a shipment: LedgerOf with its sets as arguments.
SeqsOfShip(ledger, s) == {w.seq : w \in {x \in ledger : x.ship = s}}

\* SF accepts an order only for a shipment it has none of.
LEMMA AcceptedIsFirst ==
  ASSUME TypeInv, LedgerInv, NEW r \in Reqs, req[r].pc = "call",
         SFAccepts(Waybill(req[r].ship, req[r].seq)), OneAccount(OrderOf[req[r].ship]),
         NEW x \in issued
  PROVE  x.ship # req[r].ship
  <1> DEFINE s == req[r].ship
             n == req[r].seq
             o == OrderOf[s]
  <1>1. SUFFICES ASSUME x.ship = s PROVE FALSE
    OBVIOUS
  <1>2. n \in Taken(o)
    BY <1>1 DEF LedgerInv, RetryRefused
  <1>3. PICK y \in issued : y.order = o /\ y.seq = n
    BY <1>2 DEF Taken
  <1>4. y = Waybill(y.ship, y.seq) /\ y.ship \in Ships /\ s \in Ships
    BY DEF LedgerInv, LedgerKeys, TypeInv, TypeOK, Waybills, Request
  <1>5. y.carrier = CarrierOf[s]
    BY <1>3, <1>4 DEF Waybill, OneAccount
  <1> QED
    BY <1>3, <1>5 DEF SFAccepts, Waybill

LEMMA OnlySFVoids ==
  ASSUME Next, \A r \in Reqs : ~SFCancelOrder(r)
  PROVE  voided' = voided
  BY DEF Next, Call, Step, BeginCreateWaybill, BeginCancel, BeginPrint, BeginDelete,
     ResolveOrderID, SFCreateOrder, SaveCreated, SaveFailed, ShipOrderCore, BackgroundRead,
     BackgroundUpdate, ApplyCloudPrint, FetchPrintPluginData, FetchLabelPDF, SavePrinted,
     CancelSave, UnshipOrderCore, DeleteRows, ErrorReturn, CreateFromOrder, ArchiveLabelPDF,
     SyncShippedAtByMailNo, UpsertKdzsFromSync, Crash

\* A shipment's orders change only by SF's first acceptance and its cancellation.
LEMMA LedgerStep ==
  ASSUME TypeInv, NumbersIssued, LedgerInv, [Next]_vars
  PROVE  \/ \A s \in LedgerShips : /\ SeqsOfShip(issued', s) = SeqsOfShip(issued, s)
                                   /\ SeqsOfShip(voided', s) = SeqsOfShip(voided, s)
         \/ \E s \in LedgerShips, n \in Nat :
              /\ SeqsOfShip(issued, s) = {} /\ SeqsOfShip(issued', s) = {n}
              /\ \A t \in LedgerShips \ {s} : SeqsOfShip(issued', t) = SeqsOfShip(issued, t)
              /\ voided' = voided
         \/ \E s \in LedgerShips :
              /\ SeqsOfShip(issued, s) # {} /\ SeqsOfShip(voided, s) = {}
              /\ SeqsOfShip(voided', s) = SeqsOfShip(issued, s)
              /\ \A t \in LedgerShips \ {s} : SeqsOfShip(voided', t) = SeqsOfShip(voided, t)
              /\ issued' = issued
  <1>0. voided \subseteq issued
    BY DEF NumbersIssued
  <1> DEFINE Same == \A s \in LedgerShips : /\ SeqsOfShip(issued', s) = SeqsOfShip(issued, s)
                                            /\ SeqsOfShip(voided', s) = SeqsOfShip(voided, s)
  <1>1. CASE issued' = issued /\ voided' = voided
    BY <1>1
  <1>2. ASSUME NEW r \in Reqs, SFCreateOrder(r), issued' # issued
        PROVE  \/ Same
               \/ \E s \in LedgerShips, n \in Nat :
                    /\ SeqsOfShip(issued, s) = {} /\ SeqsOfShip(issued', s) = {n}
                    /\ \A t \in LedgerShips \ {s} : SeqsOfShip(issued', t) = SeqsOfShip(issued, t)
                    /\ voided' = voided
    <2> DEFINE s == req[r].ship
               w == Waybill(s, req[r].seq)
    <2>1. req[r].pc = "call" /\ SFAccepts(w) /\ issued' = issued \cup {w} /\ voided' = voided
      BY <1>2 DEF SFCreateOrder
    <2>2. w.ship = s /\ s \in Ships /\ w.seq \in Nat
      BY DEF Waybill, TypeInv, TypeOK, Request
    <2>3. \A t : t # s => SeqsOfShip(issued', t) = SeqsOfShip(issued, t)
      BY <2>1, <2>2 DEF SeqsOfShip
    <2>4. CASE s \in LedgerShips
      <3>1. \A x \in issued : x.ship # s
        BY <2>1, <2>4, AcceptedIsFirst DEF LedgerShips
      <3>2. SeqsOfShip(issued, s) = {} /\ SeqsOfShip(issued', s) = {w.seq}
        BY <2>1, <2>2, <3>1 DEF SeqsOfShip
      <3> QED
        BY <2>1, <2>2, <2>3, <2>4, <3>2
    <2> QED
      BY <2>1, <2>3, <2>4
  <1>3. ASSUME NEW r \in Reqs, SFCancelOrder(r)
        PROVE  \/ Same
               \/ \E s \in LedgerShips :
                    /\ SeqsOfShip(issued, s) # {} /\ SeqsOfShip(voided, s) = {}
                    /\ SeqsOfShip(voided', s) = SeqsOfShip(issued, s)
                    /\ \A t \in LedgerShips \ {s} : SeqsOfShip(voided', t) = SeqsOfShip(voided, t)
                    /\ issued' = issued
    <2> DEFINE s == req[r].ship
               w == Waybill(s, req[r].snap.wb)
    <2>1. req[r].pc = "sfCancel" /\ voided' \in {voided, voided \cup {w}} /\ issued' = issued
      BY <1>3 DEF SFCancelOrder
    <2>2. w.ship = s /\ w \in issued /\ w.order = OrderOf[s]
      BY <2>1 DEF Waybill, TypeInv, SlotsNumbered, NumbersIssued, NumberOf
    <2> HIDE DEF w, s
    <2>3. CASE voided' = voided
      BY <2>1, <2>3
    <2>4. CASE voided' = voided \cup {w} /\ w \notin voided
      <3>1. \A t : t # s => SeqsOfShip(voided', t) = SeqsOfShip(voided, t)
        BY <2>1, <2>2, <2>4 DEF SeqsOfShip
      <3>2. CASE s \in LedgerShips
        <4>1. \A x \in issued : x.ship = s => x = w
          BY <2>2, <3>2 DEF LedgerInv, SingleWaybill, LedgerShips
        <4>2. {x \in issued : x.ship = s} = {w} /\ {x \in voided : x.ship = s} = {}
          BY <1>0, <2>2, <2>4, <4>1
        <4>3. {x \in voided' : x.ship = s} = {w}
          BY <2>2, <2>4, <4>2
        <4>4. SeqsOfShip(issued, s) = {w.seq} /\ SeqsOfShip(voided, s) = {} /\ SeqsOfShip(voided', s) = {w.seq}
          BY <4>2, <4>3 DEF SeqsOfShip
        <4> QED
          BY <2>1, <3>1, <3>2, <4>4
      <3> QED
        BY <2>1, <3>1, <3>2
    <2> QED
      BY <2>1, <2>3, <2>4
  <1>4. CASE UNCHANGED vars
    BY <1>1, <1>4 DEF vars
  <1> HIDE DEF Same
  <1>5. CASE Next
    <2>1. CASE \A r \in Reqs : ~SFCreateOrder(r) /\ ~SFCancelOrder(r)
      BY <1>1, <1>5, <2>1, OnlySFIssues, OnlySFVoids
    <2>2. ASSUME NEW r \in Reqs, SFCreateOrder(r), issued' = issued
          PROVE  voided' = voided
      BY <2>2 DEF SFCreateOrder
    <2> QED
      BY <1>1, <1>2, <1>3, <2>1, <2>2 DEF Same
  <1> QED
    BY <1>4, <1>5

LEMMA LedgerMap ==
  ASSUME TypeInv, NumbersIssued, LedgerInv, [Next]_vars
  PROVE  [\E s \in LedgerShips : Ledger!Order(s) \/ Ledger!Void(s)]_[s \in LedgerShips |-> LedgerOf(s)]
  <1> DEFINE L == [s \in LedgerShips |-> [accepted |-> SeqsOfShip(issued, s),
                                          cancelled |-> SeqsOfShip(voided, s)]]
             M == [s \in LedgerShips |-> [accepted |-> SeqsOfShip(issued', s),
                                          cancelled |-> SeqsOfShip(voided', s)]]
  <1>1. [s \in LedgerShips |-> LedgerOf(s)] = L
    BY DEF LedgerOf, SeqsOfShip
  <1>2. [s \in LedgerShips |-> LedgerOf(s)]' = M
    BY DEF LedgerOf, SeqsOfShip, LedgerShips, OneAccount
  <1>3. \/ M = L
        \/ \E s \in LedgerShips :
             /\ L[s].accepted = {}
             /\ \E n \in M[s].accepted : M = [L EXCEPT ![s].accepted = {n}]
        \/ \E s \in LedgerShips :
             /\ L[s].accepted # {} /\ L[s].cancelled = {}
             /\ M = [L EXCEPT ![s].cancelled = L[s].accepted]
    <2>1. CASE \A s \in LedgerShips : /\ SeqsOfShip(issued', s) = SeqsOfShip(issued, s)
                                      /\ SeqsOfShip(voided', s) = SeqsOfShip(voided, s)
      BY <2>1
    <2>2. ASSUME NEW s \in LedgerShips, NEW n \in Nat,
                 SeqsOfShip(issued, s) = {}, SeqsOfShip(issued', s) = {n},
                 \A t \in LedgerShips \ {s} : SeqsOfShip(issued', t) = SeqsOfShip(issued, t),
                 voided' = voided
          PROVE  /\ L[s].accepted = {}
                 /\ \E k \in M[s].accepted : M = [L EXCEPT ![s].accepted = {k}]
      <3>1. M[s].accepted = {n}
        BY <2>2
      <3>2. M = [L EXCEPT ![s].accepted = {n}]
        BY <2>2
      <3> QED
        BY <2>2, <3>1, <3>2
    <2>3. ASSUME NEW s \in LedgerShips,
                 SeqsOfShip(issued, s) # {}, SeqsOfShip(voided, s) = {},
                 SeqsOfShip(voided', s) = SeqsOfShip(issued, s),
                 \A t \in LedgerShips \ {s} : SeqsOfShip(voided', t) = SeqsOfShip(voided, t),
                 issued' = issued
          PROVE  /\ L[s].accepted # {} /\ L[s].cancelled = {}
                 /\ M = [L EXCEPT ![s].cancelled = L[s].accepted]
      BY <2>3
    <2> HIDE DEF L, M
    <2> QED
      BY <2>1, <2>2, <2>3, LedgerStep
  <1> HIDE DEF L, M
  <1> QED
    BY <1>1, <1>2, <1>3 DEF Ledger!Order, Ledger!Void

\* Each shipment is ordered from SF at most once and stays cancelled once it was
\* cancelled there: the lifecycle implements WaybillLedger.
THEOREM ImplementsLedger == Spec => PaidAtMostOnce
  <1>1. Init => Ledger!LedgerInit
    BY DEF Init, Ledger!LedgerInit, LedgerOf
  <1>2. TypeInv /\ NumbersIssued /\ LedgerInv /\ [Next]_vars
          => [\E s \in LedgerShips : Ledger!Order(s) \/ Ledger!Void(s)]_[s \in LedgerShips |-> LedgerOf(s)]
    BY LedgerMap
  <1> QED
    BY <1>1, <1>2, LedgerCorrect, PTL DEF Spec, PaidAtMostOnce, Ledger!LedgerSpec
=============================================================================
