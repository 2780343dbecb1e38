-------------------------- MODULE ShipmentRows_proofs --------------------------
(***************************************************************************)
(* What the rows of table shipments say of themselves and of SF, whatever  *)
(* stale copies of them handlers write back: number and shipping time come *)
(* together, and what is called cancelled is cancelled at SF.  And what    *)
(* SF, OrderCore and the table agree on while users wait for each other on *)
(* a shipment and every answer arrives and is stored.                      *)
(***************************************************************************)
EXTENDS ShipmentLifecycle_proofs

\* A row, in the table or in a handler's hands, of shipment s, when SF has
\* cancelled the orders V.
RowOk(V, s, row) ==
  /\ row.status # "absent" => (HasNumber(s, row) <=> row.shippedAt # "none")
  /\ row.status = "draft" => row.wb = 0
  /\ (OneAccount(OrderOf[s]) /\ row.status = "cancelled" /\ row.wb # 0)
       => Waybill(s, row.wb) \in V

\* A handler holds such a row; the one about to save a cancellation has it
\* from SF.
SlotOk(V, q) ==
  q.pc \notin {"idle", "delete"} =>
    /\ q.snap.status # "absent"
    /\ RowOk(V, q.ship, q.snap)
    /\ (q.pc = "cancelSave" /\ OneAccount(OrderOf[q.ship]) /\ q.snap.wb # 0)
         => Waybill(q.ship, q.snap.wb) \in V

RowInv ==
  /\ \A s \in Ships : RowOk(voided, s, rows[s])
  /\ \A r \in Reqs : SlotOk(voided, req[r])

-----------------------------------------------------------------------------
(* What the code makes of a row that is right.                             *)

LEMMA NoRowOk ==
  ASSUME NEW V, NEW s \in Ships
  PROVE  RowOk(V, s, NoRow)
  BY DEF RowOk, NoRow

LEMMA SaveCreatedOk ==
  ASSUME NEW V, NEW s \in Ships, NEW row \in Row, NEW n \in Nat, n # 0
  PROVE  LET new == markShipmentShipped([row EXCEPT !.status = "created", !.wb = n]) IN
         /\ new \in Row /\ new.status # "absent" /\ new.wb = n
         /\ RowOk(V, s, new)
  BY DEF RowOk, markShipmentShipped, HasNumber, Row, Statuses

LEMMA StatusOk ==
  ASSUME NEW V, NEW s \in Ships, NEW row \in Row, RowOk(V, s, row), row.status # "absent",
         NEW st \in {"failed", "cancelled"},
         (st = "cancelled" /\ OneAccount(OrderOf[s]) /\ row.wb # 0) => Waybill(s, row.wb) \in V
  PROVE  LET new == [row EXCEPT !.status = st] IN
         new \in Row /\ new.status # "absent" /\ new.wb = row.wb /\ RowOk(V, s, new)
  BY DEF RowOk, HasNumber, Row, Statuses

LEMMA PrintedOk ==
  ASSUME NEW V, NEW s \in Ships, NEW row \in Row, RowOk(V, s, row), row.status # "absent",
         NEW b \in BOOLEAN
  PROVE  LET new == markShipmentPrinted(row)
             stored == [new EXCEPT !.pdf = b] IN
         /\ new \in Row /\ new.status # "absent" /\ RowOk(V, s, new) /\ new.wb = row.wb
         /\ stored \in Row /\ stored.status # "absent" /\ RowOk(V, s, stored)
  BY DEF RowOk, HasNumber, Row, Statuses, markShipmentPrinted

\* SF never takes a cancellation back.
LEMMA MoreVoided ==
  ASSUME NEW V, NEW W, V \subseteq W
  PROVE  /\ \A s, row : RowOk(V, s, row) => RowOk(W, s, row)
         /\ \A q : SlotOk(V, q) => SlotOk(W, q)
  BY DEF RowOk, SlotOk

-----------------------------------------------------------------------------
(* One slot changes, and rows stay right.                                  *)

LEMMA RowSlot ==
  ASSUME TypeInv, RowInv, NEW r \in Reqs, NEW x, req' = [req EXCEPT ![r] = x],
         SlotOk(voided', x), voided \subseteq voided',
         \A s \in Ships : RowOk(voided', s, rows'[s])
  PROVE  RowInv'
  <1>1. ASSUME NEW q \in Reqs PROVE SlotOk(voided', req'[q])
    BY MoreVoided DEF RowInv, TypeInv, TypeOK
  <1> QED
    BY <1>1 DEF RowInv

LEMMA RowReturn ==
  ASSUME TypeInv, RowInv, NEW r \in Reqs, Return(r), voided \subseteq voided',
         \A s \in Ships : RowOk(voided', s, rows'[s])
  PROVE  RowInv'
  <1>1. SlotOk(voided', Idle)
    BY DEF SlotOk, Idle
  <1> QED
    BY <1>1, RowSlot DEF Return

\* What is true of the rows as they are, and of the rows with one replaced.
LEMMA RowsStay ==
  ASSUME RowInv, UNCHANGED rows, voided \subseteq voided'
  PROVE  \A s \in Ships : RowOk(voided', s, rows'[s])
  BY MoreVoided DEF RowInv

LEMMA RowSaved ==
  ASSUME TypeInv, RowInv, NEW s \in Ships, NEW row, rows' = [rows EXCEPT ![s] = row],
         RowOk(voided, s, row), UNCHANGED voided
  PROVE  \A t \in Ships : RowOk(voided', t, rows'[t])
  BY DEF RowInv, TypeInv, TypeOK

-----------------------------------------------------------------------------
LEMMA RowInit == Init => RowInv
  BY NoRowOk DEF Init, RowInv, SlotOk, Idle

LEMMA RowCall ==
  ASSUME TypeInv, RowInv, NEW r \in Reqs, Call(r)
  PROVE  RowInv'
  <1>0. rows \in [Ships -> Row] /\ \A s \in Ships : RowOk(voided, s, rows[s])
    BY DEF TypeInv, TypeOK, RowInv
  <1>1. ASSUME NEW s \in Ships, NEW pc, Begin(r, s, pc, rows[s]), rows[s].status # "absent",
               (pc = "cancelSave" /\ OneAccount(OrderOf[s])) =>
                  (rows[s].wb = 0 \/ Waybill(s, rows[s].wb) \in voided),
               UNCHANGED <<rows, voided>>
        PROVE  RowInv'
    <2> DEFINE x == [pc |-> pc, ship |-> s, snap |-> rows[s], seq |-> 0, ids |-> {}]
    <2>1. SlotOk(voided, x)
      BY <1>0, <1>1 DEF SlotOk
    <2>2. req' = [req EXCEPT ![r] = x]
      BY <1>1 DEF Begin
    <2> HIDE DEF x
    <2> QED
      BY <1>1, <2>1, <2>2, RowSlot, RowsStay
  <1>2. ASSUME NEW s \in Ships, BeginCreateWaybill(r, s) PROVE RowInv'
    BY <1>1, <1>2 DEF BeginCreateWaybill
  <1>3. ASSUME NEW s \in Ships, BeginCancel(r, s) PROVE RowInv'
    <2>1. PICK pc : /\ Begin(r, s, pc, rows[s])
                    /\ pc = "cancelSave" => (rows[s].status = "draft" \/ rows[s].wb = 0)
      BY <1>3 DEF BeginCancel
    <2>2. rows[s].status # "absent" /\ UNCHANGED <<rows, voided>>
      BY <1>3 DEF BeginCancel, Exists
    <2>3. pc = "cancelSave" => rows[s].wb = 0
      BY <1>0, <2>1 DEF RowOk
    <2> QED
      BY <1>1, <2>1, <2>2, <2>3
  <1>4. ASSUME NEW s \in Ships, NEW kind \in {"print", "plugin", "pdf"}, BeginPrint(r, s, kind)
        PROVE  RowInv'
    BY <1>1, <1>4 DEF BeginPrint, Exists
  <1>5. ASSUME NEW o \in Orders, BeginDelete(r, o) PROVE RowInv'
    <2>1. PICK ids : req' = [req EXCEPT ![r] = [Idle EXCEPT !.pc = "delete", !.ids = ids]]
      BY <1>5 DEF BeginDelete
    <2> DEFINE x == [Idle EXCEPT !.pc = "delete", !.ids = ids]
    <2>2. SlotOk(voided, x)
      BY DEF SlotOk, Idle
    <2>3. req' = [req EXCEPT ![r] = x] /\ UNCHANGED <<rows, voided>>
      BY <1>5, <2>1 DEF BeginDelete
    <2> HIDE DEF x
    <2> QED
      BY <2>2, <2>3, RowSlot, RowsStay
  <1> QED
    BY <1>2, <1>3, <1>4, <1>5 DEF Call

LEMMA RowStep ==
  ASSUME TypeInv, NumbersIssued, LedgerInv, RowInv, NEW r \in Reqs, Step(r)
  PROVE  RowInv'
  <1> DEFINE s == req[r].ship
             sh == req[r].snap
             q == req[r]
  <1>0. /\ q \in Request /\ s \in Ships /\ sh \in Row /\ q.seq \in Nat
        /\ q.ship = s /\ q.snap = sh
    BY DEF TypeInv, TypeOK, Request
  <1>a. /\ rows \in [Ships -> Row] /\ req \in [Reqs -> Request]
        /\ \A t \in Ships : RowOk(voided, t, rows[t])
        /\ SlotOk(voided, q)
    BY DEF TypeInv, TypeOK, RowInv
  <1>b. /\ q.pc \in {"call", "saveCreated"} => q.seq # 0
        /\ q.pc \in {"shipCore", "sfCancel", "bgUpdate"} => sh.wb # 0
    BY DEF TypeInv, SlotsNumbered
  <1>c. q.pc \notin {"idle", "delete"} => sh.status # "absent" /\ RowOk(voided, s, sh)
    BY <1>0, <1>a DEF SlotOk
  <1>d. ASSUME NEW x \in Request, x.ship = s, x.pc # "cancelSave", x.snap.status # "absent",
               RowOk(voided, s, x.snap), req' = [req EXCEPT ![r] = x],
               \A t \in Ships : RowOk(voided', t, rows'[t]), UNCHANGED voided
        PROVE  RowInv'
    <2>1. SlotOk(voided', x)
      BY <1>d DEF SlotOk
    <2> QED
      BY <1>d, <2>1, RowSlot
  <1> HIDE DEF s, sh, q
  <1>1. CASE ResolveOrderID(r)
    <2>1. PICK n : req' = [req EXCEPT ![r].pc = "call", ![r].seq = n]
      BY <1>1 DEF ResolveOrderID
    <2>2. req' \in [Reqs -> Request]
      BY <1>1, TypeStep DEF TypeInv, TypeOK
    <2> DEFINE x == [q EXCEPT !.pc = "call", !.seq = n]
    <2>3. req' = [req EXCEPT ![r] = x]
      BY <2>1, <1>a DEF q
    <2>4. x \in Request
      BY <2>2, <2>3, <1>a
    <2>5. x.pc = "call" /\ x.ship = s /\ x.snap = sh
      BY <1>0 DEF Request
    <2>6. q.pc = "number" /\ UNCHANGED <<rows, voided>>
      BY <1>1 DEF ResolveOrderID, q
    <2> HIDE DEF x
    <2> QED
      BY <1>c, <1>d, <2>3, <2>4, <2>5, <2>6, RowsStay
  <1>2. CASE SFCreateOrder(r)
    <2>1. PICK pc \in {"saveCreated", "saveFailed"} : Goto(r, pc)
      BY <1>2 DEF SFCreateOrder
    <2> DEFINE x == [q EXCEPT !.pc = pc]
    <2>2. req' = [req EXCEPT ![r] = x]
      BY <2>1, <1>a DEF q, Goto
    <2>3. x \in Request /\ x.pc = pc /\ x.ship = s /\ x.snap = sh
      BY <2>1, <1>0 DEF Request, PCs
    <2>4. q.pc = "call" /\ UNCHANGED <<rows, voided>>
      BY <1>2 DEF SFCreateOrder, q
    <2> HIDE DEF x
    <2> QED
      BY <1>c, <1>d, <2>1, <2>2, <2>3, <2>4, RowsStay
  <1>3. CASE SaveCreated(r)
    <2> DEFINE base == [sh EXCEPT !.status = "created", !.wb = q.seq]
               row == markShipmentShipped(base)
               pc == IF OrderOf[s] \in RefOnly THEN "bgRead" ELSE "shipCore"
               x == [q EXCEPT !.pc = pc, !.snap = row]
    <2>1. /\ q.pc = "saveCreated" /\ rows' = [rows EXCEPT ![s] = row]
          /\ req' = [req EXCEPT ![r] = x] /\ UNCHANGED voided
      BY <1>3, <1>a DEF SaveCreated, Save, q, s, sh
    <2>2. row \in Row /\ row.status # "absent" /\ RowOk(voided, s, row)
      BY <1>0, <1>b, <2>1, SaveCreatedOk
    <2> HIDE DEF row
    <2>3. pc \in PCs /\ pc # "cancelSave"
      BY DEF PCs
    <2> HIDE DEF pc
    <2>4. x \in Request /\ x.snap = row /\ x.pc = pc /\ x.ship = s
      BY <2>2, <2>3, <1>0 DEF Request
    <2> HIDE DEF x
    <2>5. \A t \in Ships : RowOk(voided', t, rows'[t])
      BY <1>0, <2>1, <2>2, RowSaved
    <2> QED
      BY <1>d, <2>1, <2>2, <2>3, <2>4, <2>5
  <1>4. CASE SaveFailed(r)
    <2> DEFINE row == [sh EXCEPT !.status = "failed"]
    <2>1. q.pc = "saveFailed" /\ rows' = [rows EXCEPT ![s] = row] /\ Return(r) /\ UNCHANGED voided
      BY <1>4 DEF SaveFailed, Save, s, sh, q
    <2>2. RowOk(voided, s, row)
      BY <1>0, <1>c, <2>1, StatusOk
    <2> HIDE DEF row
    <2>3. \A t \in Ships : RowOk(voided', t, rows'[t])
      BY <1>0, <2>1, <2>2, RowSaved
    <2> QED
      BY <2>1, <2>3, RowReturn
  <1>5. CASE ShipOrderCore(r)
    <2>1. q.pc = "shipCore" /\ UNCHANGED <<rows, voided>>
      BY <1>5 DEF ShipOrderCore, q
    <2>2. CASE Return(r)
      BY <2>1, <2>2, RowReturn, RowsStay
    <2>3. CASE Goto(r, "bgRead")
      <3> DEFINE x == [q EXCEPT !.pc = "bgRead"]
      <3>1. req' = [req EXCEPT ![r] = x]
        BY <2>3, <1>a DEF q, Goto
      <3>2. x \in Request /\ x.pc = "bgRead" /\ x.ship = s /\ x.snap = sh
        BY <1>0 DEF Request, PCs
      <3> HIDE DEF x
      <3> QED
        BY <1>c, <1>d, <2>1, <3>1, <3>2, RowsStay
    <2> QED
      BY <1>5, <2>2, <2>3 DEF ShipOrderCore
  <1>6. CASE BackgroundRead(r)
    <2>1. UNCHANGED <<rows, voided>>
      BY <1>6 DEF BackgroundRead
    <2>2. CASE Return(r)
      BY <2>1, <2>2, RowReturn, RowsStay
    <2>3. CASE /\ Exists(s)
               /\ req' = [req EXCEPT ![r].pc = "bgPrint", ![r].snap = rows[s]]
      <3> DEFINE x == [q EXCEPT !.pc = "bgPrint", !.snap = rows[s]]
      <3>1. req' = [req EXCEPT ![r] = x]
        BY <2>3, <1>a DEF q
      <3>2. x \in Request /\ x.pc = "bgPrint" /\ x.ship = s /\ x.snap = rows[s]
        BY <1>0, <1>a DEF Request, PCs
      <3>3. rows[s].status # "absent" /\ RowOk(voided, s, rows[s])
        BY <1>0, <1>a, <2>3 DEF Exists
      <3> HIDE DEF x
      <3> QED
        BY <1>d, <2>1, <3>1, <3>2, <3>3, RowsStay
    <2> QED
      BY <1>6, <2>2, <2>3 DEF BackgroundRead, s
  <1>7. CASE BackgroundUpdate(r)
    <2>1. q.pc = "bgUpdate" /\ Return(r) /\ UNCHANGED voided
      BY <1>7 DEF BackgroundUpdate, q
    <2> DEFINE row == [rows[s] EXCEPT !.status = sh.status, !.printed = sh.printed, !.pdf = sh.pdf]
    <2>2. UNCHANGED rows \/ (Exists(s) /\ rows' = [rows EXCEPT ![s] = row])
      BY <1>7, <1>0, <1>a DEF BackgroundUpdate, s, sh
    <2>3. CASE UNCHANGED rows
      BY <2>1, <2>3, RowReturn, RowsStay
    <2>4. CASE Exists(s) /\ rows' = [rows EXCEPT ![s] = row]
      <3>1. /\ rows[s] \in Row /\ rows[s].status # "absent" /\ RowOk(voided, s, rows[s])
            /\ sh.wb # 0 /\ sh.status # "absent" /\ RowOk(voided, s, sh)
        BY <1>0, <1>a, <1>b, <1>c, <2>1, <2>4 DEF Exists
      <3>2. row.wb = rows[s].wb /\ row.shippedAt = rows[s].shippedAt /\ row.status = sh.status
        BY <3>1 DEF Row
      <3>3. (rows[s].wb # 0 /\ OneAccount(OrderOf[s])) => rows[s].wb = sh.wb
        <4> SUFFICES ASSUME rows[s].wb # 0, OneAccount(OrderOf[s]) PROVE rows[s].wb = sh.wb
          OBVIOUS
        <4> DEFINE w == Waybill(s, rows[s].wb)
                   v == Waybill(s, sh.wb)
        <4>1. w \in issued /\ v \in issued
          BY <1>0, <3>1 DEF NumbersIssued, NumberOf, q, s, sh
        <4>2. w.ship = v.ship /\ w.order = OrderOf[s] /\ w.seq = rows[s].wb /\ v.seq = sh.wb
          BY DEF Waybill
        <4> HIDE DEF w, v
        <4>3. w = v
          BY <4>1, <4>2 DEF LedgerInv, SingleWaybill
        <4> QED
          BY <4>2, <4>3
      <3> HIDE DEF row
      <3>4. RowOk(voided, s, row)
        BY <3>1, <3>2, <3>3 DEF RowOk, HasNumber
      <3>5. \A t \in Ships : RowOk(voided', t, rows'[t])
        BY <1>0, <2>1, <2>4, <3>4, RowSaved
      <3> QED
        BY <2>1, <3>5, RowReturn
    <2> QED
      BY <2>2, <2>3, <2>4
  <1>8. CASE ApplyCloudPrint(r)
    <2> DEFINE new == markShipmentPrinted(sh)
               x == [q EXCEPT !.pc = IF q.pc = "print" THEN "printSave" ELSE "bgUpdate",
                              !.snap = new]
    <2>1. req' = [req EXCEPT ![r] = x]
      BY <1>8, <1>a DEF ApplyCloudPrint, q, sh
    <2>2. q.pc \in {"bgPrint", "print"} /\ UNCHANGED <<rows, voided>>
      BY <1>8 DEF ApplyCloudPrint, q
    <2>3. new \in Row /\ new.status # "absent" /\ RowOk(voided, s, new)
      BY <1>0, <1>c, <2>2, PrintedOk
    <2> HIDE DEF new
    <2>4. x \in Request /\ x.ship = s /\ x.snap = new /\ x.pc # "cancelSave"
      BY <1>0, <2>3 DEF Request, PCs
    <2> HIDE DEF x
    <2> QED
      BY <1>d, <2>1, <2>2, <2>3, <2>4, RowsStay
  <1>9. CASE FetchPrintPluginData(r)
    <2> DEFINE new == markShipmentPrinted(sh)
               x == [q EXCEPT !.pc = "pluginSave", !.snap = new]
    <2>1. req' = [req EXCEPT ![r] = x]
      BY <1>9, <1>a DEF FetchPrintPluginData, q, sh
    <2>2. q.pc = "plugin" /\ UNCHANGED <<rows, voided>>
      BY <1>9 DEF FetchPrintPluginData, q
    <2>3. new \in Row /\ new.status # "absent" /\ RowOk(voided, s, new)
      BY <1>0, <1>c, <2>2, PrintedOk
    <2> HIDE DEF new
    <2>4. x \in Request /\ x.ship = s /\ x.snap = new /\ x.pc # "cancelSave"
      BY <1>0, <2>3 DEF Request, PCs
    <2> HIDE DEF x
    <2> QED
      BY <1>d, <2>1, <2>2, <2>3, <2>4, RowsStay
  <1>10. CASE FetchLabelPDF(r)
    <2>1. PICK b \in {TRUE, req[r].snap.pdf} :
            req' = [req EXCEPT ![r].pc = "pdfSave",
                               ![r].snap = [markShipmentPrinted(@) EXCEPT !.pdf = b]]
      BY <1>10 DEF FetchLabelPDF
    <2> DEFINE new == [markShipmentPrinted(sh) EXCEPT !.pdf = b]
               x == [q EXCEPT !.pc = "pdfSave", !.snap = new]
    <2>2. req' = [req EXCEPT ![r] = x]
      BY <2>1, <1>a DEF q, sh
    <2>3. q.pc = "pdf" /\ UNCHANGED <<rows, voided>>
      BY <1>10 DEF FetchLabelPDF, q
    <2>4. b \in BOOLEAN
      BY <2>1, <1>0 DEF Row, sh
    <2>5. new \in Row /\ new.status # "absent" /\ RowOk(voided, s, new)
      BY <1>0, <1>c, <2>3, <2>4, PrintedOk
    <2> HIDE DEF new
    <2>6. x \in Request /\ x.ship = s /\ x.snap = new /\ x.pc # "cancelSave"
      BY <1>0, <2>5 DEF Request, PCs
    <2> HIDE DEF x
    <2> QED
      BY <1>d, <2>2, <2>3, <2>5, <2>6, RowsStay
  <1>11. CASE SavePrinted(r)
    <2>1. q.pc \notin {"idle", "delete"} /\ Return(r) /\ UNCHANGED voided
      BY <1>11 DEF SavePrinted, q
    <2>2. CASE UNCHANGED rows
      BY <2>1, <2>2, RowReturn, RowsStay
    <2>3. CASE rows' = [rows EXCEPT ![s] = sh]
      <3>1. \A t \in Ships : RowOk(voided', t, rows'[t])
        BY <1>0, <1>c, <2>1, <2>3, RowSaved
      <3> QED
        BY <2>1, <3>1, RowReturn
    <2> QED
      BY <1>11, <2>2, <2>3 DEF SavePrinted, Save, s, sh
  <1>12. CASE SFCancelOrder(r)
    <2>1. q.pc = "sfCancel" /\ voided \subseteq voided' /\ UNCHANGED rows
      BY <1>12 DEF SFCancelOrder, q
    <2>2. \A t \in Ships : RowOk(voided', t, rows'[t])
      BY <2>1, RowsStay
    <2>3. CASE Return(r)
      BY <2>1, <2>2, <2>3, RowReturn
    <2>4. CASE voided' = voided \cup {Waybill(s, sh.wb)} /\ Goto(r, "cancelSave")
      <3> DEFINE x == [q EXCEPT !.pc = "cancelSave"]
      <3>1. req' = [req EXCEPT ![r] = x]
        BY <2>4, <1>a DEF q, Goto
      <3>2. x.pc = "cancelSave" /\ x.ship = s /\ x.snap = sh
        BY <1>0 DEF Request
      <3> HIDE DEF x
      <3>3. sh.status # "absent" /\ RowOk(voided', s, sh) /\ Waybill(s, sh.wb) \in voided'
        BY <1>c, <2>1, <2>4, MoreVoided
      <3>4. SlotOk(voided', x)
        BY <3>2, <3>3 DEF SlotOk
      <3> QED
        BY <2>1, <2>2, <3>1, <3>4, RowSlot
    <2> QED
      BY <1>12, <2>3, <2>4 DEF SFCancelOrder, s, sh
  <1>13. CASE CancelSave(r)
    <2> DEFINE row == [sh EXCEPT !.status = "cancelled"]
               x == [q EXCEPT !.pc = "unship", !.snap = row]
    <2>1. /\ q.pc = "cancelSave" /\ rows' = [rows EXCEPT ![s] = row]
          /\ req' = [req EXCEPT ![r] = x] /\ UNCHANGED voided
      BY <1>13, <1>a DEF CancelSave, Save, q, s, sh
    <2>2. (OneAccount(OrderOf[s]) /\ sh.wb # 0) => Waybill(s, sh.wb) \in voided
      BY <1>0, <1>a, <2>1 DEF SlotOk
    <2>3. row \in Row /\ row.status # "absent" /\ RowOk(voided, s, row)
      <3>1. sh.status # "absent" /\ RowOk(voided, s, sh)
        BY <1>c, <2>1
      <3> QED
        BY <1>0, <2>2, <3>1 DEF RowOk, HasNumber, Row, Statuses
    <2> HIDE DEF row
    <2>4. x \in Request /\ x.ship = s /\ x.snap = row /\ x.pc # "cancelSave"
      BY <1>0, <2>3 DEF Request, PCs
    <2> HIDE DEF x
    <2>5. \A t \in Ships : RowOk(voided', t, rows'[t])
      BY <1>0, <2>1, <2>3, RowSaved
    <2> QED
      BY <1>d, <2>1, <2>3, <2>4, <2>5
  <1>14. CASE UnshipOrderCore(r)
    BY <1>14, RowReturn, RowsStay DEF UnshipOrderCore
  <1>15. CASE DeleteRows(r)
    <2>1. \A t \in Ships : rows'[t] \in {NoRow, rows[t]}
      BY <1>15 DEF DeleteRows
    <2> QED
      BY <1>15, <1>a, <2>1, NoRowOk, RowReturn DEF DeleteRows
  <1>16. CASE ErrorReturn(r)
    BY <1>16, RowReturn, RowsStay DEF ErrorReturn
  <1> QED
    BY <1>1, <1>2, <1>3, <1>4, <1>5, <1>6, <1>7, <1>8, <1>9, <1>10, <1>11, <1>12,
       <1>13, <1>14, <1>15, <1>16 DEF Step
LEMMA RowOthers ==
  ASSUME TypeInv, RowInv,
         \/ \E s \in Ships : CreateFromOrder(s) \/ ArchiveLabelPDF(s)
                             \/ SyncShippedAtByMailNo(s) \/ UpsertKdzsFromSync(s)
         \/ Crash
  PROVE  RowInv'
  <1>0. /\ rows \in [Ships -> Row] /\ req \in [Reqs -> Request]
        /\ \A s \in Ships : RowOk(voided, s, rows[s])
    BY DEF TypeInv, TypeOK, RowInv
  <1>1. ASSUME UNCHANGED <<voided, req>>, \A s \in Ships : RowOk(voided', s, rows'[s])
        PROVE  RowInv'
    BY <1>1 DEF RowInv
  <1>2. ASSUME NEW s \in Ships, NEW row, rows' = [rows EXCEPT ![s] = row],
               RowOk(voided, s, row), UNCHANGED <<voided, req>>
        PROVE  RowInv'
    BY <1>1, <1>2, RowSaved
  <1>3. ASSUME NEW s \in Ships, CreateFromOrder(s) PROVE RowInv'
    <2>1. RowOk(voided, s, [NoRow EXCEPT !.status = "draft"])
      BY <1>3 DEF CreateFromOrder, RowOk, NoRow, HasNumber
    <2> QED
      BY <1>2, <1>3, <2>1 DEF CreateFromOrder
  <1>4. ASSUME NEW s \in Ships, ArchiveLabelPDF(s) PROVE RowInv'
    <2>1. CASE UNCHANGED rows
      BY <1>1, <1>4, <2>1, RowsStay DEF ArchiveLabelPDF
    <2>2. CASE rows' = [rows EXCEPT ![s].pdf = TRUE]
      <3> DEFINE row == [rows[s] EXCEPT !.pdf = TRUE]
      <3>1. rows' = [rows EXCEPT ![s] = row]
        BY <1>0, <2>2
      <3>2. RowOk(voided, s, row)
        BY <1>0 DEF RowOk, HasNumber, Row
      <3> HIDE DEF row
      <3> QED
        BY <1>2, <1>4, <3>1, <3>2 DEF ArchiveLabelPDF
    <2> QED
      BY <1>4, <2>1, <2>2 DEF ArchiveLabelPDF
  <1>5. ASSUME NEW s \in Ships, SyncShippedAtByMailNo(s) PROVE RowInv'
    <2> DEFINE row == [rows[s] EXCEPT !.shippedAt = "synced"]
    <2>1. rows' = [rows EXCEPT ![s] = row]
      BY <1>0, <1>5 DEF SyncShippedAtByMailNo
    <2>2. RowOk(voided, s, row)
      BY <1>0, <1>5 DEF SyncShippedAtByMailNo, RowOk, HasNumber, Row
    <2> HIDE DEF row
    <2> QED
      BY <1>2, <1>5, <2>1, <2>2 DEF SyncShippedAtByMailNo
  <1>6. ASSUME NEW s \in Ships, UpsertKdzsFromSync(s) PROVE RowInv'
    <2> DEFINE old == [rows[s] EXCEPT !.shippedAt = "synced",
                                      !.printed = IF s \in KdzsShips THEN FALSE ELSE @]
               new == [NoRow EXCEPT !.status = "printed", !.shippedAt = "synced"]
    <2>1. \/ /\ HasNumber(s, rows[s]) /\ rows' = [rows EXCEPT ![s] = old]
          \/ /\ s \in KdzsShips /\ rows' = [rows EXCEPT ![s] = new]
      BY <1>0, <1>6 DEF UpsertKdzsFromSync
    <2>2. HasNumber(s, rows[s]) => RowOk(voided, s, old)
      BY <1>0 DEF RowOk, HasNumber, Row
    <2>3. s \in KdzsShips => RowOk(voided, s, new)
      BY DEF RowOk, HasNumber, NoRow
    <2> HIDE DEF old, new
    <2> QED
      BY <1>2, <1>6, <2>1, <2>2, <2>3 DEF UpsertKdzsFromSync
  <1>7. CASE Crash
    <2>1. \A r \in Reqs : SlotOk(voided, req'[r])
      BY <1>7 DEF Crash, SlotOk, Idle
    <2> QED
      BY <1>7, <2>1 DEF Crash, RowInv
  <1> QED
    BY <1>3, <1>4, <1>5, <1>6, <1>7

LEMMA RowNext == TypeInv /\ NumbersIssued /\ LedgerInv /\ RowInv /\ [Next]_vars => RowInv'
  <1>1. CASE UNCHANGED vars
    BY <1>1 DEF RowInv, vars
  <1> QED
    BY <1>1, RowCall, RowStep, RowOthers DEF Next

LEMMA RowsCorrect == Spec => []RowInv
  BY RowInit, RowNext, LedgerCorrect, PTL DEF Spec

-----------------------------------------------------------------------------
\* A number and a shipping time come into a row together and stay together
\* (markShipmentShipped), whatever older copy of the row is saved over it.
THEOREM NumberAndTimeTogether == Spec => []ShippedIffNumbered
  <1>1. RowInv => ShippedIffNumbered
    BY DEF RowInv, RowOk, ShippedIffNumbered, Exists
  <1> QED
    BY <1>1, RowsCorrect, PTL

\* No row says cancelled while SF's order for it is live: Cancel asks SF first,
\* and no print or background update of an older copy can make it so.
THEOREM CancelledAtSF == Spec => []CancelledIsVoided
  <1>1. RowInv => CancelledIsVoided
    BY DEF RowInv, RowOk, CancelledIsVoided
  <1> QED
    BY <1>1, RowsCorrect, PTL

-----------------------------------------------------------------------------
(* While every answer arrives.                                              *)

\* SF may still refuse, and the one error the code ignores may happen.
Undisturbed == ~Overlap /\ Faults \subseteq {"sfReject", "ignored"}

\* A request a user waits for, on the shipment it names.
User(q) == q.pc \notin Background \cup {"delete"}

\* SF has no order for shipment s but number n; none for 0.
Held(s, n) == \A w \in issued : w.ship = s => w.seq = n

Saving(s) == \E r \in Reqs : req[r].ship = s /\ req[r].pc = "saveCreated"
Reporting(s) == \E r \in Reqs : req[r].ship = s /\ req[r].pc = "shipCore"

\* What is right of the row of s: SF's order for it is the one it names, unless
\* the answer is about to be saved; OrderCore has it, unless it is about to be told.
RowQuiet(s) ==
  LET row == rows[s] w == Waybill(s, row.wb) IN
  Exists(s) =>
    /\ s \in born
    /\ Saving(s) \/ Held(s, row.wb)
    /\ row.status \in {"draft", "failed"} => row.wb = 0
    /\ (row.status = "cancelled" /\ row.wb # 0) => w \in voided
    /\ (row.wb # 0 /\ OrderOf[s] \notin RefOnly) => w \in oc \cup voided \/ Reporting(s)

\* What is right of a request and the row it holds.
SlotQuiet(q) ==
  LET w == Waybill(q.ship, q.snap.wb) IN
  /\ User(q) => q.ship \in born /\ Held(q.ship, IF q.pc = "saveCreated" THEN q.seq ELSE q.snap.wb)
  /\ (q.pc \in {"bgPrint", "bgUpdate"} /\ q.snap.wb # 0) => Held(q.ship, q.snap.wb)
  /\ q.pc \in {"number", "call", "saveFailed"} => q.snap.wb = 0
  /\ q.snap.status \in {"draft", "failed"} => q.snap.wb = 0 /\ q.pc # "bgUpdate"
  /\ ((q.snap.status = "cancelled" \/ q.pc \in {"cancelSave", "unship"}) /\ q.snap.wb # 0)
       => w \in voided
  /\ q.pc = "saveCreated" => Waybill(q.ship, q.seq) \notin voided
  /\ q.pc = "shipCore" => w \notin voided
  /\ (User(q) /\ q.pc \notin {"saveCreated", "shipCore"} /\ q.snap.wb # 0
        /\ OrderOf[q.ship] \notin RefOnly) => w \in oc \cup voided

\* Users take turns on a shipment.
Turns ==
  \A r, q \in Reqs :
    (User(req[r]) /\ User(req[q]) /\ req[r].ship = req[q].ship) => r = q

\* A cancelled waybill leaves OrderCore with the request that cancelled it.
Cancelling(w, q) ==
  q.ship = w.ship /\ q.pc \in {"cancelSave", "unship"} /\ q.snap.wb = w.seq

TakenBack == \A w \in oc \cap voided : \E r \in Reqs : Cancelling(w, req[r])

QuietInv ==
  /\ Turns
  /\ \A w \in issued : w.ship \in born
  /\ \A s \in Ships : RowQuiet(s)
  /\ \A r \in Reqs : SlotQuiet(req[r])
  /\ TakenBack

-----------------------------------------------------------------------------
(* What a step leaves as it was.                                           *)

\* A new version of a row that still says what the row of s says of SF, and one
\* that is right by itself.
Keep(s, row) ==
  row.status # "absent" =>
    /\ Exists(s) /\ row.wb = rows[s].wb
    /\ row.status \in {"draft", "failed"} => row.wb = 0
    /\ (row.status = "cancelled" /\ row.wb # 0) => Waybill(s, row.wb) \in voided

Fit(s, row) ==
  row.status # "absent" =>
    /\ s \in born /\ Held(s, row.wb)
    /\ row.status \in {"draft", "failed"} => row.wb = 0
    /\ (row.status = "cancelled" /\ row.wb # 0) => Waybill(s, row.wb) \in voided
    /\ (row.wb # 0 /\ OrderOf[s] \notin RefOnly) => Waybill(s, row.wb) \in oc \cup voided

\* A slot goes on for a user, or starts when no user waits for its shipment.
InTurn(r, x) ==
  User(x) => \/ User(req[r]) /\ x.ship = req[r].ship
             \/ \A q \in Reqs : req[q].ship = x.ship => req[q].pc \in Background

LEMMA TurnsKept ==
  ASSUME TypeInv, Turns, NEW r \in Reqs, NEW x, req' = [req EXCEPT ![r] = x], InTurn(r, x)
  PROVE  Turns'
<1>1. req'[r] = x /\ \A q \in Reqs : q # r => req'[q] = req[q]
  BY DEF TypeInv, TypeOK
<1>2. SUFFICES ASSUME NEW p \in Reqs, NEW q \in Reqs, User(req'[p]), User(req'[q]),
                      req'[p].ship = req'[q].ship, p # q
               PROVE  FALSE
  BY DEF Turns, User
<1>3. CASE p = r
  BY <1>1, <1>2, <1>3 DEF Turns, InTurn, User
<1>4. CASE q = r
  BY <1>1, <1>2, <1>4 DEF Turns, InTurn, User
<1>5. CASE p # r /\ q # r
  BY <1>1, <1>2, <1>5 DEF Turns
<1>6. QED
  BY <1>3, <1>4, <1>5

\* The other requests see no difference.
LEMMA OthersQuiet ==
  ASSUME QuietInv, NEW r \in Reqs, NEW q \in Reqs, q # r, req'[q] = req[q],
         issued' = issued, born \subseteq born', voided \subseteq voided',
         \A w \in voided' : w \in voided \/ (w.ship = req[r].ship /\ User(req[r])),
         \A w \in oc : w \in oc' \cup voided'
  PROVE  SlotQuiet(req[q])'
<1>1. SlotQuiet(req[q])
  BY DEF QuietInv
<1>2. User(req[q]) /\ User(req[r]) => req[q].ship # req[r].ship
  BY DEF QuietInv, Turns
<1>3. \A n : Waybill(req[q].ship, n).ship = req[q].ship
  BY DEF Waybill
<1>4. User(req[q]) => \A n : Waybill(req[q].ship, n) \in voided' => Waybill(req[q].ship, n) \in voided
  BY <1>2, <1>3
<1>5. req[q].pc \in {"saveCreated", "shipCore"} => User(req[q])
  BY DEF User, Background
<1>6. QED
  BY <1>1, <1>4, <1>5 DEF SlotQuiet, Held, User, Waybill

\* Nor does a row that says the same.
LEMMA RowKept ==
  ASSUME TypeInv, QuietInv, NEW r \in Reqs, NEW x, req' = [req EXCEPT ![r] = x], NEW s \in Ships,
         issued' = issued, born \subseteq born', voided \subseteq voided',
         \A w \in oc : w \in oc' \cup voided',
         Keep(s, rows'[s]),
         (req[r].pc = "saveCreated") => req[r].ship # s,
         (req[r].pc = "shipCore" /\ req[r].ship = s /\ Exists(s) /\ rows[s].wb # 0)
            => Waybill(s, rows[s].wb) \in oc'
  PROVE  RowQuiet(s)'
<1>1. \A q \in Reqs : q # r => req'[q] = req[q]
  BY DEF TypeInv, TypeOK
<1>2. SUFFICES ASSUME Exists(s)' PROVE RowQuiet(s)'
  BY DEF RowQuiet
<1>3. /\ Exists(s) /\ rows'[s].wb = rows[s].wb /\ RowQuiet(s)
      /\ rows'[s].status \in {"draft", "failed"} => rows'[s].wb = 0
      /\ (rows'[s].status = "cancelled" /\ rows'[s].wb # 0)
            => Waybill(s, rows'[s].wb) \in voided
  BY <1>2 DEF Exists, Keep, QuietInv
<1>4. Saving(s)' \/ Held(s, rows[s].wb)'
  BY <1>1, <1>3 DEF RowQuiet, Saving, Held
<1>5. (Reporting(s) /\ rows[s].wb # 0) => Reporting(s)' \/ Waybill(s, rows[s].wb) \in oc'
  BY <1>1, <1>3 DEF Reporting
<1>6. (rows'[s].wb # 0 /\ OrderOf[s] \notin RefOnly)
        => Waybill(s, rows'[s].wb) \in oc' \cup voided' \/ Reporting(s)'
  BY <1>3, <1>5 DEF RowQuiet
<1>7. QED
  BY <1>3, <1>4, <1>6 DEF RowQuiet, Waybill

\* One slot changes, SF and OrderCore do not.
LEMMA PlainMove ==
  ASSUME TypeInv, QuietInv, NEW r \in Reqs, NEW x, req' = [req EXCEPT ![r] = x],
         UNCHANGED <<issued, born, voided, oc>>,
         req[r].pc \notin {"saveCreated", "shipCore", "cancelSave", "unship"},
         SlotQuiet(x), InTurn(r, x),
         \A s \in Ships : Keep(s, rows'[s]) \/ Fit(s, rows'[s])
  PROVE  QuietInv'
<1>1. req'[r] = x /\ \A q \in Reqs : q # r => req'[q] = req[q]
  BY DEF TypeInv, TypeOK
<1>2. Turns'
  BY TurnsKept DEF QuietInv
<1>3. \A w \in issued' : w.ship \in born'
  BY DEF QuietInv
<1>4. ASSUME NEW s \in Ships PROVE RowQuiet(s)'
  <2>1. CASE Keep(s, rows'[s])
    BY <2>1, RowKept
  <2>2. CASE Fit(s, rows'[s])
    BY <2>2 DEF Fit, RowQuiet, Held, Exists, Waybill
  <2>3. QED
    BY <2>1, <2>2
<1>5. ASSUME NEW q \in Reqs PROVE SlotQuiet(req[q])'
  <2>1. CASE q = r
    BY <1>1, <2>1 DEF SlotQuiet, Held, User, Waybill
  <2>2. CASE q # r
    BY <1>1, <2>2, OthersQuiet
  <2>3. QED
    BY <2>1, <2>2
<1>6. TakenBack'
  BY <1>1 DEF QuietInv, TakenBack, Cancelling
<1>7. QED
  BY <1>2, <1>3, <1>4, <1>5, <1>6 DEF QuietInv

LEMMA Finished == SlotQuiet(Idle) /\ \A r : InTurn(r, Idle)
<1>1. Idle.pc = "idle" /\ Idle.snap.status = "absent"
  BY DEF Idle, NoRow
<1>2. QED
  BY <1>1 DEF SlotQuiet, InTurn, User, Background

\* A row's number, once it has one, is that of SF's only order for the shipment.
LEMMA NumberedHeld ==
  ASSUME TypeInv, NumbersIssued, QuietInv, NEW s \in Ships, Exists(s), rows[s].wb # 0
  PROVE  Held(s, rows[s].wb)
<1>1. Waybill(s, rows[s].wb) \in issued
  BY DEF NumbersIssued, NumberOf
<1>2. Waybill(s, rows[s].wb).ship = s /\ Waybill(s, rows[s].wb).seq = rows[s].wb
  BY DEF Waybill
<1>3. CASE Saving(s)
  <2>1. PICK r \in Reqs : req[r].ship = s /\ req[r].pc = "saveCreated"
    BY <1>3 DEF Saving
  <2>2. Held(s, req[r].seq)
    BY <2>1 DEF QuietInv, SlotQuiet, User, Background
  <2>3. QED
    BY <1>1, <1>2, <2>2 DEF Held
<1>4. QED
  BY <1>3 DEF QuietInv, RowQuiet

-----------------------------------------------------------------------------
(* The steps.                                                              *)

\* A printed row has the number it had, and is no longer a draft.
LEMMA Printed ==
  ASSUME NEW row \in Row, NEW b
  PROVE  LET new == markShipmentPrinted(row)
             stored == [new EXCEPT !.pdf = b] IN
         /\ new.wb = row.wb /\ new.status \notin {"draft", "failed"}
         /\ new.status = "cancelled" => row.status = "cancelled"
         /\ stored.wb = row.wb /\ stored.status = new.status
BY DEF Row, markShipmentPrinted

\* A row written by the request that holds it.
LEMMA OneRow ==
  ASSUME TypeInv, QuietInv, NEW s \in Ships, NEW row, rows' = [rows EXCEPT ![s] = row],
         Keep(s, row) \/ Fit(s, row)
  PROVE  \A t \in Ships : Keep(t, rows'[t]) \/ Fit(t, rows'[t])
<1>1. rows'[s] = row /\ \A t \in Ships : t # s => rows'[t] = rows[t]
  BY DEF TypeInv, TypeOK
<1>2. ASSUME NEW t \in Ships PROVE Keep(t, rows[t])
  <2>1. RowQuiet(t)
    BY DEF QuietInv
  <2>2. QED
    BY <2>1 DEF RowQuiet, Keep, Exists
<1>3. QED
  BY <1>1, <1>2

LEMMA SameRows ==
  ASSUME QuietInv, UNCHANGED rows
  PROVE  \A t \in Ships : Keep(t, rows'[t]) \/ Fit(t, rows'[t])
<1>1. ASSUME NEW t \in Ships PROVE Keep(t, rows[t])
  <2>1. RowQuiet(t)
    BY DEF QuietInv
  <2>2. QED
    BY <2>1 DEF RowQuiet, Keep, Exists
<1>2. QED
  BY <1>1

LEMMA QuietCall ==
  ASSUME Undisturbed, TypeInv, NumbersIssued, QuietInv, NEW r \in Reqs, Call(r)
  PROVE  QuietInv'
<1>0. rows \in [Ships -> Row] /\ req \in [Reqs -> Request]
  BY DEF TypeInv, TypeOK
<1>1. ASSUME NEW s \in Ships, NEW pc \in {"number", "print", "plugin", "pdf", "sfCancel", "cancelSave", "unship"},
             Begin(r, s, pc, rows[s]), Free(r, s), Exists(s),
             UNCHANGED <<rows, issued, born, voided, oc>>,
             pc = "number" => rows[s].wb = 0,
             pc = "cancelSave" => rows[s].wb = 0,
             pc = "unship" => rows[s].status = "cancelled"
      PROVE  QuietInv'
  <2> DEFINE x == [pc |-> pc, ship |-> s, snap |-> rows[s], seq |-> 0, ids |-> {}]
  <2>1. req' = [req EXCEPT ![r] = x] /\ x.pc = pc /\ x.ship = s /\ x.snap = rows[s]
    BY <1>1 DEF Begin
  <2> HIDE DEF x
  <2>2. \A q \in Reqs : req[q].ship = s => req[q].pc \in Background
    BY <1>1 DEF Free, Undisturbed
  <2>3. ~Saving(s) /\ ~Reporting(s)
    BY <2>2 DEF Saving, Reporting, Background
  <2>4. RowQuiet(s)
    BY DEF QuietInv
  <2>5. s \in born /\ Held(s, rows[s].wb)
    BY <1>1, <2>3, <2>4 DEF RowQuiet
  <2>6. SlotQuiet(x)
    BY <1>1, <2>1, <2>3, <2>4, <2>5 DEF RowQuiet, SlotQuiet
  <2>7. InTurn(r, x) /\ req[r].pc = "idle"
    BY <1>1, <2>1, <2>2 DEF InTurn, Free
  <2>8. QED
    BY <1>1, <2>1, <2>6, <2>7, PlainMove, SameRows
<1>2. ASSUME NEW s \in Ships, BeginCreateWaybill(r, s) PROVE QuietInv'
  <2>1. Exists(s) /\ RowQuiet(s)
    BY <1>2 DEF BeginCreateWaybill, Exists, QuietInv
  <2>2. rows[s].wb = 0
    BY <1>2, <2>1 DEF RowQuiet, BeginCreateWaybill
  <2>3. QED
    BY <1>1, <1>2, <2>1, <2>2 DEF BeginCreateWaybill
<1>3. ASSUME NEW s \in Ships, BeginCancel(r, s) PROVE QuietInv'
  <2>1. Exists(s) /\ Free(r, s) /\ UNCHANGED <<rows, issued, born, voided, oc>> /\ RowQuiet(s)
    BY <1>3 DEF BeginCancel, QuietInv
  <2>2. CASE rows[s].status = "cancelled"
    BY <1>1, <1>3, <2>1, <2>2 DEF BeginCancel
  <2>3. CASE rows[s].status # "cancelled" /\ (rows[s].status = "draft" \/ rows[s].wb = 0)
    <3>1. rows[s].wb = 0
      BY <2>1, <2>3 DEF RowQuiet
    <3>2. Begin(r, s, "cancelSave", rows[s])
      BY <1>3, <2>3 DEF BeginCancel
    <3>3. QED
      BY <1>1, <2>1, <3>1, <3>2
  <2>4. CASE rows[s].status # "cancelled" /\ ~(rows[s].status = "draft" \/ rows[s].wb = 0)
    <3>1. Begin(r, s, "sfCancel", rows[s])
      BY <1>3, <2>4 DEF BeginCancel
    <3>2. QED
      BY <1>1, <2>1, <3>1
  <2>5. QED
    BY <2>2, <2>3, <2>4
<1>4. ASSUME NEW s \in Ships, NEW kind \in {"print", "plugin", "pdf"}, BeginPrint(r, s, kind)
      PROVE  QuietInv'
  BY <1>1, <1>4 DEF BeginPrint
<1>5. ASSUME NEW o \in Orders, BeginDelete(r, o) PROVE QuietInv'
  <2>1. PICK ids : req' = [req EXCEPT ![r] = [Idle EXCEPT !.pc = "delete", !.ids = ids]]
    BY <1>5 DEF BeginDelete
  <2> DEFINE x == [Idle EXCEPT !.pc = "delete", !.ids = ids]
  <2>2. x.pc = "delete" /\ x.snap.status = "absent"
    BY DEF Idle, NoRow
  <2>3. req' = [req EXCEPT ![r] = x] /\ UNCHANGED <<rows, issued, born, voided, oc>> /\ req[r].pc = "idle"
    BY <1>5, <2>1 DEF BeginDelete
  <2> HIDE DEF x
  <2>4. SlotQuiet(x) /\ InTurn(r, x)
    BY <2>2 DEF SlotQuiet, InTurn, User
  <2>5. QED
    BY <2>3, <2>4, PlainMove, SameRows
<1>6. QED
  BY <1>2, <1>3, <1>4, <1>5 DEF Call

\* A handler that returns.
LEMMA QuietReturn ==
  ASSUME TypeInv, QuietInv, NEW r \in Reqs, Return(r), UNCHANGED <<issued, born, voided, oc>>,
         req[r].pc \notin {"saveCreated", "shipCore", "cancelSave", "unship"},
         \A s \in Ships : Keep(s, rows'[s]) \/ Fit(s, rows'[s])
  PROVE  QuietInv'
BY Finished, PlainMove DEF Return

\* What a user's handler holds fits the row it came from.
LEMMA SnapFits ==
  ASSUME TypeInv, QuietInv, NEW r \in Reqs, User(req[r]),
         req[r].pc \notin {"saveCreated", "shipCore"}
  PROVE  Fit(req[r].ship, req[r].snap)
<1>1. SlotQuiet(req[r])
  BY DEF QuietInv
<1>2. QED
  BY <1>1 DEF SlotQuiet, Fit, User

\* The steps SF and OrderCore have no part in, nor any promise to them.
LEMMA QuietPlain ==
  ASSUME Undisturbed, TypeInv, NumbersIssued, QuietInv, NEW r \in Reqs,
         \/ ResolveOrderID(r) \/ SaveFailed(r) \/ BackgroundRead(r) \/ BackgroundUpdate(r)
         \/ ApplyCloudPrint(r) \/ FetchPrintPluginData(r) \/ FetchLabelPDF(r) \/ SavePrinted(r)
         \/ DeleteRows(r) \/ ErrorReturn(r)
  PROVE  QuietInv'
<1> DEFINE s == req[r].ship
           sh == req[r].snap
           q == req[r]
<1>0. /\ s \in Ships /\ sh \in Row /\ q.ship = s /\ q.snap = sh
      /\ rows \in [Ships -> Row] /\ req \in [Reqs -> Request] /\ SlotQuiet(q)
      /\ q \in Request /\ q = req[r] /\ "dbError" \notin Faults
  BY DEF TypeInv, TypeOK, Request, QuietInv, Undisturbed
<1> HIDE DEF s, sh, q
<1>1. CASE ResolveOrderID(r)
  <2>1. PICK n : req' = [req EXCEPT ![r].pc = "call", ![r].seq = n]
    BY <1>1 DEF ResolveOrderID
  <2> DEFINE x == [q EXCEPT !.pc = "call", !.seq = n]
  <2>2. req' = [req EXCEPT ![r] = x] /\ x.pc = "call" /\ x.ship = s /\ x.snap = sh
    BY <1>0, <2>1 DEF Request
  <2> HIDE DEF x
  <2>3. q.pc = "number" /\ UNCHANGED <<rows, issued, born, voided, oc>>
    BY <1>1 DEF ResolveOrderID, q
  <2>4. SlotQuiet(x) /\ InTurn(r, x)
    BY <1>0, <2>2, <2>3 DEF SlotQuiet, InTurn, User, Background, q
  <2>5. QED
    BY <2>2, <2>3, <2>4, PlainMove, SameRows DEF q
<1>2. CASE SaveFailed(r)
  <2> DEFINE row == [sh EXCEPT !.status = "failed"]
  <2>1. /\ q.pc = "saveFailed" /\ rows' = [rows EXCEPT ![s] = row] /\ Return(r)
        /\ UNCHANGED <<issued, born, voided, oc>>
    BY <1>2 DEF SaveFailed, Save, s, sh, q
  <2>2. row.status = "failed" /\ row.wb = sh.wb
    BY <1>0 DEF Row
  <2> HIDE DEF row
  <2>3. Fit(s, row)
    BY <1>0, <2>1, <2>2 DEF SlotQuiet, Fit, User, Background
  <2>4. \A t \in Ships : Keep(t, rows'[t]) \/ Fit(t, rows'[t])
    BY <1>0, <2>1, <2>3, OneRow
  <2>5. QED
    BY <2>1, <2>4, QuietReturn DEF q
<1>3. CASE BackgroundRead(r)
  <2>1. q.pc = "bgRead" /\ UNCHANGED <<rows, issued, born, voided, oc>>
    BY <1>3 DEF BackgroundRead, q
  <2>2. CASE Return(r)
    BY <2>1, <2>2, QuietReturn, SameRows DEF q
  <2>3. CASE Exists(s) /\ req' = [req EXCEPT ![r].pc = "bgPrint", ![r].snap = rows[s]]
    <3> DEFINE x == [q EXCEPT !.pc = "bgPrint", !.snap = rows[s]]
    <3>1. req' = [req EXCEPT ![r] = x] /\ x.pc = "bgPrint" /\ x.ship = s /\ x.snap = rows[s]
      BY <1>0, <2>3 DEF Request
    <3> HIDE DEF x
    <3>2. RowQuiet(s) /\ (rows[s].wb # 0 => Held(s, rows[s].wb))
      BY <1>0, <2>3, NumberedHeld DEF QuietInv
    <3>3. SlotQuiet(x) /\ InTurn(r, x)
      BY <2>3, <3>1, <3>2 DEF SlotQuiet, InTurn, User, Background, RowQuiet
    <3>4. QED
      BY <2>1, <3>1, <3>3, PlainMove, SameRows DEF q
  <2>4. QED
    BY <1>3, <2>2, <2>3 DEF BackgroundRead, s
<1>4. CASE BackgroundUpdate(r)
  <2> DEFINE row == [rows[s] EXCEPT !.status = sh.status, !.printed = sh.printed, !.pdf = sh.pdf]
  <2>1. q.pc = "bgUpdate" /\ Return(r) /\ UNCHANGED <<issued, born, voided, oc>> /\ sh.wb # 0
    BY <1>4 DEF BackgroundUpdate, q, TypeInv, SlotsNumbered, sh
  <2>2. UNCHANGED rows \/ (Exists(s) /\ rows' = [rows EXCEPT ![s] = row])
    BY <1>4, <1>0 DEF BackgroundUpdate, s, sh
  <2>3. CASE UNCHANGED rows
    BY <2>1, <2>3, QuietReturn, SameRows DEF q
  <2>4. CASE Exists(s) /\ rows' = [rows EXCEPT ![s] = row]
    <3>1. row.wb = rows[s].wb /\ row.status = sh.status
      BY <1>0 DEF Row
    <3>2. rows[s].wb # 0 => rows[s].wb = sh.wb
      <4>1. Held(s, sh.wb)
        BY <1>0, <2>1 DEF SlotQuiet
      <4>2. rows[s].wb # 0 => Waybill(s, rows[s].wb) \in issued
        BY <1>0 DEF NumbersIssued, NumberOf
      <4>3. Waybill(s, rows[s].wb).ship = s /\ Waybill(s, rows[s].wb).seq = rows[s].wb
        BY DEF Waybill
      <4>4. QED
        BY <4>1, <4>2, <4>3 DEF Held
    <3> HIDE DEF row
    <3>3. Keep(s, row)
      BY <1>0, <2>1, <2>4, <3>1, <3>2 DEF SlotQuiet, Keep
    <3>4. \A t \in Ships : Keep(t, rows'[t]) \/ Fit(t, rows'[t])
      BY <1>0, <2>4, <3>3, OneRow
    <3>5. QED
      BY <2>1, <3>4, QuietReturn DEF q
  <2>5. QED
    BY <2>2, <2>3, <2>4
<1>5. ASSUME NEW pc \in {"printSave", "bgUpdate", "pluginSave", "pdfSave"}, NEW row,
             req' = [req EXCEPT ![r].pc = pc, ![r].snap = row],
             row.wb = sh.wb, row.status \notin {"draft", "failed"},
             row.status = "cancelled" => sh.status = "cancelled",
             q.pc \in {"bgPrint", "print", "plugin", "pdf"}, pc = "bgUpdate" <=> q.pc = "bgPrint",
             UNCHANGED <<rows, issued, born, voided, oc>>
      PROVE  QuietInv'
  <2> DEFINE x == [q EXCEPT !.pc = pc, !.snap = row]
  <2>1. req' = [req EXCEPT ![r] = x] /\ x.pc = pc /\ x.ship = s /\ x.snap = row
    BY <1>0, <1>5 DEF Request
  <2> HIDE DEF x
  <2>2. SlotQuiet(x) /\ InTurn(r, x)
    BY <1>0, <1>5, <2>1 DEF SlotQuiet, InTurn, User, Background, q
  <2>3. QED
    BY <1>5, <2>1, <2>2, PlainMove, SameRows DEF q
<1>6. CASE ApplyCloudPrint(r)
  <2> DEFINE new == markShipmentPrinted(sh)
             pc == IF q.pc = "print" THEN "printSave" ELSE "bgUpdate"
  <2>1. req' = [req EXCEPT ![r].pc = pc, ![r].snap = new]
    BY <1>6, <1>0 DEF ApplyCloudPrint, q, sh
  <2>2. q.pc \in {"bgPrint", "print"} /\ UNCHANGED <<rows, issued, born, voided, oc>>
    BY <1>6 DEF ApplyCloudPrint, q
  <2>3. /\ new.wb = sh.wb /\ new.status \notin {"draft", "failed"}
        /\ new.status = "cancelled" => sh.status = "cancelled"
    BY <1>0, Printed
  <2> HIDE DEF new
  <2>4. QED
    BY <1>5, <2>1, <2>2, <2>3
<1>7. CASE FetchPrintPluginData(r)
  <2> DEFINE new == markShipmentPrinted(sh)
  <2>1. req' = [req EXCEPT ![r].pc = "pluginSave", ![r].snap = new]
    BY <1>7, <1>0 DEF FetchPrintPluginData, q, sh
  <2>2. q.pc = "plugin" /\ UNCHANGED <<rows, issued, born, voided, oc>>
    BY <1>7 DEF FetchPrintPluginData, q
  <2>3. /\ new.wb = sh.wb /\ new.status \notin {"draft", "failed"}
        /\ new.status = "cancelled" => sh.status = "cancelled"
    BY <1>0, Printed
  <2> HIDE DEF new
  <2>4. QED
    BY <1>5, <2>1, <2>2, <2>3
<1>8. CASE FetchLabelPDF(r)
  <2>1. PICK b : req' = [req EXCEPT ![r].pc = "pdfSave",
                                    ![r].snap = [markShipmentPrinted(@) EXCEPT !.pdf = b]]
    BY <1>8 DEF FetchLabelPDF
  <2> DEFINE new == [markShipmentPrinted(sh) EXCEPT !.pdf = b]
  <2>2. req' = [req EXCEPT ![r].pc = "pdfSave", ![r].snap = new]
    BY <2>1, <1>0 DEF sh
  <2>3. q.pc = "pdf" /\ UNCHANGED <<rows, issued, born, voided, oc>>
    BY <1>8 DEF FetchLabelPDF, q
  <2>4. /\ new.wb = sh.wb /\ new.status \notin {"draft", "failed"}
        /\ new.status = "cancelled" => sh.status = "cancelled"
    BY <1>0, Printed
  <2> HIDE DEF new
  <2>5. QED
    BY <1>5, <2>2, <2>3, <2>4
<1>9. CASE SavePrinted(r)
  <2>1. /\ q.pc \in {"printSave", "pluginSave", "pdfSave"} /\ Return(r)
        /\ UNCHANGED <<issued, born, voided, oc>>
    BY <1>9 DEF SavePrinted, q
  <2>2. CASE UNCHANGED rows
    BY <2>1, <2>2, QuietReturn, SameRows DEF q
  <2>3. CASE rows' = [rows EXCEPT ![s] = sh]
    <3>1. Fit(s, sh)
      BY <2>1, SnapFits DEF q, s, sh, User, Background
    <3>2. \A t \in Ships : Keep(t, rows'[t]) \/ Fit(t, rows'[t])
      BY <1>0, <2>3, <3>1, OneRow
    <3>3. QED
      BY <2>1, <3>2, QuietReturn DEF q
  <2>4. QED
    BY <1>9, <2>2, <2>3 DEF SavePrinted, Save, s, sh
<1>10. CASE DeleteRows(r)
  <2>1. /\ q.pc = "delete" /\ Return(r) /\ UNCHANGED <<issued, born, voided, oc>>
        /\ \A t \in Ships : rows'[t] \in {NoRow, rows[t]}
    BY <1>10 DEF DeleteRows, q
  <2>2. NoRow.status = "absent"
    BY DEF NoRow
  <2>3. ASSUME NEW t \in Ships PROVE Keep(t, rows'[t])
    BY <2>1, <2>2 DEF Keep, QuietInv, RowQuiet, Exists
  <2>4. QED
    BY <2>1, <2>3, QuietReturn DEF q
<1>11. CASE ErrorReturn(r)
  <2>1. /\ Return(r) /\ UNCHANGED <<rows, issued, born, voided, oc>>
        /\ q.pc \notin {"saveCreated", "shipCore", "cancelSave", "unship"}
    BY <1>0, <1>11 DEF ErrorReturn, q
  <2>2. QED
    BY <2>1, QuietReturn, SameRows DEF q
<1>12. QED
  BY <1>1, <1>2, <1>3, <1>4, <1>6, <1>7, <1>8, <1>9, <1>10, <1>11

\* SF takes the order: it had none for the shipment, and no one else asks for it.
LEMMA QuietCreateOrder ==
  ASSUME Undisturbed, TypeInv, NumbersIssued, QuietInv, NEW r \in Reqs, SFCreateOrder(r)
  PROVE  QuietInv'
<1> DEFINE s == req[r].ship
           q == req[r]
           w == Waybill(s, q.seq)
<1>0. /\ s \in Ships /\ q.ship = s /\ rows \in [Ships -> Row] /\ req \in [Reqs -> Request]
      /\ SlotQuiet(q) /\ q \in Request /\ q = req[r] /\ "lostReply" \notin Faults
  BY DEF TypeInv, TypeOK, Request, QuietInv, Undisturbed
<1>1. w.ship = s /\ w.seq = q.seq
  BY DEF Waybill
<1> HIDE DEF s, q, w
<1>2. q.pc = "call" /\ UNCHANGED <<rows, born, voided, oc>>
  BY <1>0 DEF SFCreateOrder, q
<1>3. s \in born /\ q.snap.wb = 0 /\ Held(s, 0) /\ User(q)
  BY <1>0, <1>2 DEF SlotQuiet, User, Background
<1>4. ASSUME NEW pc \in {"saveCreated", "saveFailed"}, Goto(r, pc)
      PROVE  LET x == [q EXCEPT !.pc = pc] IN
             /\ req' = [req EXCEPT ![r] = x] /\ x.pc = pc /\ x.ship = s /\ x.seq = q.seq
             /\ x.snap = q.snap
  BY <1>0, <1>4 DEF Goto, Request
<1>5. CASE Goto(r, "saveFailed") /\ UNCHANGED issued
  <2> DEFINE x == [q EXCEPT !.pc = "saveFailed"]
  <2>1. /\ req' = [req EXCEPT ![r] = x] /\ x.pc = "saveFailed" /\ x.ship = s /\ x.snap = q.snap
    BY <1>4, <1>5
  <2> HIDE DEF x
  <2>2. SlotQuiet(x)
    BY <1>0, <1>2, <2>1 DEF SlotQuiet, User, Background
  <2>3. InTurn(r, x)
    BY <1>0, <1>3, <2>1 DEF InTurn
  <2>4. QED
    BY <1>0, <1>2, <1>5, <2>1, <2>2, <2>3, PlainMove, SameRows
<1>6. CASE SFAccepts(w) /\ issued' = issued \cup {w} /\ Goto(r, "saveCreated")
  <2> DEFINE x == [q EXCEPT !.pc = "saveCreated"]
  <2>1. /\ req' = [req EXCEPT ![r] = x] /\ x.pc = "saveCreated" /\ x.ship = s
        /\ x.seq = q.seq /\ x.snap = q.snap
    BY <1>4, <1>6
  <2> HIDE DEF x
  <2>2. req'[r] = x /\ \A p \in Reqs : p # r => req'[p] = req[p]
    BY <1>0, <2>1
  <2>3. w \notin voided
    BY <1>6 DEF SFAccepts, NumbersIssued
  <2>4. \A v \in issued : v.ship # s
    BY <1>3 DEF Held, TypeInv, TypeOK, Waybills
  <2>5. Turns'
    BY <1>0, <1>3, <2>1, TurnsKept DEF QuietInv, InTurn
  <2>6. \A v \in issued' : v.ship \in born'
    BY <1>1, <1>2, <1>3, <1>6 DEF QuietInv
  <2>7. ASSUME NEW t \in Ships PROVE RowQuiet(t)'
    <3>1. RowQuiet(t)
      BY DEF QuietInv
    <3>2. CASE t = s
      <4>1. Saving(t)' /\ (Reporting(t) => Reporting(t)')
        BY <1>0, <1>2, <2>1, <2>2, <3>2 DEF Saving, Reporting
      <4>2. QED
        BY <1>2, <3>1, <4>1 DEF RowQuiet, Waybill, Exists
    <3>3. CASE t # s
      <4>1. (Saving(t) => Saving(t)') /\ (Reporting(t) => Reporting(t)')
        BY <1>0, <1>2, <2>2, <3>3 DEF Saving, Reporting
      <4>2. Held(t, rows[t].wb) => Held(t, rows[t].wb)'
        BY <1>1, <1>2, <1>6, <3>3 DEF Held
      <4>3. QED
        BY <1>2, <3>1, <4>1, <4>2 DEF RowQuiet, Waybill, Exists
    <3>4. QED
      BY <3>2, <3>3
  <2>8. ASSUME NEW p \in Reqs PROVE SlotQuiet(req[p])'
    <3>1. CASE p = r
      <4>1. \A v \in issued' : v.ship = req'[r].ship => v.seq = req'[r].seq
        BY <1>1, <1>6, <2>1, <2>2, <2>4
      <4>2. /\ req'[r].pc = "saveCreated" /\ req'[r].ship \in born' /\ req'[r].snap.wb = 0
            /\ Waybill(req'[r].ship, req'[r].seq) \notin voided'
        BY <1>0, <1>2, <1>3, <2>1, <2>2, <2>3 DEF w
      <4>3. QED
        BY <3>1, <4>1, <4>2 DEF SlotQuiet, Waybill, Held
    <3>2. CASE p # r
      <4>1. SlotQuiet(req[p]) /\ req'[p] = req[p]
        BY <2>2, <3>2 DEF QuietInv
      <4>2. User(req[p]) => req[p].ship # s
        BY <1>0, <1>3, <3>2 DEF QuietInv, Turns
      <4>3. req[p].snap.wb # 0 => req[p].ship # s
        <5>1. req[p].snap.wb # 0 => Waybill(req[p].ship, req[p].snap.wb) \in issued
          BY DEF NumbersIssued, NumberOf
        <5>2. Waybill(req[p].ship, req[p].snap.wb).ship = req[p].ship
          BY DEF Waybill
        <5>3. QED
          BY <2>4, <5>1, <5>2
      <4>4. \A n : (req[p].ship # s /\ Held(req[p].ship, n)) => Held(req[p].ship, n)'
        BY <1>1, <1>6, <4>1 DEF Held
      <4>5. QED
        BY <1>2, <4>1, <4>2, <4>3, <4>4 DEF SlotQuiet, User, Waybill
    <3>3. QED
      BY <3>1, <3>2
  <2>9. TakenBack'
    BY <1>0, <1>2, <2>2 DEF QuietInv, TakenBack, Cancelling
  <2>10. QED
    BY <2>5, <2>6, <2>7, <2>8, <2>9 DEF QuietInv
<1>7. QED
  BY <1>0, <1>5, <1>6 DEF SFCreateOrder, q, s, w

\* A step that SF has no part in, with what is to be shown of it.
LEMMA ReportingMove ==
  ASSUME TypeInv, QuietInv, NEW r \in Reqs, NEW x, req' = [req EXCEPT ![r] = x],
         issued' = issued, born' = born, voided \subseteq voided',
         \A w \in voided' : w \in voided \/ (w.ship = req[r].ship /\ User(req[r])),
         \A w \in oc : w \in oc' \cup voided',
         InTurn(r, x), SlotQuiet(req[r])', \A s \in Ships : RowQuiet(s)', TakenBack'
  PROVE  QuietInv'
<1>1. \A q \in Reqs : q # r => req'[q] = req[q]
  BY DEF TypeInv, TypeOK
<1>2. \A q \in Reqs : SlotQuiet(req[q])'
  BY <1>1, OthersQuiet
<1>3. Turns' /\ \A w \in issued' : w.ship \in born'
  BY TurnsKept DEF QuietInv
<1>4. QED
  BY <1>2, <1>3 DEF QuietInv

\* The rows a step of this kind leaves alone.
LEMMA OtherRows ==
  ASSUME QuietInv, NEW t \in Ships, rows'[t] = rows[t]
  PROVE  Keep(t, rows'[t])
<1>1. RowQuiet(t)
  BY DEF QuietInv
<1>2. QED
  BY <1>1 DEF RowQuiet, Keep, Exists

\* The steps of CreateWaybill and Cancel that make or keep a promise.
LEMMA QuietReporting ==
  ASSUME Undisturbed, TypeInv, NumbersIssued, LedgerKeys, QuietInv, NEW r \in Reqs,
         SaveCreated(r) \/ ShipOrderCore(r) \/ SFCancelOrder(r) \/ CancelSave(r) \/ UnshipOrderCore(r)
  PROVE  QuietInv'
<1> DEFINE s == req[r].ship
           sh == req[r].snap
           q == req[r]
<1>0. /\ s \in Ships /\ sh \in Row /\ q.ship = s /\ q.snap = sh /\ q = req[r] /\ q \in Request
      /\ rows \in [Ships -> Row] /\ req \in [Reqs -> Request] /\ SlotQuiet(q)
      /\ "lostReply" \notin Faults /\ "ocError" \notin Faults
  BY DEF TypeInv, TypeOK, Request, QuietInv, Undisturbed
<1>a. \A x : req' = [req EXCEPT ![r] = x] =>
             req'[r] = x /\ \A p \in Reqs : p # r => req'[p] = req[p]
  BY <1>0
<1>b. ASSUME NEW pc, Goto(r, pc)
      PROVE  LET x == [q EXCEPT !.pc = pc] IN
             req' = [req EXCEPT ![r] = x] /\ x.pc = pc /\ x.ship = s /\ x.snap = sh
  BY <1>0, <1>b DEF Goto, Request
<1> HIDE DEF s, sh, q
<1>1. CASE SaveCreated(r)
  <2> DEFINE base == [sh EXCEPT !.status = "created", !.wb = q.seq]
             row == markShipmentShipped(base)
             pc == IF OrderOf[s] \in RefOnly THEN "bgRead" ELSE "shipCore"
             x == [q EXCEPT !.pc = pc, !.snap = row]
  <2>1. /\ q.pc = "saveCreated" /\ rows' = [rows EXCEPT ![s] = row]
        /\ req' = [req EXCEPT ![r] = x] /\ UNCHANGED <<issued, born, voided, oc>>
    BY <1>1, <1>0 DEF SaveCreated, Save, q, s, sh
  <2>2. row.status = "created" /\ row.wb = q.seq
    <3>1. base \in [status: {"created"}, wb: {q.seq}, shippedAt: {"none", "taken", "synced"},
                    printed: BOOLEAN, pdf: BOOLEAN]
      BY <1>0 DEF Row
    <3> HIDE DEF base
    <3>2. QED
      BY <3>1 DEF markShipmentShipped
  <2> HIDE DEF row
  <2>3. x.pc = pc /\ x.ship = s /\ x.snap = row
    BY <1>0 DEF Request
  <2>4. req'[r] = x /\ rows'[s] = row /\ \A t \in Ships : t # s => rows'[t] = rows[t]
    BY <1>0, <1>a, <2>1
  <2> HIDE DEF x
  <2>5. /\ User(q) /\ s \in born /\ Held(s, q.seq) /\ Waybill(s, q.seq) \notin voided
    BY <1>0, <2>1 DEF SlotQuiet, User, Background
  <2>6. SlotQuiet(req[r])'
    <3>1. req'[r].ship = s /\ req'[r].snap.wb = q.seq /\ req'[r].snap.status = "created"
          /\ req'[r].pc \in {"bgRead", "shipCore"}
      BY <2>2, <2>3, <2>4
    <3>2. \A v \in issued' : v.ship = req'[r].ship => v.seq = req'[r].snap.wb
      BY <2>1, <2>5, <3>1 DEF Held
    <3>3. req'[r].ship \in born' /\ Waybill(req'[r].ship, req'[r].snap.wb) \notin voided'
      BY <2>1, <2>5, <3>1
    <3>4. QED
      BY <3>1, <3>2, <3>3 DEF SlotQuiet, User, Held, Waybill, Background
  <2>7. ASSUME NEW t \in Ships PROVE RowQuiet(t)'
    <3>1. CASE t = s
      <4>1. OrderOf[s] \notin RefOnly => Reporting(t)'
        BY <2>3, <2>4, <3>1 DEF Reporting
      <4>2. /\ t \in born' /\ \A v \in issued' : v.ship = t => v.seq = rows'[t].wb
            /\ rows'[t].status = "created"
        BY <2>1, <2>2, <2>4, <2>5, <3>1 DEF Held
      <4>3. QED
        BY <3>1, <4>1, <4>2 DEF RowQuiet, Held
    <3>2. CASE t # s
      <4>1. Keep(t, rows'[t])
        BY <2>4, <3>2, OtherRows
      <4>2. QED
        BY <1>0, <2>1, <3>2, <4>1, RowKept
    <3>3. QED
      BY <3>1, <3>2
  <2>8. TakenBack'
    BY <1>0, <1>a, <2>1 DEF QuietInv, TakenBack, Cancelling
  <2>9. InTurn(r, x)
    BY <1>0, <2>3, <2>5 DEF InTurn
  <2>10. QED
    BY <2>1, <2>6, <2>7, <2>8, <2>9, ReportingMove
<1>2. CASE ShipOrderCore(r)
  <2> DEFINE w == Waybill(s, sh.wb)
             x == [q EXCEPT !.pc = "bgRead"]
  <2>1. /\ q.pc = "shipCore" /\ oc' = oc \cup {w} /\ Goto(r, "bgRead")
        /\ UNCHANGED <<rows, issued, born, voided>>
    BY <1>2, <1>0 DEF ShipOrderCore, q, s, sh
  <2>2. req' = [req EXCEPT ![r] = x] /\ x.pc = "bgRead" /\ x.ship = s /\ x.snap = sh
    BY <1>b, <2>1
  <2> HIDE DEF x, w
  <2>3. req'[r] = x
    BY <1>a, <2>2
  <2>4. User(q) /\ Held(s, sh.wb) /\ w \notin voided
    BY <1>0, <2>1 DEF SlotQuiet, User, Background, w
  <2>5. SlotQuiet(req[r])'
    BY <1>0, <2>1, <2>2, <2>3 DEF SlotQuiet, User, Background, Waybill
  <2>6. ASSUME NEW t \in Ships PROVE RowQuiet(t)'
    <3>1. Keep(t, rows'[t])
      BY <2>1, OtherRows
    <3>2. (t = s /\ rows[t].wb # 0) => Waybill(t, rows[t].wb) \in oc'
      <4>1. (t = s /\ rows[t].wb # 0) => Waybill(t, rows[t].wb) \in issued
        BY DEF NumbersIssued, NumberOf
      <4>2. Waybill(t, rows[t].wb).ship = t /\ Waybill(t, rows[t].wb).seq = rows[t].wb
        BY DEF Waybill
      <4>3. QED
        BY <2>1, <2>4, <4>1, <4>2 DEF Held, w
    <3>3. QED
      BY <1>0, <2>1, <2>2, <3>1, <3>2, RowKept
  <2>7. TakenBack'
    BY <1>0, <1>a, <2>1, <2>2, <2>4 DEF QuietInv, TakenBack, Cancelling
  <2>8. InTurn(r, x)
    BY <1>0, <2>2, <2>4 DEF InTurn
  <2>9. QED
    BY <2>1, <2>2, <2>5, <2>6, <2>7, <2>8, ReportingMove
<1>3. CASE SFCancelOrder(r)
  <2> DEFINE w == Waybill(s, sh.wb)
             x == [q EXCEPT !.pc = "cancelSave"]
  <2>1. q.pc = "sfCancel" /\ UNCHANGED <<rows, issued, born, oc>>
    BY <1>3 DEF SFCancelOrder, q
  <2>2. CASE Return(r) /\ UNCHANGED voided
    BY <1>0, <2>1, <2>2, QuietReturn, SameRows
  <2>3. CASE voided' = voided \cup {w} /\ Goto(r, "cancelSave")
    <3>1. req' = [req EXCEPT ![r] = x] /\ x.pc = "cancelSave" /\ x.ship = s /\ x.snap = sh
      BY <1>b, <2>3
    <3>2. w.ship = s /\ w.seq = sh.wb
      BY DEF Waybill
    <3> HIDE DEF x
    <3>3. req'[r] = x
      BY <1>a, <3>1
    <3>4. User(q)
      BY <2>1 DEF User, Background
    <3>5. SlotQuiet(req[r])'
      <4>1. /\ Waybill(req'[r].ship, req'[r].snap.wb) \in voided'
            /\ \A v \in issued' : v.ship = req'[r].ship => v.seq = req'[r].snap.wb
            /\ req'[r].ship \in born'
        BY <1>0, <2>1, <2>3, <3>1, <3>3, <3>4 DEF SlotQuiet, Held
      <4>2. /\ req'[r].snap.status \in {"draft", "failed"} => req'[r].snap.wb = 0
            /\ req'[r].pc = "cancelSave"
        BY <1>0, <3>1, <3>3 DEF SlotQuiet
      <4>3. QED
        BY <4>1, <4>2 DEF SlotQuiet, Held, Waybill
    <3>6. ASSUME NEW t \in Ships PROVE RowQuiet(t)'
      <4>1. Keep(t, rows'[t])
        BY <2>1, OtherRows
      <4>2. QED
        BY <1>0, <2>1, <2>3, <3>1, <4>1, RowKept
    <3>7. TakenBack'
      <4>1. SUFFICES ASSUME NEW v \in oc, v \in voided'
                     PROVE  \E p \in Reqs : Cancelling(v, req'[p])
        BY <2>1 DEF TakenBack, Cancelling
      <4>2. CASE v = w
        BY <3>1, <3>2, <3>3, <4>2 DEF Cancelling
      <4>3. CASE v \in voided
        <5>1. PICK p \in Reqs : Cancelling(v, req[p])
          BY <4>3 DEF QuietInv, TakenBack
        <5>2. req'[p] = req[p]
          BY <1>0, <1>a, <2>1, <3>1, <5>1 DEF Cancelling
        <5>3. QED
          BY <5>1, <5>2
      <4>4. QED
        BY <2>3, <4>1, <4>2, <4>3
    <3>8. InTurn(r, x)
      BY <1>0, <3>1, <3>4 DEF InTurn
    <3>9. \A v \in voided' : v \in voided \/ (v.ship = req[r].ship /\ User(req[r]))
      BY <1>0, <2>3, <3>2, <3>4
    <3>10. QED
      BY <2>1, <2>3, <3>1, <3>5, <3>6, <3>7, <3>8, <3>9, ReportingMove
  <2>4. QED
    BY <1>0, <1>3, <2>2, <2>3 DEF SFCancelOrder, q, s, sh
<1>4. CASE CancelSave(r)
  <2> DEFINE row == [sh EXCEPT !.status = "cancelled"]
             x == [q EXCEPT !.pc = "unship", !.snap = row]
  <2>1. /\ q.pc = "cancelSave" /\ rows' = [rows EXCEPT ![s] = row]
        /\ req' = [req EXCEPT ![r] = x] /\ UNCHANGED <<issued, born, voided, oc>>
    BY <1>4, <1>0 DEF CancelSave, Save, q, s, sh
  <2>2. row.status = "cancelled" /\ row.wb = sh.wb
    BY <1>0 DEF Row
  <2> HIDE DEF row
  <2>3. x.pc = "unship" /\ x.ship = s /\ x.snap = row
    BY <1>0 DEF Request
  <2> HIDE DEF x
  <2>4. req'[r] = x /\ rows'[s] = row /\ \A t \in Ships : t # s => rows'[t] = rows[t]
    BY <1>0, <1>a, <2>1
  <2>5. /\ User(q) /\ s \in born /\ Held(s, sh.wb)
        /\ sh.wb # 0 => Waybill(s, sh.wb) \in voided
    BY <1>0, <2>1 DEF SlotQuiet, User, Background
  <2>6. SlotQuiet(req[r])'
    <3>1. /\ req'[r].ship = s /\ req'[r].snap.wb = sh.wb /\ req'[r].snap.status = "cancelled"
          /\ req'[r].pc = "unship"
      BY <2>2, <2>3, <2>4
    <3>2. \A v \in issued' : v.ship = req'[r].ship => v.seq = req'[r].snap.wb
      BY <2>1, <2>5, <3>1 DEF Held
    <3>3. /\ req'[r].ship \in born'
          /\ req'[r].snap.wb # 0 => Waybill(req'[r].ship, req'[r].snap.wb) \in voided'
      BY <2>1, <2>5, <3>1
    <3>4. QED
      BY <3>1, <3>2, <3>3 DEF SlotQuiet, Held, Waybill
  <2>7. ASSUME NEW t \in Ships PROVE RowQuiet(t)'
    <3>1. CASE t = s
      <4>1. /\ t \in born' /\ \A v \in issued' : v.ship = t => v.seq = rows'[t].wb
            /\ rows'[t].status = "cancelled"
            /\ rows'[t].wb # 0 => Waybill(t, rows'[t].wb) \in voided'
        BY <2>1, <2>2, <2>4, <2>5, <3>1 DEF Held
      <4>2. QED
        BY <4>1 DEF RowQuiet, Held, Waybill
    <3>2. CASE t # s
      <4>1. Keep(t, rows'[t])
        BY <2>4, <3>2, OtherRows
      <4>2. QED
        BY <1>0, <2>1, <3>2, <4>1, RowKept
    <3>3. QED
      BY <3>1, <3>2
  <2>8. TakenBack'
    <3>1. \A v : Cancelling(v, q) => Cancelling(v, x)
      BY <1>0, <2>2, <2>3 DEF Cancelling
    <3>2. \A v, p : (p \in Reqs /\ Cancelling(v, req[p])) => Cancelling(v, req'[p])
      BY <1>0, <1>a, <2>1, <3>1
    <3>3. QED
      BY <2>1, <3>2 DEF QuietInv, TakenBack, Cancelling
  <2>9. InTurn(r, x)
    BY <1>0, <2>3, <2>5 DEF InTurn
  <2>10. QED
    BY <2>1, <2>6, <2>7, <2>8, <2>9, ReportingMove
<1>5. CASE UnshipOrderCore(r)
  <2> DEFINE w == Waybill(s, sh.wb)
  <2>1. /\ q.pc = "unship" /\ oc' = oc \ {w} /\ Return(r)
        /\ UNCHANGED <<rows, issued, born, voided>>
    BY <1>5, <1>0 DEF UnshipOrderCore, q, s, sh
  <2>2. w.ship = s /\ w.seq = sh.wb
    BY DEF Waybill
  <2>3. w \in oc => w \in voided
    <3>1. w \in oc => sh.wb # 0
      BY <2>2 DEF TypeInv, TypeOK, Waybills
    <3>2. QED
      BY <1>0, <2>1, <3>1 DEF SlotQuiet
  <2>4. req' = [req EXCEPT ![r] = Idle] /\ InTurn(r, Idle)
    BY <2>1, Finished DEF Return
  <2>5. req'[r] = Idle /\ Idle.pc = "idle" /\ Idle.snap.status = "absent"
    BY <1>a, <2>4 DEF Idle, NoRow
  <2>6. SlotQuiet(req[r])'
    BY <2>5 DEF SlotQuiet, User, Background
  <2>7. ASSUME NEW t \in Ships PROVE RowQuiet(t)'
    <3>1. Keep(t, rows'[t])
      BY <2>1, OtherRows
    <3>2. QED
      BY <1>0, <2>1, <2>3, <2>4, <3>1, RowKept
  <2>8. TakenBack'
    <3>1. SUFFICES ASSUME NEW v \in oc', v \in voided
                   PROVE  \E p \in Reqs : Cancelling(v, req'[p])
      BY <2>1 DEF TakenBack, Cancelling
    <3>2. v \in oc /\ v # w /\ v = Waybill(v.ship, v.seq)
      BY <2>1 DEF NumbersIssued, LedgerKeys
    <3>3. PICK p \in Reqs : Cancelling(v, req[p])
      BY <3>1, <3>2 DEF QuietInv, TakenBack
    <3>4. p # r
      BY <1>0, <3>2, <3>3 DEF Cancelling
    <3>5. QED
      BY <1>a, <2>4, <3>3, <3>4
  <2>9. \A v \in oc : v \in oc' \cup voided'
    BY <2>1, <2>3
  <2>10. QED
    BY <2>1, <2>4, <2>6, <2>7, <2>8, <2>9, ReportingMove
<1>6. QED
  BY <1>1, <1>2, <1>3, <1>4, <1>5

\* The draft of an order, the kdzs row, and the steps that only touch a row's
\* label and shipping time.
LEMMA QuietOthers ==
  ASSUME Undisturbed, TypeInv, QuietInv,
         \/ \E s \in Ships : CreateFromOrder(s) \/ ArchiveLabelPDF(s)
                             \/ SyncShippedAtByMailNo(s) \/ UpsertKdzsFromSync(s)
         \/ Crash
  PROVE  QuietInv'
<1>0. rows \in [Ships -> Row]
  BY DEF TypeInv, TypeOK
<1>1. ASSUME UNCHANGED <<issued, voided, oc, req>>, born \subseteq born',
             \A t \in Ships : RowQuiet(t)'
      PROVE  QuietInv'
  <2>1. Turns' /\ TakenBack' /\ \A w \in issued' : w.ship \in born'
    BY <1>1 DEF QuietInv, Turns, TakenBack, Cancelling, User
  <2>2. \A r \in Reqs : SlotQuiet(req[r])'
    BY <1>1 DEF QuietInv, SlotQuiet, Held, User, Waybill
  <2>3. QED
    BY <1>1, <2>1, <2>2 DEF QuietInv
<1>2. ASSUME NEW s \in Ships, NEW row, rows' = [rows EXCEPT ![s] = row],
             UNCHANGED <<issued, voided, oc, req>>,
             born' = born \/ (s \notin born /\ born' = born \cup {s}),
             \/ row.wb = rows[s].wb /\ row.status = rows[s].status
             \/ row.wb = 0 /\ s \notin born /\ born' = born \cup {s}
      PROVE  QuietInv'
  <2>1. \A t \in Ships : (Saving(t)' <=> Saving(t)) /\ (Reporting(t)' <=> Reporting(t))
                         /\ \A n : Held(t, n)' <=> Held(t, n)
    BY <1>2 DEF Saving, Reporting, Held
  <2>2. ASSUME NEW t \in Ships, rows'[t].wb = rows[t].wb, rows'[t].status = rows[t].status
        PROVE  RowQuiet(t)'
    BY <1>2, <2>1, <2>2 DEF QuietInv, RowQuiet, Exists, Waybill
  <2>3. ASSUME row.wb = 0, s \notin born, born' = born \cup {s} PROVE RowQuiet(s)'
    <3>1. rows'[s].wb = 0 /\ Held(s, 0)
      BY <1>0, <1>2, <2>3 DEF QuietInv, Held
    <3>2. QED
      BY <2>1, <2>3, <3>1 DEF RowQuiet
  <2>4. \A t \in Ships : RowQuiet(t)'
    BY <1>0, <1>2, <2>2, <2>3
  <2>5. QED
    BY <1>1, <1>2, <2>4
<1>3. ASSUME NEW s \in Ships, CreateFromOrder(s) PROVE QuietInv'
  <2> DEFINE row == [NoRow EXCEPT !.status = "draft"]
  <2>1. row.wb = 0
    BY DEF NoRow
  <2>2. /\ rows' = [rows EXCEPT ![s] = row] /\ UNCHANGED <<issued, voided, oc, req>>
        /\ s \notin born /\ born' = born \cup {s}
    BY <1>3 DEF CreateFromOrder
  <2> HIDE DEF row
  <2>3. QED
    BY <1>2, <2>1, <2>2
<1>4. ASSUME NEW s \in Ships, ArchiveLabelPDF(s) PROVE QuietInv'
  <2> DEFINE row == [rows[s] EXCEPT !.pdf = TRUE]
  <2>1. row.wb = rows[s].wb /\ row.status = rows[s].status
    BY <1>0 DEF Row
  <2>2. /\ rows' = [rows EXCEPT ![s] = row] \/ rows' = [rows EXCEPT ![s] = rows[s]]
        /\ UNCHANGED <<issued, voided, oc, req, born>>
    BY <1>0, <1>4 DEF ArchiveLabelPDF
  <2> HIDE DEF row
  <2>3. QED
    BY <1>2, <2>1, <2>2
<1>5. ASSUME NEW s \in Ships, SyncShippedAtByMailNo(s) PROVE QuietInv'
  <2> DEFINE row == [rows[s] EXCEPT !.shippedAt = "synced"]
  <2>1. row.wb = rows[s].wb /\ row.status = rows[s].status
    BY <1>0 DEF Row
  <2>2. rows' = [rows EXCEPT ![s] = row] /\ UNCHANGED <<issued, voided, oc, req, born>>
    BY <1>0, <1>5 DEF SyncShippedAtByMailNo
  <2> HIDE DEF row
  <2>3. QED
    BY <1>2, <2>1, <2>2
<1>6. ASSUME NEW s \in Ships, UpsertKdzsFromSync(s) PROVE QuietInv'
  <2> DEFINE old == [rows[s] EXCEPT !.shippedAt = "synced",
                                    !.printed = IF s \in KdzsShips THEN FALSE ELSE @]
             new == [NoRow EXCEPT !.status = "printed", !.shippedAt = "synced"]
  <2>1. /\ UNCHANGED <<issued, voided, oc, req>>
        /\ \/ rows' = [rows EXCEPT ![s] = old] /\ born' = born
           \/ rows' = [rows EXCEPT ![s] = new] /\ s \notin born /\ born' = born \cup {s}
    BY <1>0, <1>6 DEF UpsertKdzsFromSync
  <2>2. new.wb = 0 /\ old.wb = rows[s].wb /\ old.status = rows[s].status
    BY <1>0 DEF Row, NoRow
  <2> HIDE DEF old, new
  <2>3. QED
    BY <1>2, <2>1, <2>2
<1>7. QED
  BY <1>3, <1>4, <1>5, <1>6 DEF Crash, Undisturbed

LEMMA QuietNext ==
  ASSUME Undisturbed, TypeInv, NumbersIssued, LedgerInv, QuietInv, [Next]_vars
  PROVE  QuietInv'
<1>1. CASE UNCHANGED vars
  BY <1>1 DEF vars, QuietInv, Turns, RowQuiet, SlotQuiet, TakenBack, Cancelling, Exists, User,
     Held, Saving, Reporting, Waybill
<1>2. ASSUME NEW r \in Reqs, Step(r) PROVE QuietInv'
  BY <1>2, QuietCreateOrder, QuietPlain, QuietReporting DEF Step, LedgerInv
<1>3. QED
  BY <1>1, <1>2, QuietCall, QuietOthers DEF Next

LEMMA QuietInit == Init => QuietInv
<1>1. Init => \A r \in Reqs : req[r] = Idle /\ ~User(req[r])
  BY DEF Init, User, Background, Idle
<1>2. Init => \A s \in Ships : RowQuiet(s)
  BY DEF Init, RowQuiet, Exists, NoRow
<1>3. Init => \A r \in Reqs : SlotQuiet(req[r])
  BY <1>1, Finished
<1>4. QED
  BY <1>1, <1>2, <1>3 DEF Init, QuietInv, Turns, TakenBack

LEMMA QuietCorrect ==
  ASSUME Undisturbed
  PROVE  Spec => [](TypeInv /\ NumbersIssued /\ QuietInv)
<1>1. TypeInv /\ NumbersIssued /\ LedgerInv /\ QuietInv /\ [Next]_vars => QuietInv'
  BY QuietNext
<1>2. QED
  BY <1>1, QuietInit, LedgerCorrect, PTL DEF Spec

\* While users take turns and no answer or write is lost, every order SF took
\* is on the row of its shipment as soon as no request works on it, unless the
\* sales order was deleted meanwhile: CreateWaybill leaves no waybill behind.
THEOREM NoWaybillLeftBehind ==
  ASSUME Undisturbed
  PROVE  Spec => []NoOrphanWaybill
<1>1. TypeInv /\ NumbersIssued /\ QuietInv => NoOrphanWaybill
  <2> SUFFICES ASSUME TypeInv, QuietInv, NEW w \in issued \ voided, ~Busy(w.ship), Exists(w.ship)
               PROVE  rows[w.ship].wb = w.seq
    BY DEF NoOrphanWaybill
  <2>1. w.ship \in Ships
    BY DEF TypeInv, TypeOK, Waybills
  <2>2. ~Saving(w.ship)
    BY DEF Busy, Saving, Background
  <2>3. QED
    BY <2>1, <2>2 DEF QuietInv, RowQuiet, Held
<1>2. QED
  BY <1>1, QuietCorrect, PTL

\* Under the same conditions OrderCore lists the waybills that live and only
\* those: what CreateWaybill reported, Cancel takes back.
THEOREM OrderCoreIsTold ==
  ASSUME Undisturbed
  PROVE  Spec => []OrderCoreAgrees
<1>1. TypeInv /\ NumbersIssued /\ QuietInv => OrderCoreAgrees
  <2> SUFFICES ASSUME QuietInv PROVE OrderCoreAgrees
    OBVIOUS
  <2>1. ASSUME NEW w \in oc, w \in voided PROVE Busy(w.ship)
    BY <2>1 DEF QuietInv, TakenBack, Cancelling, Busy, Background
  <2>2. ASSUME NEW s \in Ships, Exists(s), rows[s].wb # 0, ~Busy(s), OrderOf[s] \notin RefOnly
        PROVE  Waybill(s, rows[s].wb) \in oc \cup voided
    <3>1. ~Reporting(s)
      BY <2>2 DEF Busy, Reporting, Background
    <3>2. QED
      BY <2>2, <3>1 DEF QuietInv, RowQuiet
  <2>3. QED
    BY <2>1, <2>2 DEF OrderCoreAgrees
<1>2. QED
  BY <1>1, QuietCorrect, PTL
=============================================================================
