-------------------------- MODULE ShipmentLifecycle --------------------------
(***************************************************************************)
(* The life of the rows of table shipments: ShipmentService of             *)
(* internal/service/shipment_service.go with the three parties it talks to *)
(* (SF Express, OrderCore, the background goroutines it starts).           *)
(*                                                                         *)
(* A handler reads a row (Get), calls SF, and writes the row back.  Nothing*)
(* locks the row in between, so each handler is a request slot that steps  *)
(* from one database or network operation to the next and carries the row  *)
(* as it was read (snap).  gorm's Save(row) writes every column of snap,   *)
(* and inserts the row again when it has been deleted meanwhile;           *)
(* Updates(map) writes only the columns it names, of a row that exists.    *)
(***************************************************************************)
EXTENDS Integers, FiniteSets

CONSTANTS
  Ships,       \* primary keys of table shipments
  Orders,      \* sales orders (OrderCore id, else order number)
  Carriers,    \* carrier accounts (one SF partner each)
  OrderOf,     \* [Ships -> Orders]: the order a shipment is created for
  CarrierOf,   \* [Ships -> Carriers]: the account chosen in CreateFromOrder
  KdzsShips,   \* shipments created by the kdzs channel, not by SF
  RefOnly,     \* orders with neither an OrderCore id nor an order number
  Reqs,        \* handler slots: requests running at the same time
  Ops,         \* the operations a run lets the users call
  Faults,      \* the faults a run admits
  Overlap      \* may two requests work on one shipment at the same time?

AllOps == {"waybill", "print", "plugin", "pdf", "cancel", "delete", "sync"}

\* "ignored": a failure of the one Save whose error the code does not look at.
AllFaults == {"sfReject", "lostReply", "dbError", "ignored", "ocError", "crash"}

ASSUME ShipsAssumption ==
  /\ Ships # {} /\ IsFiniteSet(Ships)
  /\ OrderOf \in [Ships -> Orders]
  /\ CarrierOf \in [Ships -> Carriers]
  /\ KdzsShips \subseteq Ships
  /\ RefOnly \subseteq Orders
  /\ Ops \subseteq AllOps
  /\ Faults \subseteq AllFaults
  /\ Overlap \in BOOLEAN

VARIABLES
  rows,    \* table shipments; status "absent": no such row
  born,    \* ids the table's sequence has handed out
  issued,  \* SF's ledger: the customer orders it accepted, one waybill each
  voided,  \* those of them SF cancelled
  oc,      \* OrderCore: waybills its orders are shipped with
  req,     \* what each handler slot is doing
  jobs     \* shipments with a running archive goroutine

vars == <<rows, born, issued, voided, oc, req, jobs>>

-----------------------------------------------------------------------------
(* Rows, waybills and requests.                                            *)

Statuses == {"absent", "draft", "created", "printed", "failed", "cancelled"}

\* wb stands for mail_no and sf_order_id, which are written together: the
\* sequence number of the SF customer order that gave the waybill, 0 for none.
Row == [status: Statuses, wb: Nat, shippedAt: {"none", "taken", "synced"},
        printed: BOOLEAN, pdf: BOOLEAN]

NoRow == [status |-> "absent", wb |-> 0, shippedAt |-> "none",
          printed |-> FALSE, pdf |-> FALSE]

\* SF knows an order by partner and customer order id {order}-{seq}.
Waybill(s, n) == [order |-> OrderOf[s], carrier |-> CarrierOf[s], seq |-> n, ship |-> s]
Waybills == [order: Orders, carrier: Carriers, seq: Nat \ {0}, ship: Ships]

PCs == {"idle", "number", "call", "saveCreated", "saveFailed", "shipCore",
        "bgRead", "bgPrint", "bgUpdate", "print", "printSave", "plugin",
        "pluginSave", "pdf", "pdfSave", "sfCancel", "cancelSave", "unship", "delete"}

Request == [pc: PCs, ship: Ships, snap: Row, seq: Nat, ids: SUBSET Ships]

Idle == [pc |-> "idle", ship |-> CHOOSE s \in Ships : TRUE, snap |-> NoRow,
         seq |-> 0, ids |-> {}]

Exists(s) == rows[s].status # "absent"

\* mail_no or sf_order_id is set; a kdzs row always has its express number.
HasNumber(s, row) == s \in KdzsShips \/ row.wb # 0

\* A slot is free for shipment s, and unless overlapping requests are
\* admitted no user waits for another request on s.  The print goroutine of
\* CreateWaybill runs after the answer: nobody waits for it.
Background == {"idle", "bgRead", "bgPrint", "bgUpdate"}
Free(r, s) ==
  /\ req[r].pc = "idle"
  /\ Overlap \/ \A q \in Reqs : req[q].ship = s => req[q].pc \in Background

Begin(r, s, pc, snap) ==
  req' = [req EXCEPT ![r] = [pc |-> pc, ship |-> s, snap |-> snap, seq |-> 0, ids |-> {}]]
Goto(r, pc) == req' = [req EXCEPT ![r].pc = pc]
Return(r) == req' = [req EXCEPT ![r] = Idle]

Save(s, row) == rows' = [rows EXCEPT ![s] = row]

-----------------------------------------------------------------------------
Init ==
  /\ rows = [s \in Ships |-> NoRow]
  /\ born = {}
  /\ issued = {}
  /\ voided = {}
  /\ oc = {}
  /\ req = [r \in Reqs |-> Idle]
  /\ jobs = {}

\* The draft row of an order; what it costs the ship plan is in ShipPlan.
CreateFromOrder(s) ==
  /\ s \notin born \cup KdzsShips
  /\ born' = born \cup {s}
  /\ rows' = [rows EXCEPT ![s] = [NoRow EXCEPT !.status = "draft"]]
  /\ UNCHANGED <<issued, voided, oc, req, jobs>>

(* CreateWaybill: read, number, SF, save, OrderCore, background print.     *)

BeginCreateWaybill(r, s) ==
  /\ "waybill" \in Ops
  /\ Free(r, s)
  /\ rows[s].status \in {"draft", "failed"}
  /\ Begin(r, s, "number", rows[s])
  /\ UNCHANGED <<rows, born, issued, voided, oc, jobs>>

\* Seeded bug: the query forgets id <> ?.
CountedWithItself(s) ==
  {t \in Ships : OrderOf[t] = OrderOf[s] /\ Exists(t) /\ HasNumber(t, rows[t])}

\* The other shipments of the order that ever had a number (also cancelled).
Counted(s) ==
  {t \in Ships \ {s} : OrderOf[t] = OrderOf[s] /\ Exists(t) /\ HasNumber(t, rows[t])}

\* Seeded bug: the count is taken for the sequence number.
SeqOffByOne(s) == Cardinality(Counted(s))

nextSFOrderSeq(s) ==
  IF OrderOf[s] \in RefOnly THEN 1 ELSE Cardinality(Counted(s)) + 1

\* A failing COUNT is answered with 1 as well.
ResolveOrderID(r) ==
  /\ req[r].pc = "number"
  /\ \E n \in {nextSFOrderSeq(req[r].ship)} \cup (IF "dbError" \in Faults THEN {1} ELSE {}) :
       req' = [req EXCEPT ![r].pc = "call", ![r].seq = n]
  /\ UNCHANGED <<rows, born, issued, voided, oc, jobs>>

\* SF never accepts a customer order id of a partner twice.
SFAccepts(w) ==
  \A x \in issued : ~(x.order = w.order /\ x.carrier = w.carrier /\ x.seq = w.seq)

SFCreateOrder(r) ==
  LET w == Waybill(req[r].ship, req[r].seq) IN
  /\ req[r].pc = "call"
  /\ \/ /\ SFAccepts(w)
        /\ issued' = issued \cup {w}
        /\ \/ Goto(r, "saveCreated")
           \/ "lostReply" \in Faults /\ Goto(r, "saveFailed")
     \/ /\ ~SFAccepts(w) \/ "sfReject" \in Faults
        /\ Goto(r, "saveFailed")
        /\ UNCHANGED issued
  /\ UNCHANGED <<rows, born, voided, oc, jobs>>

\* Seeded bug: the shipping time is not recorded.
NotMarkedShipped(row) == row

markShipmentShipped(row) ==
  [row EXCEPT !.shippedAt = IF @ = "none" THEN "taken" ELSE @]

\* Seeded bug: the number SF answered is not stored.
SaveCreatedForgetsNumber(r) ==
  LET row == [req[r].snap EXCEPT !.status = "created"] IN
  /\ req[r].pc = "saveCreated"
  /\ Save(req[r].ship, row)
  /\ req' = [req EXCEPT ![r].pc = "bgRead", ![r].snap = row]
  /\ UNCHANGED <<born, issued, voided, oc, jobs>>

\* Seeded bug: OrderCore is not told of the waybill.
SaveCreatedTellsNobody(r) ==
  LET row == markShipmentShipped(
               [req[r].snap EXCEPT !.status = "created", !.wb = req[r].seq]) IN
  /\ req[r].pc = "saveCreated"
  /\ Save(req[r].ship, row)
  /\ req' = [req EXCEPT ![r].pc = "bgRead", ![r].snap = row]
  /\ UNCHANGED <<born, issued, voided, oc, jobs>>

SaveCreated(r) ==
  LET s == req[r].ship
      row == markShipmentShipped(
               [req[r].snap EXCEPT !.status = "created", !.wb = req[r].seq]) IN
  /\ req[r].pc = "saveCreated"
  /\ Save(s, row)
  /\ req' = [req EXCEPT ![r].pc = IF OrderOf[s] \in RefOnly THEN "bgRead" ELSE "shipCore",
                        ![r].snap = row]
  /\ UNCHANGED <<born, issued, voided, oc, jobs>>

\* Seeded bug: the error path stores the number it asked for.
SaveFailedWithNumber(r) ==
  /\ req[r].pc = "saveFailed"
  /\ Save(req[r].ship, [req[r].snap EXCEPT !.status = "failed", !.wb = req[r].seq])
  /\ Return(r)
  /\ UNCHANGED <<born, issued, voided, oc, jobs>>

SaveFailed(r) ==
  /\ req[r].pc = "saveFailed"
  /\ Save(req[r].ship, [req[r].snap EXCEPT !.status = "failed"])
  /\ Return(r)
  /\ UNCHANGED <<born, issued, voided, oc, jobs>>

\* shipOrderCore with callback; on an error the handler returns at once and
\* the print goroutine is never started.
ShipOrderCore(r) ==
  LET w == Waybill(req[r].ship, req[r].snap.wb) IN
  /\ req[r].pc = "shipCore"
  /\ \/ oc' = oc \cup {w} /\ Goto(r, "bgRead")
     \/ "ocError" \in Faults /\ Return(r) /\ UNCHANGED oc
     \/ "lostReply" \in Faults /\ oc' = oc \cup {w} /\ Return(r)
  /\ UNCHANGED <<rows, born, issued, voided, jobs>>

-----------------------------------------------------------------------------
(* Printing: by the goroutine of CreateWaybill (bg...) and by the users.   *)

markShipmentPrinted(row) ==
  [row EXCEPT !.printed = TRUE,
              !.status = IF @ \in {"created", "failed", "draft"} THEN "printed" ELSE @]

BackgroundRead(r) ==
  /\ req[r].pc = "bgRead"
  /\ IF Exists(req[r].ship)
       THEN req' = [req EXCEPT ![r].pc = "bgPrint", ![r].snap = rows[req[r].ship]]
       ELSE Return(r)
  /\ UNCHANGED <<rows, born, issued, voided, oc, jobs>>

BackgroundUpdate(r) ==
  LET s == req[r].ship
      sh == req[r].snap IN
  /\ req[r].pc = "bgUpdate"
  /\ rows' = IF Exists(s)
               THEN [rows EXCEPT ![s].status = sh.status, ![s].printed = sh.printed,
                                 ![s].pdf = sh.pdf]
               ELSE rows
  /\ Return(r)
  /\ UNCHANGED <<born, issued, voided, oc, jobs>>

\* PrintWithCarrier refuses a cancelled shipment; FetchPrintPluginData and
\* FetchLabelPDF do not look at the status.
BeginPrint(r, s, kind) ==
  /\ kind \in Ops
  /\ Free(r, s)
  /\ Exists(s) /\ s \notin KdzsShips /\ rows[s].wb # 0
  /\ kind = "print" => rows[s].status # "cancelled"
  /\ Begin(r, s, kind, rows[s])
  /\ UNCHANGED <<rows, born, issued, voided, oc, jobs>>

\* applyCloudPrint, which starts the archive goroutine before the row is saved.
ApplyCloudPrint(r) ==
  /\ req[r].pc \in {"bgPrint", "print"}
  /\ req[r].snap.wb # 0
  /\ req' = [req EXCEPT ![r].pc = IF @ = "print" THEN "printSave" ELSE "bgUpdate",
                        ![r].snap = markShipmentPrinted(@)]
  /\ jobs' = jobs \cup {req[r].ship}
  /\ UNCHANGED <<rows, born, issued, voided, oc>>

\* The prefetch marks the row printed whether SF answers it or not.
FetchPrintPluginData(r) ==
  /\ req[r].pc = "plugin"
  /\ req' = [req EXCEPT ![r].pc = "pluginSave", ![r].snap = markShipmentPrinted(@)]
  /\ UNCHANGED <<rows, born, issued, voided, oc, jobs>>

\* The PDF is fetched, and stored unless the upload fails.
FetchLabelPDF(r) ==
  /\ req[r].pc = "pdf"
  /\ \E stored \in {TRUE, req[r].snap.pdf} :
       req' = [req EXCEPT ![r].pc = "pdfSave",
                          ![r].snap = [markShipmentPrinted(@) EXCEPT !.pdf = stored]]
  /\ UNCHANGED <<rows, born, issued, voided, oc, jobs>>

\* FetchPrintPluginData goes on when its Save fails.
SavePrinted(r) ==
  /\ req[r].pc \in {"printSave", "pluginSave", "pdfSave"}
  /\ \/ Save(req[r].ship, req[r].snap)
     \/ "ignored" \in Faults /\ req[r].pc = "pluginSave" /\ UNCHANGED rows
  /\ jobs' = IF req[r].pc = "pluginSave" THEN jobs \cup {req[r].ship} ELSE jobs
  /\ Return(r)
  /\ UNCHANGED <<born, issued, voided, oc>>

\* The archive goroutine: writes label_pdf_url of a row that still exists, or
\* gives up after its six attempts.
ArchiveLabelPDF(s) ==
  /\ s \in jobs
  /\ jobs' = jobs \ {s}
  /\ \/ Exists(s) /\ HasNumber(s, rows[s]) /\ rows' = [rows EXCEPT ![s].pdf = TRUE]
     \/ UNCHANGED rows
  /\ UNCHANGED <<born, issued, voided, oc, req>>

-----------------------------------------------------------------------------
(* Cancel.                                                                 *)

BeginCancel(r, s) ==
  /\ "cancel" \in Ops
  /\ Free(r, s)
  /\ Exists(s) /\ s \notin KdzsShips
  /\ Begin(r, s, IF rows[s].status = "cancelled" THEN "unship"
                 ELSE IF rows[s].status = "draft" \/ rows[s].wb = 0 THEN "cancelSave"
                 ELSE "sfCancel", rows[s])
  /\ UNCHANGED <<rows, born, issued, voided, oc, jobs>>

\* Seeded bug: SF's refusal to cancel is ignored.
SFCancelIgnoresRefusal(r) ==
  /\ req[r].pc = "sfCancel"
  /\ voided' \in {voided, voided \cup {Waybill(req[r].ship, req[r].snap.wb)}}
  /\ Goto(r, "cancelSave")
  /\ UNCHANGED <<rows, born, issued, oc, jobs>>

\* SF may refuse, and may refuse a second cancellation of the same order.
SFCancelOrder(r) ==
  LET w == Waybill(req[r].ship, req[r].snap.wb) IN
  /\ req[r].pc = "sfCancel"
  /\ \/ voided' = voided \cup {w} /\ Goto(r, "cancelSave")
     \/ "lostReply" \in Faults /\ voided' = voided \cup {w} /\ Return(r)
     \/ ("sfReject" \in Faults \/ w \in voided) /\ Return(r) /\ UNCHANGED voided
  /\ UNCHANGED <<rows, born, issued, oc, jobs>>

CancelSave(r) ==
  LET row == [req[r].snap EXCEPT !.status = "cancelled"] IN
  /\ req[r].pc = "cancelSave"
  /\ Save(req[r].ship, row)
  /\ req' = [req EXCEPT ![r].pc = "unship", ![r].snap = row]
  /\ UNCHANGED <<born, issued, voided, oc, jobs>>

\* A no-op without a number or without an OrderCore order.
UnshipOrderCore(r) ==
  LET s == req[r].ship
      w == Waybill(s, req[r].snap.wb) IN
  /\ req[r].pc = "unship"
  /\ \/ oc' = oc \ {w}
     \/ "ocError" \in Faults /\ UNCHANGED oc
  /\ Return(r)
  /\ UNCHANGED <<rows, born, issued, voided, jobs>>

-----------------------------------------------------------------------------
(* DeleteByOrderCore and the two time alignments OrderCore calls.          *)

BeginDelete(r, o) ==
  /\ "delete" \in Ops
  /\ req[r].pc = "idle"
  /\ LET ids == {s \in Ships : OrderOf[s] = o /\ Exists(s)} IN
       /\ ids # {}
       /\ Overlap \/ \A q \in Reqs : req[q].ship \in ids => req[q].pc \in Background
       /\ req' = [req EXCEPT ![r] = [Idle EXCEPT !.pc = "delete", !.ids = ids]]
  /\ UNCHANGED <<rows, born, issued, voided, oc, jobs>>

DeleteRows(r) ==
  /\ req[r].pc = "delete"
  /\ rows' = [s \in Ships |-> IF s \in req[r].ids THEN NoRow ELSE rows[s]]
  /\ Return(r)
  /\ UNCHANGED <<born, issued, voided, oc, jobs>>

\* One UPDATE; printed_at is left alone.
SyncShippedAtByMailNo(s) ==
  /\ "sync" \in Ops
  /\ rows[s].status \notin {"absent", "cancelled"} /\ HasNumber(s, rows[s])
  /\ rows' = [rows EXCEPT ![s].shippedAt = "synced"]
  /\ UNCHANGED <<born, issued, voided, oc, req, jobs>>

\* Finds the active row of the number, and aligns it by its channel, or
\* creates the kdzs row.
UpsertKdzsFromSync(s) ==
  /\ "sync" \in Ops
  /\ \/ /\ rows[s].status \notin {"absent", "cancelled"} /\ HasNumber(s, rows[s])
        /\ rows' = [rows EXCEPT ![s].shippedAt = "synced",
                                ![s].printed = IF s \in KdzsShips THEN FALSE ELSE @]
        /\ UNCHANGED born
     \/ /\ s \in KdzsShips \ born
        /\ born' = born \cup {s}
        /\ rows' = [rows EXCEPT ![s] = [NoRow EXCEPT !.status = "printed",
                                                     !.shippedAt = "synced"]]
  /\ UNCHANGED <<issued, voided, oc, req, jobs>>

-----------------------------------------------------------------------------
(* Failures.                                                               *)

\* The returns that leave everything as it is: the carrier account is gone
\* or disabled, SF answers a print call with an error, a Save fails.
ErrorReturn(r) ==
  /\ \/ req[r].pc \in {"number", "bgRead", "bgPrint", "print", "plugin", "pdf",
                        "sfCancel"}
     \/ /\ "dbError" \in Faults
        /\ req[r].pc \in {"saveCreated", "saveFailed", "bgUpdate", "printSave", "pdfSave",
                          "cancelSave", "delete"}
  /\ Return(r)
  /\ UNCHANGED <<rows, born, issued, voided, oc, jobs>>

\* The process stops: requests and goroutines are gone, the tables stay.
Crash ==
  /\ "crash" \in Faults
  /\ \E r \in Reqs : req[r] # Idle
  /\ req' = [r \in Reqs |-> Idle]
  /\ jobs' = {}
  /\ UNCHANGED <<rows, born, issued, voided, oc>>

-----------------------------------------------------------------------------
Step(r) ==
  \/ ResolveOrderID(r) \/ SFCreateOrder(r) \/ SaveCreated(r) \/ SaveFailed(r)
  \/ ShipOrderCore(r) \/ BackgroundRead(r) \/ BackgroundUpdate(r)
  \/ ApplyCloudPrint(r) \/ FetchPrintPluginData(r) \/ FetchLabelPDF(r) \/ SavePrinted(r)
  \/ SFCancelOrder(r) \/ CancelSave(r) \/ UnshipOrderCore(r) \/ DeleteRows(r)
  \/ ErrorReturn(r)

Call(r) ==
  \/ \E s \in Ships : BeginCreateWaybill(r, s) \/ BeginCancel(r, s)
  \/ \E s \in Ships, kind \in {"print", "plugin", "pdf"} : BeginPrint(r, s, kind)
  \/ \E o \in Orders : BeginDelete(r, o)

Next ==
  \/ \E r \in Reqs : Call(r) \/ Step(r)
  \/ \E s \in Ships : CreateFromOrder(s) \/ ArchiveLabelPDF(s)
                      \/ SyncShippedAtByMailNo(s) \/ UpsertKdzsFromSync(s)
  \/ Crash

Spec == Init /\ [][Next]_vars

-----------------------------------------------------------------------------
(* Properties.                                                             *)

\* Every variable keeps its type; a slot's snapshot is a row as it was read.
TypeOK ==
  /\ rows \in [Ships -> Row]
  /\ born \subseteq Ships
  /\ issued \subseteq Waybills
  /\ voided \subseteq Waybills
  /\ oc \subseteq Waybills
  /\ req \in [Reqs -> Request]
  /\ jobs \subseteq Ships

\* Rows and snapshots that carry a number.
NumberOf(s, row) == row.wb # 0 => Waybill(s, row.wb) \in issued

\* A waybill number in the table, in a handler's hands, in OrderCore or among
\* the cancelled ones is one SF issued for that very shipment: stale whole-row
\* writes never mix the number of one order into another's row.
NumbersIssued ==
  /\ \A s \in Ships : NumberOf(s, rows[s])
  /\ \A r \in Reqs : NumberOf(req[r].ship, req[r].snap)
  /\ \A r \in Reqs : req[r].pc = "saveCreated" => Waybill(req[r].ship, req[r].seq) \in issued
  /\ oc \subseteq issued
  /\ voided \subseteq issued

\* The shipping time is the time the number was taken (markShipmentShipped) or
\* OrderCore's: no interleaving of stale saves leaves one without the other.
ShippedIffNumbered ==
  \A s \in Ships : Exists(s) => (HasNumber(s, rows[s]) <=> rows[s].shippedAt # "none")

\* An order all of whose shipments go through one SF account.
OneAccount(o) ==
  /\ \A s \in Ships : OrderOf[s] = o => s \notin KdzsShips
  /\ \A s, t \in Ships : (OrderOf[s] = o /\ OrderOf[t] = o) => CarrierOf[s] = CarrierOf[t]

\* The customer order numbers SF has accepted for order o.
Taken(o) == {w.seq : w \in {x \in issued : x.order = o}}

\* A number is only tried when every lower one of the order has been used:
\* the sequence {order}, {order}-2, {order}-3 has no gaps (nextSFOrderSeq).
NoGaps ==
  \A o \in Orders : OneAccount(o) =>
    \A r \in Reqs : (OrderOf[req[r].ship] = o /\ req[r].pc = "call") =>
      1 .. (req[r].seq - 1) \subseteq Taken(o)

\* However often CreateWaybill is called, retried after a lost answer or a
\* crash, or called twice at once, a shipment gets at most one SF order: SF
\* refuses the second, because the count that makes the customer order id
\* leaves the shipment itself out.
SingleWaybill ==
  \A w, x \in issued : (w.ship = x.ship /\ OneAccount(w.order)) => w = x

\* A shipment the table calls cancelled and numbered is cancelled at SF too,
\* whatever stale status a print or a background update wrote in between.
CancelledIsVoided ==
  \A s \in Ships :
    (OneAccount(OrderOf[s]) /\ rows[s].status = "cancelled" /\ rows[s].wb # 0)
      => Waybill(s, rows[s].wb) \in voided

\* A user request (not the print goroutine) is working on shipment s.
Busy(s) ==
  \E r \in Reqs :
    (req[r].ship = s /\ req[r].pc \notin Background) \/ s \in req[r].ids

\* Without faults and overlapping requests every live SF order is on the row
\* it was created for, unless the sales order was deleted meanwhile.
NoOrphanWaybill ==
  \A w \in issued \ voided :
    ~Busy(w.ship) => ~Exists(w.ship) \/ rows[w.ship].wb = w.seq

\* While no request works on a shipment, OrderCore lists its waybill if it lives
\* and does not if it was cancelled: what CreateWaybill reported, Cancel takes back.
OrderCoreAgrees ==
  /\ \A w \in oc : w \in voided => Busy(w.ship)
  /\ \A s \in Ships :
       (Exists(s) /\ rows[s].wb # 0 /\ ~Busy(s) /\ OrderOf[s] \notin RefOnly)
         => Waybill(s, rows[s].wb) \in oc \cup voided

\* What the cancel dialog says (the waybill becomes void): once the table says
\* cancelled, the shipment never turns back into a printed one.
CancelledStaysCancelled ==
  [][\A s \in Ships : rows[s].status = "cancelled" => rows'[s].status \in {"cancelled", "absent"}]_vars

\* What the model's comment says of shipped_at: printing again never changes it.
ReprintKeepsShippedAt ==
  [][\A r \in Reqs : SavePrinted(r) =>
       \A s \in Ships : Exists(s) => rows'[s].shippedAt = rows[s].shippedAt]_vars

\* What nextSFOrderSeq's comment says it counts: shipments that took a number
\* from SF; so no number beyond the orders SF accepted plus one.
CountsOnlySFNumbers ==
  \A r \in Reqs : req[r].pc = "call" =>
    req[r].seq <= 1 + Cardinality({w \in issued : w.order = OrderOf[req[r].ship]})

\* What resolveSFCustomerOrderID's comment says: a shipment made after a
\* cancelled one of the same order asks SF for a number of its own.
ReshipTakesNewNumber ==
  \A r \in Reqs : req[r].pc = "call" =>
    \A w \in voided : w.order = OrderOf[req[r].ship] => w.seq # req[r].seq

-----------------------------------------------------------------------------
(* The lifecycle implements the ledger of WaybillLedger, for the shipments *)
(* of orders that go through one account.                                  *)

LedgerShips == {s \in Ships : OneAccount(OrderOf[s])}

LedgerOf(s) ==
  [accepted |-> {w.seq : w \in {x \in issued : x.ship = s}},
   cancelled |-> {w.seq : w \in {x \in voided : x.ship = s}}]

Ledger == INSTANCE WaybillLedger
            WITH Shipments <- LedgerShips, ledger <- [s \in LedgerShips |-> LedgerOf(s)]

\* Each shipment is ordered from SF at most once and stays cancelled once it
\* was cancelled there, over every interleaving, fault and crash.
PaidAtMostOnce == Ledger!LedgerSpec
=============================================================================
