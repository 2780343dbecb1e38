----------------------------- MODULE KdzsConfirm -----------------------------
(***************************************************************************)
(* Shipping one order through kdzs: ConfirmKdzsShip, ConfirmKdzsSplitShip  *)
(* and UpsertKdzsFromSync of internal/service/shipment_service.go.         *)
(*                                                                         *)
(* A confirmation looks for a shipment with the express number, reports    *)
(* the parcel to OrderCore, then inserts the shipment and takes its goods  *)
(* off the order's ship plan.  Users send it again when no answer came,    *)
(* the print poll sends it on its own, and OrderCore pushes the parcels it *)
(* learned of from kdzs, all without a lock.  Everything here belongs to   *)
(* one order: the model has one.                                           *)
(***************************************************************************)
EXTENDS Integers, Sequences, FiniteSetsExt

CONSTANTS
  Nos,        \* express numbers
  SFNos,      \* those among them that SF gave to a shipment of the order
  Total,      \* pieces the order has to ship, as OrderCore knows
  Planned,    \* pieces of the order's ship plan line
  Calls,      \* by overlap: the confirmations users and the print poll send
  Reqs,       \* handlers running at the same time
  MaxGroups,  \* bound on shipment groups: split confirmations that are begun
  Faults,     \* the faults a run admits
  Overlaps    \* do handlers interleave, or run one at a time?

AllFaults == {"ocError", "lostReply", "dbError", "crash"}

\* qty 0: a parcel added after everything was shipped, without goods.
Package == [no: Nos, qty: Nat]

ASSUME KdzsAssumption ==
  /\ IsFiniteSet(Nos) /\ SFNos \subseteq Nos
  /\ Total \in Nat /\ Planned \in Nat /\ MaxGroups \in Nat
  /\ DOMAIN Calls = BOOLEAN
  /\ \A c \in Calls[TRUE] \cup Calls[FALSE] :
                      /\ c.kind \in {"confirm", "reship", "split"}
                      /\ c.packages \in Seq(Package) /\ c.packages # <<>>
                      /\ c.kind # "split" => Len(c.packages) = 1
  /\ Faults \subseteq AllFaults
  /\ Overlaps \subseteq BOOLEAN

VARIABLES
  overlap,   \* do the handlers of this behaviour interleave?
  rows,      \* the order's rows in table shipments; a row's id is its place
  groups,    \* rows of table shipment_groups: their number
  core,      \* OrderCore's parcels: express number -> pieces
  left,      \* pieces the plan line still waits for
  req,       \* what each handler is doing
  answered   \* calls that were answered without an error, with their group

vars == <<overlap, rows, groups, core, left, req, answered>>

\* account: made by the SF channel.  Group 0: none.
Shipment == [no: Nos, qty: Nat, reship: BOOLEAN, account: BOOLEAN,
             via: {"sf", "kdzs"}, group: Nat]

Idle == [pc |-> "idle", call |-> <<>>, at |-> 0, id |-> 0, group |-> 0]

Quiet == \A r \in Reqs : req[r].pc = "idle"
MayStart == overlap \/ Quiet

Init ==
  /\ overlap \in Overlaps
  /\ rows = <<>>
  /\ groups = 0
  /\ core = <<>>
  /\ left = Planned
  /\ req = [r \in Reqs |-> Idle]
  /\ answered = {}

Goto(r, pc) == req' = [req EXCEPT ![r].pc = pc]
Fail(r) == req' = [req EXCEPT ![r] = Idle] /\ UNCHANGED answered
Answer(r) ==
  /\ answered' = answered \cup {[call |-> req[r].call, group |-> req[r].group]}
  /\ req' = [req EXCEPT ![r] = Idle]

Kind(r) == req[r].call.kind
Current(r) == req[r].call.packages[req[r].at]
Active(no) == {i \in DOMAIN rows : rows[i].no = no}

\* The next package of a split, or what follows its last one.
Advance(r) ==
  IF req[r].at < Len(req[r].call.packages)
    THEN /\ req' = [req EXCEPT ![r].pc = "find", ![r].at = @ + 1]
         /\ UNCHANGED answered
  ELSE IF Kind(r) = "split" THEN Goto(r, "progress") /\ UNCHANGED answered
  ELSE Answer(r)

-----------------------------------------------------------------------------
(* OrderCore.                                                              *)

Remaining == Total - MapThenSumSet(LAMBDA n : core[n], DOMAIN core)

\* It takes a known number again without counting it twice, or refuses it as
\* shipped already: the code is prepared for both.  No goods: all that is left.
MayTake(no, qty) == no \in DOMAIN core \/ qty <= Remaining
MayRefuse(no, qty) == no \in DOMAIN core \/ qty > Remaining
Taken(no, qty) ==
  [n \in DOMAIN core \cup {no} |->
     IF n \in DOMAIN core THEN core[n] ELSE IF qty = 0 THEN Remaining ELSE qty]

\* A parcel OrderCore learns of by itself, from kdzs or the SF channel.
CoreLearns(no, qty) ==
  /\ no \notin DOMAIN core /\ qty <= Remaining
  /\ core' = Taken(no, qty)
  /\ UNCHANGED <<overlap, rows, groups, left, req, answered>>

\* A shipment of the SF channel gets its number (module ShipmentLifecycle).
SFShipment(no, qty) ==
  /\ no \in SFNos /\ Active(no) = {} /\ MayStart
  /\ rows' = Append(rows, [no |-> no, qty |-> qty, reship |-> FALSE, account |-> TRUE,
                           via |-> "sf", group |-> 0])
  /\ UNCHANGED <<overlap, groups, core, left, req, answered>>

-----------------------------------------------------------------------------
(* ConfirmKdzsShip, alone or for each package of ConfirmKdzsSplitShip.     *)

Begin(r, c, group) ==
  req' = [req EXCEPT ![r] = [pc |-> "find", call |-> c, at |-> 1, id |-> 0, group |-> group]]

BeginConfirm(r, c) ==
  /\ req[r].pc = "idle" /\ MayStart
  /\ c.kind # "split"
  /\ Begin(r, c, 0)
  /\ UNCHANGED <<overlap, rows, groups, core, left, answered>>

\* A split confirmation makes a group of its own, whatever follows.
CreateShipmentGroup(r, c) ==
  /\ req[r].pc = "idle" /\ MayStart
  /\ c.kind = "split"
  /\ groups < MaxGroups
  /\ groups' = groups + 1
  /\ Begin(r, c, groups + 1)
  /\ UNCHANGED <<overlap, rows, core, left, answered>>

\* Seeded bug: the number is not looked up.
FindNothing(r) ==
  /\ req[r].pc = "find"
  /\ Goto(r, "ship")
  /\ UNCHANGED <<overlap, rows, groups, core, left, answered>>

\* A reshipment needs a number of its own.
findActiveKdzsShipment(r) ==
  LET same == Active(Current(r).no) IN
  /\ req[r].pc = "find"
  /\ \/ same = {} /\ Goto(r, "ship") /\ UNCHANGED answered
     \/ same # {} /\ Kind(r) = "reship" /\ Fail(r)
     \/ /\ same # {} /\ Kind(r) # "reship"
        /\ req' = [req EXCEPT ![r].pc = "again", ![r].id = Min(same)]
        /\ UNCHANGED answered
  /\ UNCHANGED <<overlap, rows, groups, core, left>>

\* What is reported: the goods of the parcel, of the existing shipment when
\* there is one, and none for a reshipment.
Reported(r) ==
  IF req[r].pc = "again"
    THEN IF rows[req[r].id].reship THEN 0 ELSE rows[req[r].id].qty
    ELSE IF Kind(r) = "reship" THEN 0 ELSE Current(r).qty

\* Seeded bug: a failed report does not stop the confirmation.
ShipAnyway(r) ==
  LET no == Current(r).no IN
  /\ req[r].pc \in {"ship", "again"}
  /\ Goto(r, IF req[r].pc = "again" THEN "update" ELSE "insert")
  /\ \/ MayTake(no, Reported(r)) /\ core' = Taken(no, Reported(r))
     \/ UNCHANGED core
  /\ UNCHANGED <<overlap, rows, groups, left, answered>>

\* A refusal as shipped already ends the confirmation of a known shipment well,
\* before its group is looked at.
shipOrderCore(r) ==
  LET no == Current(r).no
      again == req[r].pc = "again" IN
  /\ req[r].pc \in {"ship", "again"}
  /\ \/ /\ MayTake(no, Reported(r))
        /\ core' = Taken(no, Reported(r))
        /\ \/ Goto(r, IF again THEN "update" ELSE "insert") /\ UNCHANGED answered
           \/ "lostReply" \in Faults /\ Fail(r)
     \/ /\ MayRefuse(no, Reported(r))
        /\ IF again THEN Advance(r) ELSE Fail(r)
        /\ UNCHANGED core
     \/ "ocError" \in Faults /\ Fail(r) /\ UNCHANGED core
  /\ UNCHANGED <<overlap, rows, groups, left>>

\* Seeded bug: the goods of a known shipment are counted again.
UpdateCountsAgain(r) ==
  /\ req[r].pc = "update"
  /\ Goto(r, "progress")
  /\ UNCHANGED <<overlap, rows, groups, core, left, answered>>

\* The shipment that exists joins the group of this call; an error is ignored.
UpdateExisting(r) ==
  /\ req[r].pc = "update"
  /\ \/ rows' = [rows EXCEPT ![req[r].id].group = IF req[r].group = 0 THEN @ ELSE req[r].group]
     \/ "dbError" \in Faults /\ UNCHANGED rows
  /\ Advance(r)
  /\ UNCHANGED <<overlap, groups, core, left>>

\* Seeded bug: a failed insert does not stop the confirmation.
InsertIgnoresErrors(r) ==
  /\ req[r].pc = "insert"
  /\ \/ rows' = Append(rows,
             [no |-> Current(r).no, qty |-> Current(r).qty, reship |-> FALSE,
              account |-> FALSE, via |-> "kdzs", group |-> req[r].group])
     \/ "dbError" \in Faults /\ UNCHANGED rows
  /\ Advance(r)
  /\ UNCHANGED <<overlap, groups, core, left>>

\* The packages of a split carry no plan lines: those are counted at its end.
InsertShipment(r) ==
  /\ req[r].pc = "insert"
  /\ \/ /\ rows' = Append(rows,
             [no |-> Current(r).no, qty |-> Current(r).qty, reship |-> Kind(r) = "reship",
              account |-> FALSE, via |-> "kdzs", group |-> req[r].group])
        /\ IF Kind(r) = "split" THEN Advance(r) ELSE Goto(r, "progress") /\ UNCHANGED answered
     \/ "dbError" \in Faults /\ Fail(r) /\ UNCHANGED rows
  /\ UNCHANGED <<overlap, groups, core, left>>

Pieces(r) ==
  FoldFunction(LAMBDA p, n : p.qty + n, 0, req[r].call.packages)

\* Takes the goods of this call off the plan line (its two steps, read and
\* write, are those of module ShipPlan); an error is ignored.
ApplyShipPlanProgress(r) ==
  /\ req[r].pc = "progress"
  /\ \/ left' = IF Pieces(r) >= left THEN 0 ELSE left - Pieces(r)
     \/ "dbError" \in Faults /\ UNCHANGED left
  /\ Answer(r)
  /\ UNCHANGED <<overlap, rows, groups, core>>

-----------------------------------------------------------------------------
(* UpsertKdzsFromSync: OrderCore pushes a parcel it has.                   *)

BeginUpsert(r, no) ==
  /\ req[r].pc = "idle" /\ MayStart
  /\ no \in DOMAIN core
  /\ req' = [req EXCEPT ![r] = [Idle EXCEPT
       !.pc = IF Active(no) = {} THEN "upsertNew" ELSE "upsertOld",
       !.call = [kind |-> "upsert", packages |-> <<[no |-> no, qty |-> core[no]]>>],
       !.at = 1, !.id = IF Active(no) = {} THEN 0 ELSE Min(Active(no))]]
  /\ UNCHANGED <<overlap, rows, groups, core, left, answered>>

\* Seeded bug: every synced shipment becomes a kdzs shipment.
UpsertMarksAll(r) ==
  /\ req[r].pc = "upsertOld"
  /\ rows' = [rows EXCEPT ![req[r].id].via = "kdzs"]
  /\ Answer(r)
  /\ UNCHANGED <<overlap, groups, core, left>>

\* A shipment of the SF channel stays one.
UpsertExisting(r) ==
  /\ req[r].pc = "upsertOld"
  /\ \/ /\ rows' = [rows EXCEPT ![req[r].id].via = IF rows[req[r].id].account THEN "sf" ELSE "kdzs"]
        /\ Answer(r)
     \/ "dbError" \in Faults /\ Fail(r) /\ UNCHANGED rows
  /\ UNCHANGED <<overlap, groups, core, left>>

UpsertNew(r) ==
  /\ req[r].pc = "upsertNew"
  /\ \/ /\ rows' = Append(rows, [no |-> Current(r).no, qty |-> Current(r).qty, reship |-> FALSE,
                                 account |-> FALSE, via |-> "kdzs", group |-> 0])
        /\ Answer(r)
     \/ "dbError" \in Faults /\ Fail(r) /\ UNCHANGED rows
  /\ UNCHANGED <<overlap, groups, core, left>>

\* The process stops; the tables and OrderCore stay.
Crash ==
  /\ "crash" \in Faults /\ ~Quiet
  /\ req' = [r \in Reqs |-> Idle]
  /\ UNCHANGED <<overlap, rows, groups, core, left, answered>>

-----------------------------------------------------------------------------
HandlerStep(r) ==
  \/ findActiveKdzsShipment(r) \/ shipOrderCore(r) \/ UpdateExisting(r)
  \/ InsertShipment(r) \/ ApplyShipPlanProgress(r)
  \/ UpsertExisting(r) \/ UpsertNew(r)

Next ==
  \/ \E r \in Reqs :
       \/ \E c \in Calls[overlap] : BeginConfirm(r, c) \/ CreateShipmentGroup(r, c)
       \/ \E no \in Nos : BeginUpsert(r, no)
       \/ HandlerStep(r)
  \/ \E no \in Nos, qty \in 1 .. Total : CoreLearns(no, qty) \/ SFShipment(no, qty)
  \/ Crash

Spec == Init /\ [][Next]_vars

-----------------------------------------------------------------------------
(* Properties.                                                             *)

TypeOK ==
  /\ rows \in Seq(Shipment)
  /\ groups \in 0 .. MaxGroups
  /\ DOMAIN core \subseteq Nos /\ Remaining \in 0 .. Total
  /\ left \in 0 .. Planned
  /\ \A r \in Reqs : req[r].pc \in {"again", "update", "upsertOld"} => req[r].id \in DOMAIN rows

\* The report to OrderCore comes before the insert so that no kdzs shipment
\* exists that OrderCore does not know, whatever fails in between.
NoOrphan == \A i \in DOMAIN rows : ~rows[i].account => rows[i].no \in DOMAIN core

\* An express number has one shipment.
OneShipmentPerNumber == \A no \in Nos : Cardinality(Active(no)) <= 1

\* Sending a confirmation again, or a sync of its parcel, after whatever failed,
\* uses the shipment that exists (ConfirmKdzsShip); of handlers at the same
\* time this is not so.
RepeatsReuse == ~overlap => OneShipmentPerNumber

\* A call answered without an error has done its work: each of its parcels is
\* known to OrderCore and has a shipment.
AnswersHold ==
  \A a \in answered : \A k \in DOMAIN a.call.packages :
    LET no == a.call.packages[k].no IN
    Active(no) # {} /\ (no \in DOMAIN core \/ \E i \in Active(no) : rows[i].account)

\* The plan line never loses more pieces than kdzs shipments were made for.
PlanCountedOnce ==
  Planned - left <=
    FoldFunction(LAMBDA s, n : (IF s.account THEN 0 ELSE s.qty) + n, 0, rows)

\* So it is as long as the order is not split (ConfirmKdzsShip), whatever is
\* sent again; a split confirmation that is repeated takes its goods again.
PlanNotOverdrawn == groups = 0 => PlanCountedOnce

\* The shipments of an answered split are together in the group it returned,
\* until a later split confirmation of the order is answered.
SplitStaysTogether ==
  Quiet => \A a \in answered :
    (a.call.kind = "split" /\ \A b \in answered : b.group <= a.group) =>
      \A k \in DOMAIN a.call.packages :
        \E i \in Active(a.call.packages[k].no) : rows[i].group = a.group

\* A shipment of the SF channel is never relabelled as a kdzs one, which would
\* take its print button away.
SFStaysSF == \A i \in DOMAIN rows : rows[i].account => rows[i].via = "sf"
=============================================================================
