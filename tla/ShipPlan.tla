------------------------------- MODULE ShipPlan -------------------------------
(***************************************************************************)
(* The ship plan of one order: internal/service/ship_plan_service.go.      *)
(*                                                                         *)
(* PutShipPlan replaces the lines that still wait, then tells OrderCore,   *)
(* which keeps a split item for each line, and writes the split items back *)
(* to the lines.  A shipment that was made takes its pieces off the lines  *)
(* it names (applyShipPlanProgress), by reading them and writing each one. *)
(***************************************************************************)
EXTENDS Integers, Sequences, FiniteSetsExt

CONSTANTS
  Plans,     \* the plans users save: sequences of quantities, one per line
  MaxLines,  \* bound on the lines ever created, on a calm day and on another
  MaxPieces, \* bound on the pieces one shipment takes off one line
  MaxOver,   \* bound on the pieces shipments take of a line beyond its plan
  Reqs,      \* handlers running at the same time
  Faults,    \* the faults a run admits
  Calms      \* are handlers calm (one at a time, never cut off in the database)?

CalmFaults == {"ocError", "lostReply"}
AllFaults == CalmFaults \cup {"dbError", "crash"}

ASSUME ShipPlanAssumption ==
  /\ Plans \subseteq Seq(Nat \ {0})
  /\ MaxLines \in [BOOLEAN -> Nat] /\ MaxPieces \in Nat \ {0} /\ MaxOver \in Nat
  /\ Faults \subseteq AllFaults
  /\ Calms \subseteq BOOLEAN

VARIABLES
  calm,     \* is this a calm day?
  lines,    \* table ship_plan_lines of the order; a line's id is its place
  split,    \* lines OrderCore has a split item for
  reported, \* those of them whose goods OrderCore was told to be shipped
  taken,    \* pieces shipments took of each line
  req,      \* what each handler is doing
  answered  \* was the last plan saved answered without an error?

vars == <<calm, lines, split, reported, taken, req, answered>>

\* planned: the quantity the line was saved with; linked: split_order_item_id
\* is set; "deleted": no such row.
Line == [status: {"pending", "shipped", "deleted"}, qty: Nat \ {0}, planned: Nat \ {0},
         linked: BOOLEAN]

Idle == [pc |-> "idle", ids |-> {}, qty |-> <<>>, pieces |-> 0]

Quiet == \A r \in Reqs : req[r].pc = "idle"
MayStart(r) == req[r].pc = "idle" /\ (~calm \/ Quiet)
Admitted(fault) == fault \in Faults /\ (calm => fault \in CalmFaults)

Init ==
  /\ calm \in Calms
  /\ lines = <<>>
  /\ split = {}
  /\ reported = {}
  /\ taken = <<>>
  /\ req = [r \in Reqs |-> Idle]
  /\ answered = TRUE

Pending == {i \in DOMAIN lines : lines[i].status = "pending"}
Return(r) == req' = [req EXCEPT ![r] = Idle]

-----------------------------------------------------------------------------
(* PutShipPlan.                                                            *)

\* Seeded bug: the lines that are shipped are replaced as well.
SaveReplacesAll(r, plan) ==
  LET ids == Len(lines) + 1 .. Len(lines) + Len(plan) IN
  /\ MayStart(r)
  /\ Len(lines) + Len(plan) <= MaxLines[calm]
  /\ lines' = [i \in DOMAIN lines \cup ids |->
       IF i \in ids
         THEN [status |-> "pending", qty |-> plan[i - Len(lines)],
               planned |-> plan[i - Len(lines)], linked |-> FALSE]
       ELSE [lines[i] EXCEPT !.status = "deleted"]]
  /\ taken' = [i \in DOMAIN lines \cup ids |-> IF i \in ids THEN 0 ELSE taken[i]]
  /\ req' = [req EXCEPT ![r] = [Idle EXCEPT !.pc = "sync", !.ids = ids]]
  /\ answered' = FALSE
  /\ UNCHANGED <<calm, split, reported>>

\* The transaction: the waiting lines go, the plan's lines come.
SaveLines(r, plan) ==
  LET ids == Len(lines) + 1 .. Len(lines) + Len(plan) IN
  /\ MayStart(r)
  /\ Len(lines) + Len(plan) <= MaxLines[calm]
  /\ lines' = [i \in DOMAIN lines \cup ids |->
       IF i \in ids
         THEN [status |-> "pending", qty |-> plan[i - Len(lines)],
               planned |-> plan[i - Len(lines)], linked |-> FALSE]
       ELSE IF i \in Pending THEN [lines[i] EXCEPT !.status = "deleted"] ELSE lines[i]]
  /\ taken' = [i \in DOMAIN lines \cup ids |-> IF i \in ids THEN 0 ELSE taken[i]]
  /\ req' = [req EXCEPT ![r] = [Idle EXCEPT !.pc = "sync", !.ids = ids]]
  /\ answered' = FALSE
  /\ UNCHANGED <<calm, split, reported>>

\* Seeded bug: OrderCore is not told of a plan that became empty.
SyncSkipsEmpty(r) ==
  /\ req[r].pc = "sync"
  /\ split' = IF req[r].ids = {} THEN split ELSE (split \cap reported) \cup req[r].ids
  /\ req' = [req EXCEPT ![r].pc = "link"]
  /\ UNCHANGED <<calm, lines, reported, taken, answered>>

\* OrderCore replaces the split items that are not shipped yet by the plan's.
SyncSplitItems(r) ==
  /\ req[r].pc = "sync"
  /\ \/ /\ split' = (split \cap reported) \cup req[r].ids
        /\ \/ req' = [req EXCEPT ![r].pc = "link"]
           \/ Admitted("lostReply") /\ Return(r)
     \/ Admitted("ocError") /\ Return(r) /\ UNCHANGED split
  /\ UNCHANGED <<calm, lines, reported, taken, answered>>

\* split_order_item_id, line by line; an error ends the call.  A line another
\* call has deleted is not there to be written.
LinkSplitItems(r) ==
  /\ req[r].pc = "link"
  /\ \E done \in SUBSET req[r].ids :
       /\ done # req[r].ids => Admitted("dbError")
       /\ lines' = [i \in DOMAIN lines |->
            IF i \in done /\ lines[i].status # "deleted" THEN [lines[i] EXCEPT !.linked = TRUE]
            ELSE lines[i]]
       /\ answered' = IF done = req[r].ids THEN TRUE ELSE answered
  /\ Return(r)
  /\ UNCHANGED <<calm, split, reported, taken>>

-----------------------------------------------------------------------------
(* applyShipPlanProgress.                                                  *)

\* A shipment with n pieces of each of the lines ids, which the user's page
\* showed at some time.  A kdzs confirmation has reported them to OrderCore,
\* which refuses more than is left; an SF shipment is still a draft.
BeginProgress(r, ids, n, draft) ==
  /\ MayStart(r)
  /\ ids # {}
  /\ \A i \in ids : taken[i] + n <= lines[i].planned + MaxOver
  /\ draft \/ \A i \in ids : i \in split /\ taken[i] + n <= lines[i].planned
  /\ taken' = [i \in DOMAIN taken |-> taken[i] + IF i \in ids THEN n ELSE 0]
  /\ reported' = IF draft THEN reported ELSE reported \cup ids
  /\ req' = [req EXCEPT ![r] =
       [pc |-> "write", pieces |-> n, ids |-> ids \cap Pending,
        qty |-> [i \in ids \cap Pending |-> lines[i].qty]]]
  /\ UNCHANGED <<calm, lines, split, answered>>

\* Seeded bug: a line that loses as many pieces as it has goes on waiting.
WriteLeavesOne(r, i) ==
  /\ req[r].pc = "write" /\ i \in req[r].ids
  /\ lines' = [lines EXCEPT ![i].qty =
       IF req[r].qty[i] > req[r].pieces THEN req[r].qty[i] - req[r].pieces ELSE 1]
  /\ req' = [req EXCEPT ![r].ids = @ \ {i}]
  /\ UNCHANGED <<calm, split, reported, taken, answered>>

\* Seeded bug: a started line counts as shipped.
WriteShipsAll(r, i) ==
  /\ req[r].pc = "write" /\ i \in req[r].ids
  /\ lines' = [lines EXCEPT ![i].status = IF @ = "deleted" THEN @ ELSE "shipped"]
  /\ req' = [req EXCEPT ![r].ids = @ \ {i}]
  /\ UNCHANGED <<calm, split, reported, taken, answered>>

\* One line, from the quantity that was read; all pieces gone: shipped.
WriteProgress(r, i) ==
  /\ req[r].pc = "write" /\ i \in req[r].ids
  /\ \/ /\ lines' = IF lines[i].status = "deleted" THEN lines
                    ELSE IF req[r].pieces >= req[r].qty[i]
                           THEN [lines EXCEPT ![i].status = "shipped"]
                           ELSE [lines EXCEPT ![i].qty = req[r].qty[i] - req[r].pieces]
        /\ req' = [req EXCEPT ![r].ids = @ \ {i}]
     \/ Admitted("dbError") /\ Return(r) /\ UNCHANGED lines
  /\ UNCHANGED <<calm, split, reported, taken, answered>>

EndProgress(r) ==
  /\ req[r].pc = "write" /\ req[r].ids = {}
  /\ Return(r)
  /\ UNCHANGED <<calm, lines, split, reported, taken, answered>>

\* The process stops; the table and OrderCore stay.
Crash ==
  /\ Admitted("crash") /\ ~Quiet
  /\ req' = [r \in Reqs |-> Idle]
  /\ UNCHANGED <<calm, lines, split, reported, taken, answered>>

-----------------------------------------------------------------------------
Next ==
  \/ \E r \in Reqs :
       \/ \E plan \in Plans : SaveLines(r, plan)
       \/ SyncSplitItems(r) \/ LinkSplitItems(r)
       \/ \E ids \in SUBSET DOMAIN lines, n \in 1 .. MaxPieces, draft \in BOOLEAN :
            BeginProgress(r, ids, n, draft)
       \/ \E i \in DOMAIN lines : WriteProgress(r, i)
       \/ EndProgress(r)
  \/ Crash

Spec == Init /\ [][Next]_vars

-----------------------------------------------------------------------------
(* Properties.                                                             *)

TypeOK ==
  /\ lines \in Seq(Line) /\ Len(lines) <= MaxLines[calm]
  /\ taken \in Seq(Nat) /\ Len(taken) = Len(lines)
  /\ reported \subseteq split /\ split \subseteq DOMAIN lines
  /\ \A r \in Reqs : req[r].ids \subseteq DOMAIN lines

\* PutShipPlan was answered without an error: OrderCore has a split item for
\* each line that waits, the line knows it, and none is left of older plans.
MirroredAtRest ==
  (Quiet /\ answered) =>
    /\ \A i \in Pending : i \in split /\ lines[i].linked
    /\ split \ reported \subseteq DOMAIN lines \ {i \in DOMAIN lines : lines[i].status = "deleted"}

\* A shipment that is counted is taken off its lines once: what waits is what
\* was planned less what shipments took.
CountedAtRest ==
  Quiet => \A i \in Pending : lines[i].qty = lines[i].planned - taken[i]

\* When calls come one at a time, whatever OrderCore answers: a plan that was
\* saved well is mirrored there.
Mirrored == calm => MirroredAtRest

\* When calls come one at a time, whatever OrderCore answers: no shipment is
\* lost from the count of applyShipPlanProgress.
ProgressCounted == calm => CountedAtRest

\* Whatever fails and interleaves, a line is shipped only when shipments took
\* all of it, and never waits for less than they left.
NeverUnderdelivers ==
  \A i \in DOMAIN lines :
    /\ lines[i].status = "shipped" => taken[i] >= lines[i].planned
    /\ lines[i].status = "pending" => lines[i].qty >= lines[i].planned - taken[i]

\* A line that is shipped stays as it is, through saved plans and late writes.
ShippedStays ==
  [][\A i \in DOMAIN lines : lines[i].status = "shipped" => lines'[i].status = "shipped"]_vars
=============================================================================
