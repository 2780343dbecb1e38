---------------------------- MODULE ShipPlan_proofs ----------------------------
(***************************************************************************)
(* The ship plan for any plans, any number of handlers and any faults:     *)
(* its types, NeverUnderdelivers and ShippedStays on every day, Mirrored   *)
(* and ProgressCounted on a calm one.                                      *)
(***************************************************************************)
EXTENDS ShipPlan, SequenceTheorems, TLAPS

Fields == {"pc", "ids", "qty", "pieces"}

\* What a handler may be doing, and that it names lines there are.
RequestsTyped ==
  /\ DOMAIN req = Reqs
  /\ \A r \in Reqs :
       /\ DOMAIN req[r] = Fields
       /\ req[r].pc \in {"idle", "sync", "link", "write"}
       /\ req[r].ids \subseteq DOMAIN lines
       /\ req[r].pc = "write" =>
            /\ req[r].pieces \in Nat \ {0}
            /\ \A i \in req[r].ids : req[r].qty[i] \in Nat \ {0}

\* One step away from TypeOK: with the number of lines by name.
Typed ==
  /\ calm \in BOOLEAN /\ answered \in BOOLEAN
  /\ lines \in Seq(Line) /\ Len(lines) <= MaxLines[calm]
  /\ taken \in Seq(Nat) /\ Len(taken) = Len(lines)
  /\ reported \subseteq split /\ split \subseteq DOMAIN lines
  /\ RequestsTyped

\* A line never waits for less than shipments left, and a write that is under
\* way does not bring it below that: its shipment is in taken already.
Sufficient ==
  /\ \A i \in DOMAIN lines :
       /\ lines[i].status = "shipped" => taken[i] >= lines[i].planned
       /\ lines[i].qty >= lines[i].planned - taken[i]
  /\ \A r \in Reqs : req[r].pc = "write" =>
       \A i \in req[r].ids : req[r].qty[i] - req[r].pieces >= lines[i].planned - taken[i]

IInv == Typed /\ Sufficient

\* On a calm day one handler works at a time.
OneAtATime ==
  \A r, s \in Reqs : req[r].pc # "idle" /\ req[s].pc # "idle" => r = s

\* On a calm day a line that waits counts right, or the write that sets it right
\* is still to come and has read the quantity it has.
CountsToCome ==
  /\ \A r \in Reqs : req[r].pc = "write" =>
       \A i \in req[r].ids :
         /\ lines[i].status = "pending" /\ lines[i].qty = req[r].qty[i]
         /\ lines[i].qty - req[r].pieces = lines[i].planned - taken[i]
  /\ \A i \in Pending :
       \/ lines[i].qty = lines[i].planned - taken[i]
       \/ \E r \in Reqs : req[r].pc = "write" /\ i \in req[r].ids

\* On a calm day the plan that is being saved is the one that waits, and nothing
\* is answered before OrderCore and the lines have it.
MirrorToCome ==
  /\ \A r \in Reqs : req[r].pc \in {"sync", "link"} => req[r].ids = Pending /\ ~answered
  /\ \A r \in Reqs : req[r].pc = "link" =>
       req[r].ids \subseteq split /\ split \ reported \subseteq req[r].ids
  /\ answered =>
       /\ \A i \in Pending : i \in split /\ lines[i].linked
       /\ \A i \in split \ reported : lines[i].status # "deleted"

CalmInv == calm => OneAtATime /\ CountsToCome /\ MirrorToCome
Inv == IInv /\ CalmInv

-----------------------------------------------------------------------------
(* Types, and what the actions do to the table and to the handlers.        *)

LEMMA LinesNumbered ==
  ASSUME Typed
  PROVE  /\ DOMAIN lines = 1 .. Len(lines) /\ DOMAIN taken = 1 .. Len(lines)
         /\ Len(lines) \in Nat /\ MaxLines[calm] \in Nat
         /\ \A i \in DOMAIN lines : lines[i] \in Line /\ taken[i] \in Nat
BY LenProperties, ElementOfSeq, ShipPlanAssumption DEF Typed

\* A function on 1 .. n is a sequence.
LEMMA NumberedIsSeq ==
  ASSUME NEW S, NEW n \in Nat, NEW f, f \in [1 .. n -> S]
  PROVE  f \in Seq(S) /\ Len(f) = n
BY SeqDef, LenProperties

\* The record of a handler that moves on is replaced, the others stay.
LEMMA OthersStay ==
  ASSUME RequestsTyped, NEW r \in Reqs, NEW w, req' = [req EXCEPT ![r] = w]
  PROVE  /\ DOMAIN req' = Reqs /\ req'[r] = w
         /\ \A s \in Reqs : s # r => req'[s] = req[s]
BY DEF RequestsTyped

\* What the transaction of PutShipPlan leaves.
LEMMA LinesReplaced ==
  ASSUME Typed, NEW r \in Reqs, NEW plan \in Plans, SaveLines(r, plan)
  PROVE  LET ids == Len(lines) + 1 .. Len(lines) + Len(plan) IN
         /\ lines' \in Seq(Line) /\ taken' \in Seq(Nat)
         /\ Len(lines') = Len(lines) + Len(plan) /\ Len(taken') = Len(lines')
         /\ DOMAIN lines' = DOMAIN lines \cup ids /\ DOMAIN lines \cap ids = {}
         /\ \A i \in ids :
              /\ lines'[i].status = "pending" /\ lines'[i].qty = lines'[i].planned
              /\ taken'[i] = 0
         /\ \A i \in DOMAIN lines :
              /\ taken'[i] = taken[i]
              /\ lines'[i] = IF i \in Pending THEN [lines[i] EXCEPT !.status = "deleted"]
                             ELSE lines[i]
         /\ req'[r] = [Idle EXCEPT !.pc = "sync", !.ids = ids]
         /\ DOMAIN req' = Reqs /\ \A s \in Reqs : s # r => req'[s] = req[s]
<1> DEFINE n == Len(lines)
           ids == n + 1 .. n + Len(plan)
<1>1. /\ DOMAIN lines = 1 .. n /\ n \in Nat
      /\ \A i \in DOMAIN lines : lines[i] \in Line /\ taken[i] \in Nat
  BY LinesNumbered
<1>2. Len(plan) \in Nat /\ \A i \in 1 .. Len(plan) : plan[i] \in Nat \ {0}
  BY ShipPlanAssumption, LenProperties, ElementOfSeq
<1>3. DOMAIN lines \cup ids = 1 .. n + Len(plan) /\ DOMAIN lines \cap ids = {}
  BY <1>1, <1>2
<1>4. lines' = [i \in 1 .. n + Len(plan) |->
         IF i \in ids
           THEN [status |-> "pending", qty |-> plan[i - n], planned |-> plan[i - n],
                 linked |-> FALSE]
         ELSE IF i \in Pending THEN [lines[i] EXCEPT !.status = "deleted"] ELSE lines[i]]
  BY <1>3 DEF SaveLines
<1>5. taken' = [i \in 1 .. n + Len(plan) |-> IF i \in ids THEN 0 ELSE taken[i]]
  BY <1>3 DEF SaveLines
<1>6. lines' \in [1 .. n + Len(plan) -> Line]
  <2>1. ASSUME NEW i \in ids
        PROVE  [status |-> "pending", qty |-> plan[i - n], planned |-> plan[i - n],
                linked |-> FALSE] \in Line
    <3>1. i - n \in 1 .. Len(plan)
      BY <1>1, <1>2
    <3>2. plan[i - n] \in Nat \ {0}
      BY <1>2, <3>1
    <3>3. QED
      BY <3>2 DEF Line
  <2>2. ASSUME NEW i \in DOMAIN lines
        PROVE  lines[i] \in Line /\ [lines[i] EXCEPT !.status = "deleted"] \in Line
    BY <1>1 DEF Line
  <2>3. QED
    BY <1>1, <1>3, <1>4, <2>1, <2>2
<1>7. taken' \in [1 .. n + Len(plan) -> Nat]
  BY <1>1, <1>3, <1>5
<1>8. n + Len(plan) \in Nat
  BY <1>1, <1>2
<1>9. /\ lines' \in Seq(Line) /\ taken' \in Seq(Nat)
      /\ Len(lines') = n + Len(plan) /\ Len(taken') = n + Len(plan)
  BY <1>6, <1>7, <1>8, NumberedIsSeq
<1>10. req'[r] = [Idle EXCEPT !.pc = "sync", !.ids = ids] /\ DOMAIN req' = Reqs
       /\ \A s \in Reqs : s # r => req'[s] = req[s]
  BY OthersStay DEF SaveLines, Typed
<1>11. DOMAIN lines' = DOMAIN lines \cup ids
  BY <1>3, <1>4
<1>12. /\ \A i \in ids :
            /\ lines'[i].status = "pending" /\ lines'[i].qty = lines'[i].planned
            /\ taken'[i] = 0
       /\ \A i \in DOMAIN lines :
            /\ taken'[i] = taken[i]
            /\ lines'[i] = IF i \in Pending THEN [lines[i] EXCEPT !.status = "deleted"]
                           ELSE lines[i]
  BY <1>3, <1>4, <1>5
<1>13. QED
  BY <1>3, <1>9, <1>10, <1>11, <1>12

\* A step that leaves the number of lines as it is keeps the types if it keeps
\* those of each line and of each handler.
LEMMA TypesKept ==
  ASSUME Typed, UNCHANGED calm, answered' \in BOOLEAN, DOMAIN lines' = DOMAIN lines,
         lines' \in [DOMAIN lines -> Line], taken' \in [DOMAIN lines -> Nat],
         reported' \subseteq split', split' \subseteq DOMAIN lines, RequestsTyped'
  PROVE  Typed'
<1>1. /\ DOMAIN lines = 1 .. Len(lines) /\ Len(lines) \in Nat
      /\ Len(lines) <= MaxLines[calm]
  BY LinesNumbered DEF Typed
<1>2. /\ lines' \in Seq(Line) /\ Len(lines') = Len(lines)
      /\ taken' \in Seq(Nat) /\ Len(taken') = Len(lines)
  BY <1>1, NumberedIsSeq
<1>3. QED
  BY <1>1, <1>2 DEF Typed

\* The handler alone moves, to w.
LEMMA RequestsMove ==
  ASSUME RequestsTyped, NEW r \in Reqs, NEW w, req' = [req EXCEPT ![r] = w],
         DOMAIN lines \subseteq DOMAIN lines',
         DOMAIN w = Fields,
         w.pc \in {"idle", "sync", "link", "write"}, w.ids \subseteq DOMAIN lines',
         w.pc = "write" =>
           w.pieces \in Nat \ {0} /\ \A i \in w.ids : w.qty[i] \in Nat \ {0}
  PROVE  RequestsTyped'
<1>1. DOMAIN req' = Reqs /\ req'[r] = w /\ \A s \in Reqs : s # r => req'[s] = req[s]
  BY OthersStay
<1> SUFFICES ASSUME NEW s \in Reqs
             PROVE  /\ DOMAIN req'[s] = Fields
                    /\ req'[s].pc \in {"idle", "sync", "link", "write"}
                    /\ req'[s].ids \subseteq DOMAIN lines'
                    /\ req'[s].pc = "write" =>
                         /\ req'[s].pieces \in Nat \ {0}
                         /\ \A i \in req'[s].ids : req'[s].qty[i] \in Nat \ {0}
  BY <1>1 DEF RequestsTyped
<1>2. CASE s = r
  BY <1>1, <1>2
<1>3. CASE s # r
  BY <1>1, <1>3 DEF RequestsTyped
<1>4. QED
  BY <1>2, <1>3

LEMMA IdleTyped == DOMAIN Idle = Fields /\ Idle.pc = "idle" /\ Idle.ids = {}
BY DEF Idle, Fields

LEMMA IdleSaves ==
  ASSUME NEW ids
  PROVE  LET w == [Idle EXCEPT !.pc = "sync", !.ids = ids] IN
         DOMAIN w = Fields /\ w.pc = "sync" /\ w.ids = ids
BY DEF Idle, Fields

LEMMA InitTyped == Init => IInv
<1> SUFFICES ASSUME Init PROVE IInv
  OBVIOUS
<1>1. lines \in Seq(Line) /\ taken \in Seq(Nat) /\ Len(lines) = 0 /\ Len(taken) = 0
  BY EmptySeq DEF Init
<1>2. DOMAIN lines = {}
  BY DEF Init
<1>3. calm \in BOOLEAN /\ MaxLines[calm] \in Nat
  BY ShipPlanAssumption DEF Init
<1>4. RequestsTyped
  BY IdleTyped DEF Init, RequestsTyped
<1>5. Typed
  BY <1>1, <1>2, <1>3, <1>4 DEF Typed, Init
<1>6. Sufficient
  BY <1>2, IdleTyped DEF Sufficient, Init
<1>7. QED
  BY <1>5, <1>6 DEF IInv

LEMMA TypedHolds ==
  ASSUME Typed, [Next]_vars
  PROVE  Typed'
<1>0. /\ \A i \in DOMAIN lines : lines[i] \in Line /\ taken[i] \in Nat
      /\ DOMAIN lines = 1 .. Len(lines) /\ DOMAIN taken = DOMAIN lines
      /\ lines \in [DOMAIN lines -> Line] /\ taken \in [DOMAIN lines -> Nat]
      /\ RequestsTyped
  BY LinesNumbered, LenProperties DEF Typed
<1>1. ASSUME NEW r \in Reqs, NEW plan \in Plans, SaveLines(r, plan) PROVE Typed'
  <2>1. RequestsTyped'
    <3> DEFINE ids == Len(lines) + 1 .. Len(lines) + Len(plan)
               w == [Idle EXCEPT !.pc = "sync", !.ids = ids]
    <3>1. ids \subseteq DOMAIN lines' /\ DOMAIN lines \subseteq DOMAIN lines'
      BY <1>1, LinesReplaced
    <3> HIDE DEF ids
    <3>2. req' = [req EXCEPT ![r] = w]
      BY <1>1 DEF SaveLines, ids
    <3>3. w.pc = "sync" /\ w.ids = ids /\ DOMAIN w = Fields
      BY IdleSaves
    <3> HIDE DEF w
    <3>4. QED
      BY <1>0, <3>1, <3>2, <3>3, RequestsMove
  <2>2. /\ lines' \in Seq(Line) /\ taken' \in Seq(Nat) /\ Len(taken') = Len(lines')
        /\ Len(lines') = Len(lines) + Len(plan) /\ DOMAIN lines \subseteq DOMAIN lines'
    BY <1>1, LinesReplaced
  <2>3. /\ Len(lines) + Len(plan) <= MaxLines[calm]
        /\ UNCHANGED <<calm, split, reported>> /\ answered' = FALSE
    BY <1>1 DEF SaveLines
  <2>4. QED
    BY <2>1, <2>2, <2>3 DEF Typed
<1>2. ASSUME NEW r \in Reqs, SyncSplitItems(r) PROVE Typed'
  <2>1. req[r].ids \subseteq DOMAIN lines /\ UNCHANGED <<calm, lines, reported, taken, answered>>
    BY <1>0, <1>2 DEF SyncSplitItems, RequestsTyped
  <2>2. split' = (split \cap reported) \cup req[r].ids \/ split' = split
    BY <1>2 DEF SyncSplitItems
  <2>3. reported' \subseteq split' /\ split' \subseteq DOMAIN lines
    BY <2>1, <2>2 DEF Typed
  <2>4. RequestsTyped'
    <3>1. CASE req' = [req EXCEPT ![r] = [req[r] EXCEPT !.pc = "link"]]
      <4> DEFINE w == [req[r] EXCEPT !.pc = "link"]
      <4>1. DOMAIN w = Fields /\ w.pc = "link" /\ w.ids = req[r].ids
        BY <1>0 DEF RequestsTyped, Fields
      <4> HIDE DEF w
      <4>2. QED
        BY <1>0, <2>1, <3>1, <4>1, RequestsMove DEF w
    <3>2. CASE Return(r)
      BY <1>0, <2>1, <3>2, RequestsMove, IdleTyped DEF Return
    <3>3. QED
      BY <1>2, <3>1, <3>2 DEF SyncSplitItems
  <2>5. QED
    BY <1>0, <2>1, <2>3, <2>4, TypesKept DEF Typed
<1>3. ASSUME NEW r \in Reqs, LinkSplitItems(r) PROVE Typed'
  <2>1. PICK done \in SUBSET req[r].ids :
          /\ lines' = [i \in DOMAIN lines |->
               IF i \in done /\ lines[i].status # "deleted" THEN [lines[i] EXCEPT !.linked = TRUE]
               ELSE lines[i]]
          /\ answered' = IF done = req[r].ids THEN TRUE ELSE answered
    BY <1>3 DEF LinkSplitItems
  <2>2. \A i \in DOMAIN lines : [lines[i] EXCEPT !.linked = TRUE] \in Line
    BY <1>0 DEF Line
  <2>3. lines' \in [DOMAIN lines -> Line] /\ DOMAIN lines' = DOMAIN lines
    BY <1>0, <2>1, <2>2
  <2>4. UNCHANGED <<calm, split, reported, taken>> /\ answered' \in BOOLEAN
    BY <1>3, <2>1 DEF LinkSplitItems, Typed
  <2>5. RequestsTyped'
    BY <1>0, <1>3, <2>3, RequestsMove, IdleTyped DEF LinkSplitItems, Return
  <2>6. QED
    BY <1>0, <2>3, <2>4, <2>5, TypesKept DEF Typed
<1>4. ASSUME NEW r \in Reqs, NEW ids \in SUBSET DOMAIN lines, NEW n \in 1 .. MaxPieces,
             NEW draft \in BOOLEAN, BeginProgress(r, ids, n, draft)
      PROVE  Typed'
  <2>1. n \in Nat \ {0}
    BY ShipPlanAssumption
  <2>2. taken' \in [DOMAIN lines -> Nat]
    BY <1>0, <1>4, <2>1 DEF BeginProgress
  <2>3. reported' \subseteq split'
    BY <1>4 DEF BeginProgress, Typed
  <2>4. RequestsTyped'
    <3> DEFINE w == [pc |-> "write", pieces |-> n, ids |-> ids \cap Pending,
                     qty |-> [i \in ids \cap Pending |-> lines[i].qty]]
    <3>1. \A i \in w.ids : w.qty[i] \in Nat \ {0}
      BY <1>0 DEF Line
    <3>2. /\ DOMAIN w = Fields /\ w.ids \subseteq DOMAIN lines'
          /\ w.pc = "write" /\ w.pieces = n
      BY <1>4 DEF BeginProgress, Fields
    <3>3. req' = [req EXCEPT ![r] = w] /\ lines' = lines
      BY <1>4 DEF BeginProgress
    <3> HIDE DEF w
    <3>4. QED
      BY <1>0, <2>1, <3>1, <3>2, <3>3, RequestsMove
  <2>5. QED
    BY <1>0, <1>4, <2>2, <2>3, <2>4, TypesKept DEF BeginProgress, Typed
<1>5. ASSUME NEW r \in Reqs, NEW i \in DOMAIN lines, WriteProgress(r, i) PROVE Typed'
  <2>1. /\ req[r].pieces \in Nat \ {0} /\ req[r].qty[i] \in Nat \ {0}
        /\ UNCHANGED <<calm, split, reported, taken, answered>>
    BY <1>0, <1>5 DEF WriteProgress, RequestsTyped
  <2>2. \/ lines' = lines
        \/ lines' = [lines EXCEPT ![i] = [lines[i] EXCEPT !.status = "shipped"]]
        \/ /\ lines' = [lines EXCEPT ![i] = [lines[i] EXCEPT !.qty = req[r].qty[i] - req[r].pieces]]
           /\ req[r].qty[i] - req[r].pieces \in Nat \ {0}
    BY <1>5, <2>1 DEF WriteProgress
  <2>3. /\ [lines[i] EXCEPT !.status = "shipped"] \in Line
        /\ \A q \in Nat \ {0} : [lines[i] EXCEPT !.qty = q] \in Line
    BY <1>0 DEF Line
  <2>4. lines' \in [DOMAIN lines -> Line] /\ DOMAIN lines' = DOMAIN lines
    BY <1>0, <2>2, <2>3
  <2>5. RequestsTyped'
    <3>1. CASE req' = [req EXCEPT ![r] = [req[r] EXCEPT !.ids = @ \ {i}]]
      <4> DEFINE w == [req[r] EXCEPT !.ids = @ \ {i}]
      <4>1. /\ DOMAIN w = Fields /\ w.pc = req[r].pc /\ w.ids = req[r].ids \ {i}
            /\ w.qty = req[r].qty /\ w.pieces = req[r].pieces
        BY <1>0 DEF RequestsTyped, Fields
      <4> HIDE DEF w
      <4>2. req' = [req EXCEPT ![r] = w]
        BY <3>1 DEF w
      <4>3. /\ req[r].pc \in {"idle", "sync", "link", "write"} /\ req[r].ids \subseteq DOMAIN lines
            /\ \A j \in req[r].ids : req[r].qty[j] \in Nat \ {0}
        BY <1>0, <1>5 DEF RequestsTyped, WriteProgress
      <4>4. QED
        BY <1>0, <2>1, <2>4, <4>1, <4>2, <4>3, RequestsMove
    <3>2. CASE Return(r)
      BY <1>0, <2>4, <3>2, RequestsMove, IdleTyped DEF Return
    <3>3. QED
      BY <1>5, <3>1, <3>2 DEF WriteProgress
  <2>6. QED
    BY <1>0, <2>1, <2>4, <2>5, TypesKept DEF Typed
<1>6. ASSUME NEW r \in Reqs, EndProgress(r) PROVE Typed'
  <2>1. RequestsTyped'
    BY <1>0, <1>6, RequestsMove, IdleTyped DEF EndProgress, Return
  <2>2. QED
    BY <1>0, <1>6, <2>1, TypesKept DEF EndProgress, Typed
<1>7. CASE Crash
  <2>1. RequestsTyped'
    BY <1>7, IdleTyped DEF Crash, RequestsTyped
  <2>2. QED
    BY <1>0, <1>7, <2>1, TypesKept DEF Crash, Typed
<1>8. CASE UNCHANGED vars
  BY <1>8 DEF vars, Typed, RequestsTyped
<1>9. QED
  BY <1>1, <1>2, <1>3, <1>4, <1>5, <1>6, <1>7, <1>8 DEF Next

-----------------------------------------------------------------------------
(* Whatever fails and interleaves.                                         *)

\* One written line.
LEMMA WrittenLine ==
  ASSUME Typed, NEW r \in Reqs, NEW i \in DOMAIN lines, WriteProgress(r, i)
  PROVE  /\ req[r].pc = "write" /\ i \in req[r].ids /\ DOMAIN lines' = DOMAIN lines
         /\ req[r].pieces \in Nat \ {0} /\ req[r].qty[i] \in Nat \ {0}
         /\ \A j \in DOMAIN lines : j # i => lines'[j] = lines[j]
         /\ \/ lines'[i] = lines[i]
            \/ /\ lines[i].status # "deleted" /\ req[r].pieces >= req[r].qty[i]
               /\ lines'[i] = [lines[i] EXCEPT !.status = "shipped"]
            \/ /\ lines[i].status # "deleted" /\ req[r].pieces < req[r].qty[i]
               /\ lines'[i] = [lines[i] EXCEPT !.qty = req[r].qty[i] - req[r].pieces]
         /\ \/ req' = [req EXCEPT ![r] = [req[r] EXCEPT !.ids = @ \ {i}]]
               /\ (lines'[i] = lines[i] => lines[i].status # "pending"
                                           \/ req[r].pieces < req[r].qty[i])
            \/ Admitted("dbError") /\ Return(r)
<1>1. /\ req[r].pieces \in Nat \ {0} /\ req[r].qty[i] \in Nat \ {0}
      /\ req[r].pc = "write" /\ i \in req[r].ids
  BY DEF WriteProgress, Typed, RequestsTyped
<1>2. lines[i] \in Line
  BY LinesNumbered
<1>3. QED
  BY <1>1, <1>2 DEF WriteProgress, Line

LEMMA SufficientHolds ==
  ASSUME IInv, [Next]_vars
  PROVE  Sufficient'
<1> USE DEF Sufficient
<1>0. /\ Typed /\ Sufficient /\ RequestsTyped
      /\ \A i \in DOMAIN lines : lines[i] \in Line /\ taken[i] \in Nat
      /\ DOMAIN taken = DOMAIN lines
  BY LinesNumbered DEF IInv, Typed
<1>1. ASSUME NEW r \in Reqs, NEW plan \in Plans, SaveLines(r, plan) PROVE Sufficient'
  <2> DEFINE ids == Len(lines) + 1 .. Len(lines) + Len(plan)
  <2>1. /\ DOMAIN lines' = DOMAIN lines \cup ids /\ DOMAIN lines \cap ids = {}
        /\ \A i \in ids : /\ lines'[i].status = "pending" /\ lines'[i].qty = lines'[i].planned
                          /\ taken'[i] = 0
        /\ \A i \in DOMAIN lines :
             /\ taken'[i] = taken[i]
             /\ lines'[i] = IF i \in Pending THEN [lines[i] EXCEPT !.status = "deleted"]
                            ELSE lines[i]
        /\ req'[r] = [Idle EXCEPT !.pc = "sync", !.ids = ids]
        /\ \A s \in Reqs : s # r => req'[s] = req[s]
        /\ lines' \in Seq(Line)
    BY <1>0, <1>1, LinesReplaced
  <2> HIDE DEF ids
  <2>2. ASSUME NEW i \in DOMAIN lines'
        PROVE  /\ lines'[i].status = "shipped" => taken'[i] >= lines'[i].planned
               /\ lines'[i].qty >= lines'[i].planned - taken'[i]
    <3>1. CASE i \in ids
      <4>1. lines'[i].planned \in Nat
        <5>1. lines'[i] \in Line
          BY <2>1, LenProperties, ElementOfSeq
        <5>2. QED
          BY <5>1 DEF Line
      <4>2. QED
        BY <2>1, <3>1, <4>1
    <3>2. CASE i \in DOMAIN lines
      BY <1>0, <2>1, <3>2 DEF Line
    <3>3. QED
      BY <2>1, <3>1, <3>2
  <2>3. ASSUME NEW s \in Reqs, req'[s].pc = "write", NEW i \in req'[s].ids
        PROVE  req'[s].qty[i] - req'[s].pieces >= lines'[i].planned - taken'[i]
    <3>1. s # r
      BY <2>1, <2>3, IdleSaves
    <3>2. req'[s] = req[s] /\ i \in DOMAIN lines
      BY <1>0, <2>1, <2>3, <3>1 DEF RequestsTyped
    <3>3. lines'[i].planned = lines[i].planned /\ taken'[i] = taken[i]
      BY <1>0, <2>1, <3>2 DEF Line
    <3>4. QED
      BY <1>0, <2>3, <3>2, <3>3
  <2>4. QED
    BY <2>2, <2>3
<1>2. ASSUME NEW r \in Reqs, SyncSplitItems(r) PROVE Sufficient'
  <2>1. UNCHANGED <<lines, taken>>
    BY <1>2 DEF SyncSplitItems
  <2>2. \A s \in Reqs : req'[s] = req[s] \/ req'[s].pc # "write"
    BY <1>0, <1>2, IdleTyped DEF SyncSplitItems, Return, RequestsTyped, Fields
  <2>3. QED
    BY <1>0, <2>1, <2>2
<1>3. ASSUME NEW r \in Reqs, LinkSplitItems(r) PROVE Sufficient'
  <2>1. /\ DOMAIN lines' = DOMAIN lines /\ taken' = taken
        /\ \A i \in DOMAIN lines :
             lines'[i] = lines[i] \/ lines'[i] = [lines[i] EXCEPT !.linked = TRUE]
    BY <1>3 DEF LinkSplitItems
  <2>2. \A i \in DOMAIN lines :
          /\ lines'[i].status = lines[i].status /\ lines'[i].qty = lines[i].qty
          /\ lines'[i].planned = lines[i].planned
    BY <1>0, <2>1 DEF Line
  <2>3. \A s \in Reqs : req'[s] = req[s] \/ req'[s].pc # "write"
    BY <1>0, <1>3, IdleTyped DEF LinkSplitItems, Return, RequestsTyped
  <2>4. QED
    BY <1>0, <2>1, <2>2, <2>3 DEF RequestsTyped
<1>4. ASSUME NEW r \in Reqs, NEW ids \in SUBSET DOMAIN lines, NEW n \in 1 .. MaxPieces,
             NEW draft \in BOOLEAN, BeginProgress(r, ids, n, draft)
      PROVE  Sufficient'
  <2>1. n \in Nat \ {0} /\ lines' = lines
    BY <1>4, ShipPlanAssumption DEF BeginProgress
  <2>2. \A i \in DOMAIN lines : /\ taken'[i] = taken[i] + (IF i \in ids THEN n ELSE 0)
                                /\ taken'[i] >= taken[i] /\ taken'[i] \in Nat
    BY <1>0, <1>4, <2>1 DEF BeginProgress
  <2>3. \A s \in Reqs : s # r => req'[s] = req[s]
    BY <1>0, <1>4, OthersStay DEF BeginProgress
  <2>4. /\ req'[r].ids = ids \cap Pending /\ req'[r].pieces = n
        /\ \A i \in ids \cap Pending : req'[r].qty[i] = lines[i].qty
    BY <1>0, <1>4 DEF BeginProgress, RequestsTyped
  <2>5. \A i \in DOMAIN lines : lines[i].qty \in Nat /\ lines[i].planned \in Nat
    BY <1>0 DEF Line
  <2>6. ASSUME NEW s \in Reqs, req'[s].pc = "write", NEW i \in req'[s].ids
        PROVE  req'[s].qty[i] - req'[s].pieces >= lines'[i].planned - taken'[i]
    <3>1. CASE s = r
      <4>1. i \in ids /\ i \in DOMAIN lines /\ lines[i].qty >= lines[i].planned - taken[i]
        BY <1>0, <2>4, <2>6, <3>1
      <4>2. QED
        BY <1>0, <2>1, <2>2, <2>4, <2>5, <2>6, <3>1, <4>1
    <3>2. CASE s # r
      <4>1. /\ req'[s] = req[s] /\ i \in DOMAIN lines
            /\ req[s].qty[i] \in Nat /\ req[s].pieces \in Nat
        BY <1>0, <2>3, <2>6, <3>2 DEF RequestsTyped
      <4>2. req[s].qty[i] - req[s].pieces >= lines[i].planned - taken[i]
        BY <1>0, <2>6, <4>1
      <4>3. QED
        BY <1>0, <2>1, <2>2, <2>5, <4>1, <4>2
    <3>3. QED
      BY <3>1, <3>2
  <2>7. ASSUME NEW i \in DOMAIN lines'
        PROVE  /\ lines'[i].status = "shipped" => taken'[i] >= lines'[i].planned
               /\ lines'[i].qty >= lines'[i].planned - taken'[i]
    BY <1>0, <2>1, <2>2, <2>5
  <2>8. QED
    BY <2>6, <2>7
<1>5. ASSUME NEW r \in Reqs, NEW i \in DOMAIN lines, WriteProgress(r, i) PROVE Sufficient'
  <2>1. /\ req[r].pc = "write" /\ i \in req[r].ids /\ DOMAIN lines' = DOMAIN lines
        /\ req[r].pieces \in Nat \ {0} /\ req[r].qty[i] \in Nat \ {0}
        /\ \A j \in DOMAIN lines : j # i => lines'[j] = lines[j]
    BY <1>0, <1>5, WrittenLine
  <2>2. /\ taken' = taken /\ taken[i] \in Nat
        /\ lines[i].planned \in Nat /\ lines[i].qty \in Nat
    BY <1>0, <1>5 DEF WriteProgress, Line
  <2>3. req[r].qty[i] - req[r].pieces >= lines[i].planned - taken[i]
    BY <1>0, <2>1
  <2>4. lines'[i].planned = lines[i].planned
        /\ (lines'[i].status = "shipped" => taken[i] >= lines[i].planned)
        /\ lines'[i].qty >= lines[i].planned - taken[i]
    <3>1. CASE lines'[i] = lines[i]
      BY <1>0, <3>1
    <3>2. CASE /\ req[r].pieces >= req[r].qty[i]
               /\ lines'[i] = [lines[i] EXCEPT !.status = "shipped"]
      BY <1>0, <2>1, <2>2, <2>3, <3>2 DEF Line
    <3>3. CASE lines'[i] = [lines[i] EXCEPT !.qty = req[r].qty[i] - req[r].pieces]
      BY <1>0, <2>1, <2>2, <2>3, <3>3 DEF Line
    <3>4. QED
      BY <1>0, <1>5, <3>1, <3>2, <3>3, WrittenLine
  <2>5. \A s \in Reqs :
          \/ req'[s].pc # "write"
          \/ /\ req'[s].ids \subseteq req[s].ids /\ req'[s].qty = req[s].qty
             /\ req'[s].pieces = req[s].pieces /\ req'[s].pc = req[s].pc
    <3>1. CASE req' = [req EXCEPT ![r] = [req[r] EXCEPT !.ids = @ \ {i}]]
      BY <1>0, <3>1 DEF RequestsTyped, Fields
    <3>2. CASE Return(r)
      BY <1>0, <3>2, IdleTyped DEF Return, RequestsTyped
    <3>3. QED
      BY <1>5, <3>1, <3>2 DEF WriteProgress
  <2>6. \A j \in DOMAIN lines : lines'[j].planned = lines[j].planned
    BY <2>1, <2>4
  <2>7. \A s \in Reqs : req[s].ids \subseteq DOMAIN lines
    BY <1>0 DEF RequestsTyped
  <2>8. ASSUME NEW s \in Reqs, req'[s].pc = "write", NEW j \in req'[s].ids
        PROVE  req'[s].qty[j] - req'[s].pieces >= lines'[j].planned - taken'[j]
    BY <1>0, <2>2, <2>5, <2>6, <2>7, <2>8
  <2>9. ASSUME NEW j \in DOMAIN lines'
        PROVE  /\ lines'[j].status = "shipped" => taken'[j] >= lines'[j].planned
               /\ lines'[j].qty >= lines'[j].planned - taken'[j]
    BY <1>0, <2>1, <2>2, <2>4
  <2>10. QED
    BY <2>8, <2>9
<1>6. CASE UNCHANGED <<lines, taken>> /\ \A s \in Reqs : req'[s] = req[s] \/ req'[s].pc = "idle"
  BY <1>0, <1>6
<1>7. ASSUME NEW r \in Reqs, EndProgress(r) PROVE Sufficient'
  BY <1>0, <1>6, <1>7, IdleTyped DEF EndProgress, Return, RequestsTyped
<1>8. CASE Crash
  BY <1>6, <1>8, IdleTyped DEF Crash
<1>9. CASE UNCHANGED vars
  BY <1>6, <1>9 DEF vars
<1>10. QED
  BY <1>1, <1>2, <1>3, <1>4, <1>5, <1>7, <1>8, <1>9 DEF Next

LEMMA IInvHolds == Spec => []IInv
<1>1. IInv /\ [Next]_vars => IInv'
  BY TypedHolds, SufficientHolds DEF IInv
<1>2. QED
  BY InitTyped, <1>1, PTL DEF Spec

-----------------------------------------------------------------------------
(* A calm day.                                                             *)

\* Nobody but r is doing anything.
Alone(r) == \A s \in Reqs : s # r => req[s].pc = "idle"

LEMMA InitCalm == Init => CalmInv
BY IdleTyped DEF Init, CalmInv, OneAtATime, CountsToCome, MirrorToCome, Pending

\* On a calm day no step needs the database to fail or the process to stop, and
\* whoever takes one is alone.
LEMMA CalmSteps ==
  ASSUME calm, OneAtATime
  PROVE  /\ ~Admitted("dbError") /\ ~Admitted("crash")
         /\ \A r \in Reqs : MayStart(r) => Quiet
         /\ \A r \in Reqs : req[r].pc # "idle" => Alone(r)
BY DEF OneAtATime, Admitted, CalmFaults, MayStart, Alone

\* What is to be shown of a step that r takes alone.
LEMMA StepAlone ==
  ASSUME RequestsTyped, NEW r \in Reqs, Alone(r), NEW w, req' = [req EXCEPT ![r] = w],
         w.pc = "write" => \A i \in w.ids :
           /\ lines'[i].status = "pending" /\ lines'[i].qty = w.qty[i]
           /\ lines'[i].qty - w.pieces = lines'[i].planned - taken'[i],
         \A i \in Pending' : \/ lines'[i].qty = lines'[i].planned - taken'[i]
                             \/ w.pc = "write" /\ i \in w.ids,
         w.pc \in {"sync", "link"} => w.ids = Pending' /\ ~answered',
         w.pc = "link" => w.ids \subseteq split' /\ split' \ reported' \subseteq w.ids,
         answered' => /\ \A i \in Pending' : i \in split' /\ lines'[i].linked
                      /\ \A i \in split' \ reported' : lines'[i].status # "deleted"
  PROVE  OneAtATime' /\ CountsToCome' /\ MirrorToCome'
<1>1. req'[r] = w /\ \A s \in Reqs : s # r => req'[s].pc = "idle"
  BY OthersStay DEF Alone
<1>2. OneAtATime'
  BY <1>1 DEF OneAtATime
<1>3. CountsToCome'
  BY <1>1 DEF CountsToCome
<1>4. MirrorToCome'
  BY <1>1 DEF MirrorToCome
<1>5. QED
  BY <1>2, <1>3, <1>4

LEMMA CalmHolds ==
  ASSUME IInv, CalmInv, [Next]_vars
  PROVE  CalmInv'
<1>0. calm' = calm
  BY DEF Next, vars, SaveLines, SyncSplitItems, LinkSplitItems, BeginProgress, WriteProgress,
         EndProgress, Crash
<1> SUFFICES ASSUME calm PROVE OneAtATime' /\ CountsToCome' /\ MirrorToCome'
  BY <1>0 DEF CalmInv
<1>a. /\ Typed /\ RequestsTyped /\ OneAtATime /\ CountsToCome /\ MirrorToCome
      /\ \A i \in DOMAIN lines : lines[i] \in Line /\ taken[i] \in Nat
      /\ DOMAIN taken = DOMAIN lines
  BY LinesNumbered DEF IInv, CalmInv, Typed
<1>b. \A r \in Reqs : Alone(r) /\ req[r].pc # "write" =>
        \A i \in Pending : lines[i].qty = lines[i].planned - taken[i]
  BY <1>a DEF Alone, CountsToCome
<1>c. \A r \in Reqs : MayStart(r) => Alone(r) /\ req[r].pc = "idle"
  BY <1>a, CalmSteps DEF Alone, Quiet, MayStart
<1>1. ASSUME NEW r \in Reqs, NEW plan \in Plans, SaveLines(r, plan)
      PROVE  OneAtATime' /\ CountsToCome' /\ MirrorToCome'
  <2> DEFINE ids == Len(lines) + 1 .. Len(lines) + Len(plan)
             w == [Idle EXCEPT !.pc = "sync", !.ids = ids]
  <2>1. /\ DOMAIN lines' = DOMAIN lines \cup ids /\ DOMAIN lines \cap ids = {}
        /\ \A i \in ids : /\ lines'[i].status = "pending" /\ lines'[i].qty = lines'[i].planned
                          /\ taken'[i] = 0
        /\ \A i \in DOMAIN lines :
             lines'[i] = IF i \in Pending THEN [lines[i] EXCEPT !.status = "deleted"]
                         ELSE lines[i]
        /\ lines' \in Seq(Line)
    BY <1>a, <1>1, LinesReplaced
  <2>2. req' = [req EXCEPT ![r] = w] /\ answered' = FALSE /\ Alone(r)
    BY <1>1, <1>c DEF SaveLines
  <2> HIDE DEF ids
  <2>3. w.pc = "sync" /\ w.ids = ids
    BY IdleSaves
  <2>4. Pending' = ids
    <3>1. \A i \in DOMAIN lines : lines'[i].status # "pending"
      BY <1>a, <2>1 DEF Line, Pending
    <3>2. QED
      BY <2>1, <3>1 DEF Pending
  <2>5. \A i \in Pending' : lines'[i].qty = lines'[i].planned - taken'[i]
    <3>1. \A i \in ids : lines'[i] \in Line
      BY <2>1, LenProperties, ElementOfSeq
    <3>2. \A i \in ids : lines'[i].planned \in Nat
      BY <3>1 DEF Line
    <3>3. QED
      BY <2>1, <2>4, <3>2
  <2> HIDE DEF w
  <2>6. QED
    BY <1>a, <2>2, <2>3, <2>4, <2>5, StepAlone
<1>2. ASSUME NEW r \in Reqs, SyncSplitItems(r)
      PROVE  OneAtATime' /\ CountsToCome' /\ MirrorToCome'
  <2>1. /\ req[r].pc = "sync" /\ UNCHANGED <<lines, reported, taken, answered>>
        /\ Pending' = Pending
    BY <1>2 DEF SyncSplitItems, Pending
  <2>2. /\ Alone(r) /\ ~answered /\ req[r].ids = Pending
        /\ \A i \in Pending : lines[i].qty = lines[i].planned - taken[i]
    BY <1>a, <1>b, <2>1, CalmSteps DEF MirrorToCome
  <2>3. CASE /\ split' = (split \cap reported) \cup req[r].ids
             /\ req' = [req EXCEPT ![r] = [req[r] EXCEPT !.pc = "link"]]
    <3> DEFINE w == [req[r] EXCEPT !.pc = "link"]
    <3>1. w.pc = "link" /\ w.ids = req[r].ids
      BY <1>a DEF RequestsTyped, Fields
    <3>2. split' \ reported' \subseteq req[r].ids /\ req[r].ids \subseteq split'
      BY <2>1, <2>3
    <3>3. req' = [req EXCEPT ![r] = w]
      BY <2>3
    <3> HIDE DEF w
    <3>4. QED
      BY <1>a, <2>1, <2>2, <3>1, <3>2, <3>3, StepAlone
  <2>4. CASE Return(r)
    BY <1>a, <2>1, <2>2, <2>4, StepAlone, IdleTyped DEF Return
  <2>5. QED
    BY <1>2, <2>3, <2>4 DEF SyncSplitItems
<1>3. ASSUME NEW r \in Reqs, LinkSplitItems(r)
      PROVE  OneAtATime' /\ CountsToCome' /\ MirrorToCome'
  <2>1. /\ req[r].pc = "link" /\ UNCHANGED <<split, reported, taken>>
        /\ req' = [req EXCEPT ![r] = Idle]
        /\ DOMAIN lines' = DOMAIN lines
        /\ \A i \in DOMAIN lines :
             lines'[i] = IF i \in req[r].ids /\ lines[i].status # "deleted"
                           THEN [lines[i] EXCEPT !.linked = TRUE] ELSE lines[i]
    BY <1>3, <1>a, CalmSteps DEF LinkSplitItems, Return
  <2>2. /\ Alone(r) /\ req[r].ids = Pending
        /\ req[r].ids \subseteq split /\ split \ reported \subseteq req[r].ids
        /\ \A i \in Pending : lines[i].qty = lines[i].planned - taken[i]
    BY <1>a, <1>b, <2>1, CalmSteps DEF MirrorToCome
  <2>3. \A i \in DOMAIN lines :
          /\ lines'[i].status = lines[i].status /\ lines'[i].qty = lines[i].qty
          /\ lines'[i].planned = lines[i].planned
          /\ i \in Pending => lines'[i].linked
    BY <1>a, <2>1, <2>2 DEF Line, Pending
  <2>4. Pending' = Pending
    BY <2>1, <2>3 DEF Pending
  <2>5. /\ \A i \in Pending' : i \in split' /\ lines'[i].linked
        /\ \A i \in split' \ reported' : lines'[i].status # "deleted"
    BY <2>1, <2>2, <2>3, <2>4 DEF Pending
  <2>6. \A i \in Pending' : lines'[i].qty = lines'[i].planned - taken'[i]
    BY <2>1, <2>2, <2>3, <2>4 DEF Pending
  <2>7. QED
    BY <1>a, <2>1, <2>2, <2>5, <2>6, StepAlone, IdleTyped
<1>4. ASSUME NEW r \in Reqs, NEW ids \in SUBSET DOMAIN lines, NEW n \in 1 .. MaxPieces,
             NEW draft \in BOOLEAN, BeginProgress(r, ids, n, draft)
      PROVE  OneAtATime' /\ CountsToCome' /\ MirrorToCome'
  <2> DEFINE w == [pc |-> "write", pieces |-> n, ids |-> ids \cap Pending,
                   qty |-> [i \in ids \cap Pending |-> lines[i].qty]]
  <2>1. /\ UNCHANGED <<lines, split, answered>> /\ reported \subseteq reported'
        /\ Alone(r) /\ req[r].pc = "idle" /\ req' = [req EXCEPT ![r] = w] /\ n \in Nat
        /\ \A i \in DOMAIN lines : taken'[i] = taken[i] + (IF i \in ids THEN n ELSE 0)
    BY <1>4, <1>a, <1>c, ShipPlanAssumption DEF BeginProgress
  <2>2. Pending' = Pending /\ Pending \subseteq DOMAIN lines
    BY <2>1 DEF Pending
  <2>3. \A i \in Pending : lines[i].qty = lines[i].planned - taken[i]
    BY <1>b, <2>1
  <2>4. /\ w.pc = "write" /\ w.ids = ids \cap Pending /\ w.pieces = n
        /\ \A i \in w.ids : w.qty[i] = lines[i].qty
    OBVIOUS
  <2> HIDE DEF w
  <2>5. \A i \in DOMAIN lines :
          lines[i].planned \in Nat /\ lines[i].qty \in Nat /\ taken[i] \in Nat
    BY <1>a DEF Line
  <2>6. \A i \in w.ids : lines'[i].qty - w.pieces = lines'[i].planned - taken'[i]
    BY <2>1, <2>2, <2>3, <2>4, <2>5
  <2>7. \A i \in Pending' : lines'[i].qty = lines'[i].planned - taken'[i] \/ i \in w.ids
    BY <2>1, <2>2, <2>3, <2>4, <2>5
  <2>8. answered' => /\ \A i \in Pending' : i \in split' /\ lines'[i].linked
                     /\ \A i \in split' \ reported' : lines'[i].status # "deleted"
    BY <1>a, <2>1, <2>2 DEF MirrorToCome
  <2>9. \A i \in w.ids : lines'[i].status = "pending"
    BY <2>1, <2>4 DEF Pending
  <2>10. QED
    BY <1>a, <2>1, <2>4, <2>6, <2>7, <2>8, <2>9, StepAlone
<1>5. ASSUME NEW r \in Reqs, NEW i \in DOMAIN lines, WriteProgress(r, i)
      PROVE  OneAtATime' /\ CountsToCome' /\ MirrorToCome'
  <2> DEFINE w == [req[r] EXCEPT !.ids = @ \ {i}]
  <2>1. /\ req[r].pc = "write" /\ i \in req[r].ids /\ DOMAIN lines' = DOMAIN lines
        /\ \A j \in DOMAIN lines : j # i => lines'[j] = lines[j]
        /\ req' = [req EXCEPT ![r] = w]
        /\ UNCHANGED <<split, reported, taken, answered>>
    BY <1>5, <1>a, WrittenLine, CalmSteps DEF WriteProgress
  <2>2. /\ w.pc = "write" /\ w.ids = req[r].ids \ {i} /\ w.qty = req[r].qty
        /\ w.pieces = req[r].pieces
    BY <1>a, <2>1 DEF RequestsTyped, Fields
  <2> HIDE DEF w
  <2>3. /\ lines[i].status = "pending" /\ lines[i].qty = req[r].qty[i]
        /\ lines[i].qty - req[r].pieces = lines[i].planned - taken[i]
        /\ Alone(r)
    BY <1>a, <2>1, CalmSteps DEF CountsToCome
  <2>4. \/ lines'[i] = [lines[i] EXCEPT !.status = "shipped"]
        \/ lines'[i] = [lines[i] EXCEPT !.qty = req[r].qty[i] - req[r].pieces]
    BY <1>5, <1>a, <2>1, <2>3, CalmSteps DEF WriteProgress
  <2>5. /\ lines'[i].status = "shipped" \/ lines'[i].qty = lines'[i].planned - taken'[i]
        /\ lines'[i].status \in {"pending", "shipped"} /\ lines'[i].linked = lines[i].linked
    BY <1>a, <2>1, <2>3, <2>4 DEF Line
  <2>6. \A j \in Pending' : j \in Pending /\ (j # i => lines'[j] = lines[j])
    BY <2>1, <2>3 DEF Pending
  <2>7. \A j \in w.ids : /\ lines'[j].status = "pending" /\ lines'[j].qty = w.qty[j]
                         /\ lines'[j].qty - w.pieces = lines'[j].planned - taken'[j]
    BY <1>a, <2>1, <2>2 DEF CountsToCome, RequestsTyped
  <2>8. \A j \in Pending' : lines'[j].qty = lines'[j].planned - taken'[j] \/ j \in w.ids
    <3>1. \A j \in Pending : lines[j].qty = lines[j].planned - taken[j] \/ j \in req[r].ids
      BY <1>a, <2>3 DEF CountsToCome, Alone
    <3>2. lines'[i].status = "shipped" => i \notin Pending'
      BY DEF Pending
    <3>3. QED
      BY <2>1, <2>2, <2>5, <2>6, <3>1, <3>2
  <2>9. answered' => /\ \A j \in Pending' : j \in split' /\ lines'[j].linked
                     /\ \A j \in split' \ reported' : lines'[j].status # "deleted"
    <3>1. split \subseteq DOMAIN lines
      BY <1>a DEF Typed
    <3>2. QED
      BY <1>a, <2>1, <2>5, <2>6, <3>1 DEF MirrorToCome
  <2>10. QED
    BY <1>a, <2>1, <2>2, <2>3, <2>7, <2>8, <2>9, StepAlone
<1>6. ASSUME NEW r \in Reqs, EndProgress(r)
      PROVE  OneAtATime' /\ CountsToCome' /\ MirrorToCome'
  <2>1. /\ req[r].pc = "write" /\ req[r].ids = {} /\ req' = [req EXCEPT ![r] = Idle]
        /\ UNCHANGED <<lines, split, reported, taken, answered>> /\ Pending' = Pending
    BY <1>6 DEF EndProgress, Return, Pending
  <2>2. Alone(r) /\ \A i \in Pending : lines[i].qty = lines[i].planned - taken[i]
    BY <1>a, <2>1, CalmSteps DEF CountsToCome, Alone
  <2>3. answered => /\ \A i \in Pending : i \in split /\ lines[i].linked
                    /\ \A i \in split \ reported : lines[i].status # "deleted"
    BY <1>a DEF MirrorToCome
  <2>4. QED
    BY <1>a, <2>1, <2>2, <2>3, StepAlone, IdleTyped
<1>7. CASE Crash
  BY <1>7, <1>a, CalmSteps DEF Crash
<1>8. CASE UNCHANGED vars
  BY <1>8, <1>a DEF vars, OneAtATime, CountsToCome, MirrorToCome, Pending
<1>9. QED
  BY <1>1, <1>2, <1>3, <1>4, <1>5, <1>6, <1>7, <1>8 DEF Next

LEMMA InvHolds == Spec => []Inv
<1>1. Init => Inv
  BY InitTyped, InitCalm DEF Inv
<1>2. Inv /\ [Next]_vars => Inv'
  BY TypedHolds, SufficientHolds, CalmHolds DEF Inv, IInv
<1>3. QED
  BY <1>1, <1>2, PTL DEF Spec
-----------------------------------------------------------------------------

\* The plan, OrderCore's split items and the handlers keep their types.
THEOREM TypeCorrect == Spec => []TypeOK
<1>1. Inv => TypeOK
  BY DEF Inv, IInv, Typed, RequestsTyped, TypeOK
<1>2. QED
  BY InvHolds, <1>1, PTL

\* Whatever fails and however handlers interleave, a line is shipped only when
\* shipments took all of it and never waits for less than they left: a lost
\* update of applyShipPlanProgress errs on the side of shipping too much.
THEOREM NeverTooFew == Spec => []NeverUnderdelivers
<1>1. Inv => NeverUnderdelivers
  BY DEF Inv, IInv, Sufficient, NeverUnderdelivers
<1>2. QED
  BY InvHolds, <1>1, PTL

\* While calls come one at a time and the database answers, a plan that was saved
\* without an error is mirrored by OrderCore's split items (PutShipPlan).
THEOREM PlanMirrored == Spec => []Mirrored
<1>1. Inv => Mirrored
  <2> SUFFICES ASSUME Inv, calm, Quiet, answered
               PROVE  /\ \A i \in Pending : i \in split /\ lines[i].linked
                      /\ split \ reported \subseteq
                           DOMAIN lines \ {i \in DOMAIN lines : lines[i].status = "deleted"}
    BY DEF Mirrored, MirroredAtRest
  <2>1. MirrorToCome /\ split \subseteq DOMAIN lines
    BY DEF Inv, CalmInv, IInv, Typed
  <2>2. QED
    BY <2>1 DEF MirrorToCome
<1>2. QED
  BY InvHolds, <1>1, PTL

\* While calls come one at a time and the database answers, what a line waits for
\* is what was planned less what shipments took (applyShipPlanProgress).
THEOREM CountedRight == Spec => []ProgressCounted
<1>1. Inv => ProgressCounted
  <2> SUFFICES ASSUME Inv, calm, Quiet
               PROVE  \A i \in Pending : lines[i].qty = lines[i].planned - taken[i]
    BY DEF ProgressCounted, CountedAtRest
  <2>1. CountsToCome
    BY DEF Inv, CalmInv
  <2>2. QED
    BY <2>1 DEF CountsToCome, Quiet
<1>2. QED
  BY InvHolds, <1>1, PTL

\* A line that is shipped stays so through saved plans and late writes.
THEOREM ShippedRemains == Spec => ShippedStays
<1>1. ASSUME Inv, [Next]_vars
      PROVE  \A i \in DOMAIN lines : lines[i].status = "shipped" => lines'[i].status = "shipped"
  <2> SUFFICES ASSUME NEW i \in DOMAIN lines, lines[i].status = "shipped"
               PROVE  lines'[i].status = "shipped"
    OBVIOUS
  <2>0. Typed /\ lines[i] \in Line
    BY <1>1, LinesNumbered DEF Inv, IInv
  <2>1. ASSUME NEW r \in Reqs, NEW plan \in Plans, SaveLines(r, plan)
        PROVE  lines'[i].status = "shipped"
    BY <2>0, <2>1, LinesReplaced DEF Pending
  <2>2. ASSUME NEW r \in Reqs, LinkSplitItems(r) PROVE lines'[i].status = "shipped"
    <3>1. lines'[i] = lines[i] \/ lines'[i] = [lines[i] EXCEPT !.linked = TRUE]
      BY <2>2 DEF LinkSplitItems
    <3>2. QED
      BY <2>0, <3>1 DEF Line
  <2>3. ASSUME NEW r \in Reqs, NEW j \in DOMAIN lines, WriteProgress(r, j)
        PROVE  lines'[i].status = "shipped"
    <3>1. \/ lines'[i] = lines[i] \/ lines'[i] = [lines[i] EXCEPT !.status = "shipped"]
          \/ \E q : lines'[i] = [lines[i] EXCEPT !.qty = q]
      BY <2>0, <2>3, WrittenLine
    <3>2. QED
      BY <2>0, <3>1 DEF Line
  <2>4. CASE UNCHANGED lines
    BY <2>4
  <2>5. /\ \A r \in Reqs : SyncSplitItems(r) \/ EndProgress(r) => UNCHANGED lines
        /\ \A r \in Reqs : \A ids, n, draft : BeginProgress(r, ids, n, draft) => UNCHANGED lines
        /\ Crash \/ UNCHANGED vars => UNCHANGED lines
    BY DEF SyncSplitItems, EndProgress, BeginProgress, Crash, vars
  <2>6. QED
    BY <1>1, <2>1, <2>2, <2>3, <2>4, <2>5 DEF Next
<1>2. QED
  BY InvHolds, <1>1, PTL DEF Spec, ShippedStays
=============================================================================
