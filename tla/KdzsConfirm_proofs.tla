--------------------------- MODULE KdzsConfirm_proofs ---------------------------
(***************************************************************************)
(* What holds of kdzs shipments however handlers overlap, fail and are cut *)
(* off, for any number of them, of express numbers and of packages.  The   *)
(* plan line and OrderCore's remainder are sums over tables: the lemmas on *)
(* sums give the folds of the model the facts these proofs need.           *)
(***************************************************************************)
EXTENDS KdzsConfirm, FiniteSetTheorems, WellFoundedInduction, TLAPS

Fields == {"pc", "call", "at", "id", "group"}
Columns == {"no", "account", "via", "group"}

IsList(s) == Len(s) \in Nat /\ DOMAIN s = 1 .. Len(s)

\* Tables and handlers have their shape.
Shape ==
  /\ overlap \in BOOLEAN
  /\ \E S : rows \in Seq(S)
  /\ \A i \in DOMAIN rows : Columns \subseteq DOMAIN rows[i]
  /\ req = [r \in Reqs |-> req[r]]
  /\ \A r \in Reqs : Fields \subseteq DOMAIN req[r]
  /\ \A a \in answered : IsList(a.call.packages)

\* In the rows t with OrderCore's parcels c, a number has its shipment and is
\* known to OrderCore, or is SF's.
Done(no, t, c) ==
  \E i \in DOMAIN t : t[i].no = no /\ (no \in DOMAIN c \/ t[i].account)

AllDone(a, t, c) == \A k \in 1 .. Len(a.packages) : Done(a.packages[k].no, t, c)

\* What a handler did of its packages, and what it read of the current one: its
\* shipment is still there, and what OrderCore was told it still knows.
HandlerOK(w, t, c) ==
  w.pc # "idle" =>
    /\ w.pc \in {"find", "ship", "again", "insert", "update", "progress", "upsertOld", "upsertNew"}
    /\ IsList(w.call.packages)
    /\ w.at \in 1 .. Len(w.call.packages)
    /\ w.call.kind # "split" => Len(w.call.packages) = 1
    /\ \A k \in 1 .. w.at - 1 : Done(w.call.packages[k].no, t, c)
    /\ w.pc \in {"again", "update", "upsertOld"} =>
         w.id \in DOMAIN t /\ t[w.id].no = w.call.packages[w.at].no
    /\ w.pc \in {"insert", "update", "upsertOld", "upsertNew"} =>
         w.call.packages[w.at].no \in DOMAIN c
    /\ w.pc = "progress" => AllDone(w.call, t, c)
    /\ w.pc \in {"upsertOld", "upsertNew"} => w.call.kind = "upsert"

Inv ==
  /\ Shape /\ NoOrphan /\ SFStaysSF
  /\ \A r \in Reqs : HandlerOK(req[r], rows, core)
  /\ \A a \in answered : AllDone(a.call, rows, core)

\* Rows are never removed and keep their number and channel, and OrderCore
\* forgets no parcel.
Grows(t, c, u, d) ==
  /\ DOMAIN t \subseteq DOMAIN u
  /\ \A i \in DOMAIN t : u[i].no = t[i].no /\ u[i].account = t[i].account
  /\ DOMAIN c \subseteq DOMAIN d

LEMMA DoneStays ==
  ASSUME NEW t, NEW c, NEW u, NEW d, Grows(t, c, u, d), NEW no, Done(no, t, c)
  PROVE  Done(no, u, d)
<1>1. PICK i \in DOMAIN t : t[i].no = no /\ (no \in DOMAIN c \/ t[i].account)
  BY DEF Done
<1>2. i \in DOMAIN u /\ u[i].no = no /\ (no \in DOMAIN d \/ u[i].account)
  BY <1>1 DEF Grows
<1>3. QED
  BY <1>2 DEF Done

LEMMA AllDoneStays ==
  ASSUME NEW t, NEW c, NEW u, NEW d, Grows(t, c, u, d), NEW a, AllDone(a, t, c)
  PROVE  AllDone(a, u, d)
BY DoneStays DEF AllDone

LEMMA HandlerStays ==
  ASSUME NEW t, NEW c, NEW u, NEW d, Grows(t, c, u, d), NEW w, HandlerOK(w, t, c)
  PROVE  HandlerOK(w, u, d)
<1>1. \A no : Done(no, t, c) => Done(no, u, d)
  BY DoneStays
<1>2. AllDone(w.call, t, c) => AllDone(w.call, u, d)
  BY AllDoneStays
<1>3. QED
  BY <1>1, <1>2 DEF HandlerOK, Grows

LEMMA LeastIn ==
  ASSUME NEW S, S \subseteq Nat, S # {}
  PROVE  \E j \in S : \A i \in S : j <= i
<1>1. PICK j \in S : \A i \in S : <<i, j>> \notin OpToRel(<, Nat)
  BY WFMin, NatLessThanWellFounded, Zenon
<1>2. ASSUME NEW i \in S PROVE j <= i
  <2>1. i \in Nat /\ j \in Nat
    OBVIOUS
  <2>2. ~ (i < j)
    BY <1>1, <2>1, Zenon DEF OpToRel
  <2>3. QED
    BY <2>1, <2>2
<1>3. QED
  BY <1>2

LEMMA MinIn ==
  ASSUME NEW S, S \subseteq Nat, S # {}
  PROVE  Min(S) \in S
BY LeastIn DEF Min

\* The shipment a handler finds is one with its number.
LEMMA ActiveIs ==
  ASSUME Shape, NEW no, Active(no) # {}
  PROVE  Min(Active(no)) \in DOMAIN rows /\ rows[Min(Active(no))].no = no
<1>1. Active(no) \subseteq Nat
  BY DEF Shape, Active
<1>2. Min(Active(no)) \in Active(no)
  BY <1>1, MinIn
<1>3. QED
  BY <1>2 DEF Active

LEMMA TakenGrows ==
  ASSUME NEW no, NEW qty
  PROVE  DOMAIN Taken(no, qty) = DOMAIN core \cup {no}
BY DEF Taken

\* Inserting a row, and changing the group or the label of one.
LEMMA Appended ==
  ASSUME Shape, NEW x, rows' = Append(rows, x)
  PROVE  /\ \E S : rows' \in Seq(S)
         /\ DOMAIN rows' = DOMAIN rows \cup {Len(rows) + 1}
         /\ rows'[Len(rows) + 1] = x
         /\ \A i \in DOMAIN rows : rows'[i] = rows[i]
<1>1. PICK S : rows \in Seq(S)
  BY DEF Shape
<1>2. rows \in Seq(S \cup {x})
  BY <1>1
<1>3. rows' \in Seq(S \cup {x})
  BY <1>2
<1>4. QED
  BY <1>2, <1>3

LEMMA Changed ==
  ASSUME NEW t, \E S : t \in Seq(S), NEW i, i \in DOMAIN t, NEW x
  PROVE  /\ \E S : [t EXCEPT ![i] = x] \in Seq(S)
         /\ DOMAIN [t EXCEPT ![i] = x] = DOMAIN t
         /\ \A j \in DOMAIN t : [t EXCEPT ![i] = x][j] = IF j = i THEN x ELSE t[j]
<1>1. PICK S : t \in Seq(S)
  OBVIOUS
<1>2. t \in Seq(S \cup {x})
  BY <1>1
<1>3. [t EXCEPT ![i] = x] \in Seq(S \cup {x})
  BY <1>2
<1>4. QED
  BY <1>3

\* How a step ends: one handler goes on as w, and what is newly answered is done.
Moves(r, t, c) ==
  /\ \E w : /\ req' = [req EXCEPT ![r] = w]
            /\ Fields \subseteq DOMAIN w
            /\ HandlerOK(w, t, c)
  /\ \A a \in answered' :
       a \in answered \/ (IsList(a.call.packages) /\ AllDone(a.call, t, c))

LEMMA Kept ==
  ASSUME Inv, overlap' = overlap, NEW r \in Reqs,
         \E S : rows' \in Seq(S),
         \A i \in DOMAIN rows' : Columns \subseteq DOMAIN rows'[i],
         NoOrphan', SFStaysSF',
         Grows(rows, core, rows', core'), Moves(r, rows', core')
  PROVE  Inv'
<1>1. PICK w : /\ req' = [req EXCEPT ![r] = w]
               /\ Fields \subseteq DOMAIN w
               /\ HandlerOK(w, rows', core')
  BY DEF Moves
<1>2. /\ req' = [s \in Reqs |-> req'[s]]
      /\ \A s \in Reqs : req'[s] = IF s = r THEN w ELSE req[s]
  BY <1>1 DEF Inv, Shape
<1>3. \A s \in Reqs : HandlerOK(req'[s], rows', core')
  BY <1>1, <1>2, HandlerStays DEF Inv
<1>4. \A a \in answered' : IsList(a.call.packages) /\ AllDone(a.call, rows', core')
  BY AllDoneStays DEF Moves, Inv, Shape
<1>5. Shape'
  BY <1>1, <1>2, <1>4 DEF Inv, Shape
<1>6. QED
  BY <1>3, <1>4, <1>5 DEF Inv

\* The ways a handler goes on.
LEMMA Fails ==
  ASSUME NEW r \in Reqs, Fail(r), NEW t, NEW c
  PROVE  Moves(r, t, c)
<1>1. req' = [req EXCEPT ![r] = Idle] /\ Fields \subseteq DOMAIN Idle /\ HandlerOK(Idle, t, c)
  BY DEF Fail, Fields, Idle, HandlerOK
<1>2. QED
  BY <1>1 DEF Fail, Moves

LEMMA Answers ==
  ASSUME NEW r \in Reqs, Answer(r), NEW t, NEW c,
         IsList(req[r].call.packages), AllDone(req[r].call, t, c)
  PROVE  Moves(r, t, c)
<1>1. \A a \in answered' : a \in answered \/ a.call = req[r].call
  BY DEF Answer
<1>2. req' = [req EXCEPT ![r] = Idle] /\ Fields \subseteq DOMAIN Idle /\ HandlerOK(Idle, t, c)
  BY DEF Answer, Fields, Idle, HandlerOK
<1>3. QED
  BY <1>1, <1>2 DEF Moves

LEMMA Goes ==
  ASSUME NEW r \in Reqs, NEW p, Goto(r, p), UNCHANGED answered, NEW t, NEW c,
         Shape, HandlerOK([req[r] EXCEPT !.pc = p], t, c)
  PROVE  Moves(r, t, c)
<1>1. Fields \subseteq DOMAIN [req[r] EXCEPT !.pc = p]
  BY DEF Shape
<1>2. req' = [req EXCEPT ![r] = [req[r] EXCEPT !.pc = p]]
  BY DEF Goto, Shape
<1>3. QED
  BY <1>1, <1>2 DEF Moves

LEMMA Advances ==
  ASSUME NEW r \in Reqs, Advance(r), NEW t, NEW c, Shape, req[r].pc # "idle",
         HandlerOK(req[r], t, c), Done(Current(r).no, t, c)
  PROVE  Moves(r, t, c)
<1> DEFINE v == req[r]
<1>1. /\ IsList(v.call.packages) /\ v.at \in 1 .. Len(v.call.packages)
      /\ \A k \in 1 .. v.at : Done(v.call.packages[k].no, t, c)
      /\ Fields \subseteq DOMAIN v
      /\ v.call.kind # "split" => Len(v.call.packages) = 1
  BY DEF HandlerOK, Current, IsList, Shape
<1>2. CASE v.at < Len(v.call.packages)
  <2> DEFINE w == [v EXCEPT !.pc = "find", !.at = @ + 1]
  <2>1. req' = [req EXCEPT ![r] = w] /\ UNCHANGED answered
    BY <1>2 DEF Advance, Shape
  <2>2. w.pc = "find" /\ w.at = v.at + 1 /\ w.call = v.call /\ Fields \subseteq DOMAIN w
    BY <1>1 DEF Fields
  <2>3. w.at \in 1 .. Len(w.call.packages) /\ w.at - 1 = v.at
    BY <1>1, <1>2, <2>2 DEF IsList
  <2> HIDE DEF w
  <2>4. HandlerOK(w, t, c)
    BY <1>1, <2>2, <2>3 DEF HandlerOK
  <2>5. QED
    BY <2>1, <2>2, <2>4 DEF Moves
<1>3. CASE ~ (v.at < Len(v.call.packages))
  <2>1. v.at = Len(v.call.packages)
    BY <1>1, <1>3 DEF IsList
  <2>2. AllDone(v.call, t, c)
    BY <1>1, <2>1 DEF AllDone
  <2>3. CASE Kind(r) = "split"
    <3> DEFINE w == [v EXCEPT !.pc = "progress"]
    <3>1. Goto(r, "progress") /\ UNCHANGED answered
      BY <1>3, <2>3 DEF Advance
    <3>2. w.pc = "progress" /\ w.at = v.at /\ w.call = v.call
      BY <1>1 DEF Fields
    <3> HIDE DEF w
    <3>3. HandlerOK(w, t, c)
      BY <1>1, <2>2, <3>2 DEF HandlerOK, IsList
    <3>4. QED
      BY <3>1, <3>3, Goes DEF w
  <2>4. CASE Kind(r) # "split"
    <3>1. Answer(r)
      BY <1>3, <2>4 DEF Advance
    <3>2. QED
      BY <1>1, <2>2, <3>1, Answers
  <2>5. QED
    BY <2>3, <2>4
<1>4. QED
  BY <1>2, <1>3

\* Steps that leave the rows and OrderCore as they are.
LEMMA StillKept ==
  ASSUME Inv, UNCHANGED <<overlap, rows, core>>, NEW r \in Reqs, Moves(r, rows, core)
  PROVE  Inv'
<1>1. Grows(rows, core, rows', core')
  BY DEF Grows
<1>2. NoOrphan' /\ SFStaysSF'
  BY DEF Inv, NoOrphan, SFStaysSF
<1>3. Moves(r, rows', core')
  BY Zenon
<1>4. QED
  BY <1>1, <1>2, <1>3, Kept DEF Inv, Shape

\* Steps that insert a row.
LEMMA InsertKept ==
  ASSUME Inv, UNCHANGED <<overlap, core>>, NEW r \in Reqs, NEW x, rows' = Append(rows, x),
         Columns \subseteq DOMAIN x, x.no \in DOMAIN core \/ x.account,
         x.account => x.via = "sf"
  PROVE  /\ Grows(rows, core, rows', core')
         /\ Done(x.no, rows', core')
         /\ Moves(r, rows', core') => Inv'
<1>1. /\ \E S : rows' \in Seq(S)
      /\ DOMAIN rows' = DOMAIN rows \cup {Len(rows) + 1}
      /\ rows'[Len(rows) + 1] = x
      /\ \A i \in DOMAIN rows : rows'[i] = rows[i]
  <2>1. Shape
    BY DEF Inv
  <2>2. QED
    BY <2>1, Appended, Zenon
<1>2. Grows(rows, core, rows', core')
  BY <1>1 DEF Grows
<1>3. Done(x.no, rows', core')
  BY <1>1 DEF Done
<1>4. NoOrphan' /\ SFStaysSF' /\ \A i \in DOMAIN rows' : Columns \subseteq DOMAIN rows'[i]
  BY <1>1 DEF Inv, Shape, NoOrphan, SFStaysSF
<1>5. QED
  BY <1>1, <1>2, <1>3, <1>4, Kept

\* Steps that change the group or the label of a row.
LEMMA ChangeKept ==
  ASSUME Inv, UNCHANGED <<overlap, core>>, NEW r \in Reqs,
         NEW i, i \in DOMAIN rows, NEW x, rows' = [rows EXCEPT ![i] = x],
         Columns \subseteq DOMAIN x, x.no = rows[i].no, x.account = rows[i].account,
         x.account => x.via = "sf"
  PROVE  /\ Grows(rows, core, rows', core')
         /\ Moves(r, rows', core') => Inv'
<1>1. /\ \E S : rows' \in Seq(S)
      /\ DOMAIN rows' = DOMAIN rows
      /\ \A j \in DOMAIN rows : rows'[j] = IF j = i THEN x ELSE rows[j]
  BY Changed DEF Inv, Shape
<1>2. Grows(rows, core, rows', core')
  BY <1>1 DEF Grows
<1>3. NoOrphan' /\ SFStaysSF' /\ \A j \in DOMAIN rows' : Columns \subseteq DOMAIN rows'[j]
  BY <1>1 DEF Inv, Shape, NoOrphan, SFStaysSF
<1>4. QED
  BY <1>1, <1>2, <1>3, Kept

LEMMA InitHolds == Init => Inv
<1> SUFFICES ASSUME Init PROVE Inv
  OBVIOUS
<1>1. \A r \in Reqs : req[r] = Idle
  BY DEF Init
<1>2. \E S : rows \in Seq(S)
  <2>1. rows \in Seq({})
    BY DEF Init
  <2>2. QED
    BY <2>1
<1>3. DOMAIN rows = {}
  BY DEF Init
<1>4. Shape
  BY <1>1, <1>2, <1>3, KdzsAssumption DEF Init, Shape, Fields, Idle
<1>5. NoOrphan /\ SFStaysSF
  BY <1>3 DEF NoOrphan, SFStaysSF
<1>6. \A r \in Reqs : HandlerOK(req[r], rows, core)
  BY <1>1 DEF HandlerOK, Idle
<1>7. QED
  BY <1>4, <1>5, <1>6 DEF Init, Inv

\* OrderCore and the SF channel, which are no handlers.
LEMMA OthersKeep ==
  ASSUME Inv, NEW no \in Nos, NEW qty, CoreLearns(no, qty) \/ SFShipment(no, qty)
  PROVE  Inv'
<1>1. CASE CoreLearns(no, qty)
  <2>1. UNCHANGED <<overlap, rows, req, answered>> /\ DOMAIN core' = DOMAIN core \cup {no}
    BY <1>1, TakenGrows DEF CoreLearns
  <2>2. Grows(rows, core, rows', core')
    BY <2>1 DEF Grows
  <2>3. \A r \in Reqs : HandlerOK(req'[r], rows', core')
    BY <2>1, <2>2, HandlerStays DEF Inv
  <2>4. \A a \in answered' : AllDone(a.call, rows', core')
    BY <2>1, <2>2, AllDoneStays DEF Inv
  <2>5. Shape'
    BY <2>1 DEF Inv, Shape
  <2>6. NoOrphan' /\ SFStaysSF'
    BY <2>1 DEF Inv, NoOrphan, SFStaysSF
  <2>7. QED
    BY <2>3, <2>4, <2>5, <2>6 DEF Inv
<1>2. CASE SFShipment(no, qty)
  <2> DEFINE x == [no |-> no, qty |-> qty, reship |-> FALSE, account |-> TRUE,
                   via |-> "sf", group |-> 0]
  <2>1. UNCHANGED <<overlap, core, req, answered>> /\ rows' = Append(rows, x)
    BY <1>2 DEF SFShipment
  <2>2. Columns \subseteq DOMAIN x /\ x.account /\ x.via = "sf"
    BY DEF Columns
  <2> HIDE DEF x
  <2>3. /\ \E S : rows' \in Seq(S)
        /\ DOMAIN rows' = DOMAIN rows \cup {Len(rows) + 1}
        /\ rows'[Len(rows) + 1] = x
        /\ \A i \in DOMAIN rows : rows'[i] = rows[i]
    <3>1. Shape
      BY DEF Inv
    <3>2. QED
      BY <2>1, <3>1, Appended, Zenon
  <2>4. Grows(rows, core, rows', core')
    BY <2>1, <2>3 DEF Grows
  <2>5. \A r \in Reqs : HandlerOK(req'[r], rows', core')
    BY <2>1, <2>4, HandlerStays DEF Inv
  <2>6. \A a \in answered' : AllDone(a.call, rows', core')
    BY <2>1, <2>4, AllDoneStays DEF Inv
  <2>7. Shape'
    BY <2>1, <2>2, <2>3 DEF Inv, Shape
  <2>8. NoOrphan' /\ SFStaysSF'
    BY <2>1, <2>2, <2>3 DEF Inv, NoOrphan, SFStaysSF
  <2>9. QED
    BY <2>5, <2>6, <2>7, <2>8 DEF Inv
<1>3. QED
  BY <1>1, <1>2

\* The beginnings of handlers.
LEMMA BeginningsKeep ==
  ASSUME Inv, NEW r \in Reqs, NEW c \in Calls[overlap],
         BeginConfirm(r, c) \/ CreateShipmentGroup(r, c)
  PROVE  Inv'
<1>1. PICK g : Begin(r, c, g)
  BY DEF BeginConfirm, CreateShipmentGroup
<1>2. UNCHANGED <<overlap, rows, core, answered>>
  BY DEF BeginConfirm, CreateShipmentGroup
<1> DEFINE w == [pc |-> "find", call |-> c, at |-> 1, id |-> 0, group |-> g]
<1>3. req' = [req EXCEPT ![r] = w]
  BY <1>1 DEF Begin
<1>4. /\ c.packages \in Seq(Package) /\ c.packages # <<>>
      /\ c.kind # "split" => Len(c.packages) = 1
  BY KdzsAssumption DEF Inv, Shape
<1>5. IsList(c.packages) /\ 1 \in 1 .. Len(c.packages)
  BY <1>4 DEF IsList
<1>6. w.pc = "find" /\ w.call = c /\ w.at = 1 /\ Fields \subseteq DOMAIN w
  BY DEF Fields
<1> HIDE DEF w
<1>7. HandlerOK(w, rows, core)
  BY <1>4, <1>5, <1>6 DEF HandlerOK
<1>8. Moves(r, rows, core)
  BY <1>2, <1>3, <1>6, <1>7 DEF Moves
<1>9. QED
  BY <1>2, <1>8, StillKept

LEMMA UpsertBegins ==
  ASSUME Inv, NEW r \in Reqs, NEW no \in Nos, BeginUpsert(r, no)
  PROVE  Inv'
<1> DEFINE p == IF Active(no) = {} THEN "upsertNew" ELSE "upsertOld"
           i == IF Active(no) = {} THEN 0 ELSE Min(Active(no))
           ps == <<[no |-> no, qty |-> core[no]]>>
           w == [Idle EXCEPT !.pc = p, !.call = [kind |-> "upsert", packages |-> ps],
                             !.at = 1, !.id = i]
<1>1. /\ no \in DOMAIN core /\ req' = [req EXCEPT ![r] = w]
      /\ UNCHANGED <<overlap, rows, core, answered>>
  BY DEF BeginUpsert
<1>2. IsList(ps) /\ Len(ps) = 1 /\ ps[1].no = no
  BY DEF IsList
<1>3. p = "upsertOld" => i \in DOMAIN rows /\ rows[i].no = no
  BY ActiveIs DEF Inv
<1>4. p \in {"upsertNew", "upsertOld"}
  OBVIOUS
<1> HIDE DEF p, i, ps
<1>5. /\ w.pc = p /\ w.call.packages = ps /\ w.call.kind = "upsert" /\ w.at = 1 /\ w.id = i
      /\ Fields \subseteq DOMAIN w
  BY DEF Fields, Idle
<1> HIDE DEF w
<1>6. HandlerOK(w, rows, core)
  <2>1. w.call.packages[w.at].no = no /\ w.at \in 1 .. Len(w.call.packages)
    <3>1. w.call.packages[w.at] = ps[1] /\ Len(w.call.packages) = 1 /\ w.at = 1
      BY <1>2, <1>5, Zenon
    <3>2. QED
      BY <1>2, <3>1
  <2>2. w.pc # "upsertNew" => w.id \in DOMAIN rows /\ rows[w.id].no = no
    BY <1>3, <1>4, <1>5
  <2>3. w.pc \in {"upsertNew", "upsertOld"}
    BY <1>4, <1>5
  <2>4. IsList(w.call.packages) /\ Len(w.call.packages) = 1 /\ w.at = 1
    BY <1>2, <1>5
  <2>5. QED
    BY <1>1, <1>5, <2>1, <2>2, <2>3, <2>4 DEF HandlerOK
<1>7. Moves(r, rows, core)
  BY <1>1, <1>5, <1>6 DEF Moves
<1>8. QED
  BY <1>1, <1>7, StillKept

\* What a handler under way may rely on.
LEMMA Under ==
  ASSUME Inv, NEW r \in Reqs, req[r].pc # "idle"
  PROVE  /\ Shape /\ HandlerOK(req[r], rows, core)
         /\ Fields \subseteq DOMAIN req[r]
         /\ IsList(req[r].call.packages)
         /\ \A p : [req[r] EXCEPT !.pc = p].pc = p
         /\ \A p : LET w == [req[r] EXCEPT !.pc = p] IN
                   w.call = req[r].call /\ w.at = req[r].at /\ w.id = req[r].id
BY DEF Inv, Shape, HandlerOK, Fields

LEMMA FindKeeps ==
  ASSUME Inv, NEW r \in Reqs, findActiveKdzsShipment(r)
  PROVE  Inv'
<1> DEFINE no == Current(r).no
<1>1. req[r].pc = "find" /\ UNCHANGED <<overlap, rows, core>>
  BY DEF findActiveKdzsShipment
<1>2. Shape /\ HandlerOK(req[r], rows, core) /\ Fields \subseteq DOMAIN req[r]
  BY <1>1, Under
<1>3. CASE Goto(r, "ship") /\ UNCHANGED answered
  <2> DEFINE w == [req[r] EXCEPT !.pc = "ship"]
  <2>1. w.pc = "ship" /\ w.call = req[r].call /\ w.at = req[r].at
    BY <1>2 DEF Fields
  <2> HIDE DEF w
  <2>2. HandlerOK(w, rows, core)
    BY <1>1, <1>2, <2>1 DEF HandlerOK
  <2>3. Moves(r, rows, core)
    BY <1>2, <1>3, <2>2, Goes DEF w
  <2>4. QED
    BY <1>1, <2>3, StillKept
<1>4. CASE Fail(r)
  BY <1>1, <1>4, Fails, StillKept
<1>5. CASE Active(no) # {} /\ UNCHANGED answered
           /\ req' = [req EXCEPT ![r].pc = "again", ![r].id = Min(Active(no))]
  <2> DEFINE i == Min(Active(no))
             w == [req[r] EXCEPT !.pc = "again", !.id = i]
  <2>1. i \in DOMAIN rows /\ rows[i].no = no
    BY <1>2, <1>5, ActiveIs
  <2>2. req' = [req EXCEPT ![r] = w]
    BY <1>2, <1>5 DEF Shape
  <2>3. /\ w.pc = "again" /\ w.call = req[r].call /\ w.at = req[r].at /\ w.id = i
        /\ Fields \subseteq DOMAIN w
    BY <1>2 DEF Fields
  <2> HIDE DEF i, w
  <2>4. HandlerOK(w, rows, core)
    BY <1>1, <1>2, <2>1, <2>3 DEF HandlerOK, Current
  <2>5. Moves(r, rows, core)
    BY <1>5, <2>2, <2>3, <2>4 DEF Moves
  <2>6. QED
    BY <1>1, <2>5, StillKept
<1>6. QED
  BY <1>3, <1>4, <1>5 DEF findActiveKdzsShipment

LEMMA ShipKeeps ==
  ASSUME Inv, NEW r \in Reqs, shipOrderCore(r)
  PROVE  Inv'
<1> DEFINE no == Current(r).no
           again == req[r].pc = "again"
           p == IF again THEN "update" ELSE "insert"
<1>1. req[r].pc \in {"ship", "again"} /\ UNCHANGED <<overlap, rows>>
  BY DEF shipOrderCore
<1>2. Shape /\ HandlerOK(req[r], rows, core) /\ Fields \subseteq DOMAIN req[r]
  BY <1>1, Under
<1>3. CASE core' = Taken(no, Reported(r))
  <2>1. DOMAIN core' = DOMAIN core \cup {no}
    BY <1>3, TakenGrows, Zenon
  <2>2. Grows(rows, core, rows', core')
    BY <1>1, <2>1 DEF Grows
  <2>3. NoOrphan' /\ SFStaysSF'
    BY <1>1, <2>1 DEF Inv, NoOrphan, SFStaysSF
  <2>4. HandlerOK(req[r], rows', core')
    BY <1>2, <2>2, HandlerStays
  <2>5. CASE Goto(r, p) /\ UNCHANGED answered
    <3> DEFINE w == [req[r] EXCEPT !.pc = p]
    <3>1. w.pc = p /\ w.call = req[r].call /\ w.at = req[r].at /\ w.id = req[r].id
      BY <1>2 DEF Fields
    <3> HIDE DEF w
    <3>2. HandlerOK(w, rows', core')
      BY <1>1, <2>1, <2>4, <3>1 DEF HandlerOK, Current
    <3>3. Moves(r, rows', core')
      BY <1>2, <2>5, <3>2, Goes DEF w
    <3>4. QED
      BY <1>1, <1>2, <2>2, <2>3, <3>3, Kept DEF Shape
  <2>6. CASE Fail(r)
    BY <1>1, <1>2, <2>2, <2>3, <2>6, Fails, Kept DEF Shape
  <2>7. CASE UNCHANGED core
    <3>1. Fail(r) \/ (again /\ Advance(r)) \/ (Goto(r, p) /\ UNCHANGED answered)
      BY DEF shipOrderCore
    <3>2. CASE again /\ Advance(r)
      <4>1. Done(no, rows, core)
        BY <1>2, <3>2 DEF HandlerOK, Current, Inv, NoOrphan, Done
      <4>2. Moves(r, rows, core)
        BY <1>1, <1>2, <3>2, <4>1, Advances
      <4>3. QED
        BY <1>1, <2>7, <4>2, StillKept
    <3>3. QED
      BY <2>5, <2>6, <3>1, <3>2
  <2>8. QED
    BY <2>5, <2>6, <2>7 DEF shipOrderCore
<1>4. CASE UNCHANGED core /\ (Fail(r) \/ (again /\ Advance(r)))
  <2>1. CASE Fail(r)
    BY <1>1, <1>4, <2>1, Fails, StillKept
  <2>2. CASE again /\ Advance(r)
    <3>1. Done(no, rows, core)
      BY <1>2, <2>2 DEF HandlerOK, Current, Inv, NoOrphan, Done
    <3>2. Moves(r, rows, core)
      BY <1>1, <1>2, <2>2, <3>1, Advances
    <3>3. QED
      BY <1>1, <1>4, <3>2, StillKept
  <2>3. QED
    BY <1>4, <2>1, <2>2
<1>5. QED
  BY <1>3, <1>4 DEF shipOrderCore

LEMMA UpdateKeeps ==
  ASSUME Inv, NEW r \in Reqs, UpdateExisting(r)
  PROVE  Inv'
<1> DEFINE no == Current(r).no
           i == req[r].id
<1>1. req[r].pc = "update" /\ Advance(r) /\ UNCHANGED <<overlap, core>>
  BY DEF UpdateExisting
<1>2. Shape /\ HandlerOK(req[r], rows, core)
  BY <1>1, Under
<1>3. i \in DOMAIN rows /\ rows[i].no = no /\ no \in DOMAIN core
  BY <1>1, <1>2 DEF HandlerOK, Current
<1>4. Done(no, rows, core)
  BY <1>3 DEF Done
<1>5. CASE UNCHANGED rows
  BY <1>1, <1>2, <1>4, <1>5, Advances, StillKept
<1>6. CASE rows' = [rows EXCEPT ![i].group = IF req[r].group = 0 THEN @ ELSE req[r].group]
  <2> DEFINE x == [rows[i] EXCEPT !.group = IF req[r].group = 0 THEN @ ELSE req[r].group]
  <2>1. rows' = [rows EXCEPT ![i] = x]
    BY <1>3, <1>6
  <2>2. Columns \subseteq DOMAIN rows[i]
    BY <1>3 DEF Inv, Shape
  <2>3. /\ Columns \subseteq DOMAIN x
        /\ x.no = rows[i].no /\ x.account = rows[i].account /\ x.via = rows[i].via
    BY <2>2 DEF Columns
  <2> HIDE DEF x
  <2>4. x.account => x.via = "sf"
    BY <1>3, <2>3 DEF Inv, SFStaysSF
  <2>5. Grows(rows, core, rows', core') /\ (Moves(r, rows', core') => Inv')
    BY <1>1, <1>3, <2>1, <2>3, <2>4, ChangeKept
  <2>6. HandlerOK(req[r], rows', core') /\ Done(no, rows', core')
    BY <1>2, <1>4, <2>5, HandlerStays, DoneStays
  <2>7. Moves(r, rows', core')
    BY <1>1, <1>2, <2>6, Advances
  <2>8. QED
    BY <2>5, <2>7
<1>7. QED
  BY <1>5, <1>6 DEF UpdateExisting

LEMMA InsertKeeps ==
  ASSUME Inv, NEW r \in Reqs, InsertShipment(r)
  PROVE  Inv'
<1> DEFINE no == Current(r).no
           x == [no |-> no, qty |-> Current(r).qty, reship |-> Kind(r) = "reship",
                 account |-> FALSE, via |-> "kdzs", group |-> req[r].group]
<1>1. req[r].pc = "insert" /\ UNCHANGED <<overlap, core>>
  BY DEF InsertShipment
<1>2. Shape /\ HandlerOK(req[r], rows, core) /\ Fields \subseteq DOMAIN req[r]
  BY <1>1, Under
<1>3. no \in DOMAIN core
  BY <1>1, <1>2 DEF HandlerOK, Current
<1>4. CASE Fail(r) /\ UNCHANGED rows
  BY <1>1, <1>4, Fails, StillKept
<1>5. CASE rows' = Append(rows, x)
           /\ (Advance(r) \/ (Kind(r) # "split" /\ Goto(r, "progress") /\ UNCHANGED answered))
  <2>1. Columns \subseteq DOMAIN x /\ x.no = no /\ ~x.account
    BY DEF Columns
  <2> HIDE DEF x
  <2>2. /\ Grows(rows, core, rows', core') /\ Done(no, rows', core')
        /\ Moves(r, rows', core') => Inv'
    BY <1>1, <1>3, <1>5, <2>1, InsertKept
  <2>3. HandlerOK(req[r], rows', core')
    BY <1>2, <2>2, HandlerStays
  <2>4. CASE Advance(r)
    BY <1>1, <1>2, <2>2, <2>3, <2>4, Advances
  <2>5. CASE Kind(r) # "split" /\ Goto(r, "progress") /\ UNCHANGED answered
    <3> DEFINE w == [req[r] EXCEPT !.pc = "progress"]
    <3>1. w.pc = "progress" /\ w.call = req[r].call /\ w.at = req[r].at
      BY <1>2 DEF Fields
    <3> HIDE DEF w
    <3>2. Len(req[r].call.packages) = 1 /\ req[r].at = 1
      BY <1>1, <1>2, <2>5 DEF HandlerOK, Kind
    <3>3. AllDone(req[r].call, rows', core')
      BY <2>2, <3>2 DEF AllDone, Current
    <3>4. HandlerOK(w, rows', core')
      BY <1>1, <2>3, <3>1, <3>3 DEF HandlerOK
    <3>5. Moves(r, rows', core')
      BY <1>2, <2>5, <3>4, Goes DEF w
    <3>6. QED
      BY <2>2, <3>5
  <2>6. QED
    BY <1>5, <2>4, <2>5
<1>6. QED
  BY <1>4, <1>5 DEF InsertShipment

LEMMA ProgressKeeps ==
  ASSUME Inv, NEW r \in Reqs, ApplyShipPlanProgress(r)
  PROVE  Inv'
<1>1. req[r].pc = "progress" /\ Answer(r) /\ UNCHANGED <<overlap, rows, core>>
  BY DEF ApplyShipPlanProgress
<1>2. HandlerOK(req[r], rows, core) /\ IsList(req[r].call.packages)
  BY <1>1, Under
<1>3. AllDone(req[r].call, rows, core)
  BY <1>1, <1>2 DEF HandlerOK
<1>4. QED
  BY <1>1, <1>2, <1>3, Answers, StillKept

\* A sync has one parcel: it is done with it.
LEMMA UpsertDone ==
  ASSUME NEW w, NEW t, NEW c, HandlerOK(w, t, c), w.pc \in {"upsertOld", "upsertNew"},
         Done(w.call.packages[w.at].no, t, c)
  PROVE  AllDone(w.call, t, c)
<1>1. Len(w.call.packages) = 1 /\ w.at = 1
  BY DEF HandlerOK
<1>2. QED
  BY <1>1 DEF AllDone

LEMMA UpsertKeeps ==
  ASSUME Inv, NEW r \in Reqs, UpsertExisting(r) \/ UpsertNew(r)
  PROVE  Inv'
<1> DEFINE no == Current(r).no
           i == req[r].id
<1>1. req[r].pc \in {"upsertOld", "upsertNew"} /\ UNCHANGED <<overlap, core>>
  BY DEF UpsertExisting, UpsertNew
<1>2. Shape /\ HandlerOK(req[r], rows, core) /\ IsList(req[r].call.packages)
  BY <1>1, Under
<1>3. no \in DOMAIN core
  BY <1>1, <1>2 DEF HandlerOK, Current
<1>4. CASE Fail(r) /\ UNCHANGED rows
  BY <1>1, <1>4, Fails, StillKept
<1>5. CASE UpsertExisting(r) /\ Answer(r)
           /\ rows' = [rows EXCEPT ![i].via = IF rows[i].account THEN "sf" ELSE "kdzs"]
  <2> DEFINE x == [rows[i] EXCEPT !.via = IF rows[i].account THEN "sf" ELSE "kdzs"]
  <2>1. i \in DOMAIN rows /\ rows[i].no = no
    BY <1>2, <1>5 DEF HandlerOK, Current, UpsertExisting
  <2>2. rows' = [rows EXCEPT ![i] = x]
    BY <1>5, <2>1
  <2>3. Columns \subseteq DOMAIN rows[i]
    BY <2>1 DEF Inv, Shape
  <2>4. /\ Columns \subseteq DOMAIN x
        /\ x.no = rows[i].no /\ x.account = rows[i].account
        /\ x.via = IF rows[i].account THEN "sf" ELSE "kdzs"
    BY <2>3 DEF Columns
  <2> HIDE DEF x
  <2>5. x.account => x.via = "sf"
    BY <2>4
  <2>6. Grows(rows, core, rows', core') /\ (Moves(r, rows', core') => Inv')
    BY <1>1, <2>1, <2>2, <2>4, <2>5, ChangeKept
  <2>7. Done(no, rows, core)
    BY <1>3, <2>1 DEF Done
  <2>8. AllDone(req[r].call, rows, core)
    BY <1>1, <1>2, <2>7, UpsertDone DEF Current
  <2>9. AllDone(req[r].call, rows', core')
    BY <2>6, <2>8, AllDoneStays
  <2>10. QED
    BY <1>2, <1>5, <2>6, <2>9, Answers
<1>6. CASE UpsertNew(r) /\ Answer(r)
           /\ rows' = Append(rows, [no |-> no, qty |-> Current(r).qty, reship |-> FALSE,
                                    account |-> FALSE, via |-> "kdzs", group |-> 0])
  <2> DEFINE x == [no |-> no, qty |-> Current(r).qty, reship |-> FALSE,
                   account |-> FALSE, via |-> "kdzs", group |-> 0]
  <2>1. Columns \subseteq DOMAIN x /\ x.no = no /\ ~x.account
    BY DEF Columns
  <2>2. rows' = Append(rows, x)
    BY <1>6
  <2> HIDE DEF x
  <2>3. /\ Grows(rows, core, rows', core') /\ Done(no, rows', core')
        /\ Moves(r, rows', core') => Inv'
    BY <1>1, <1>3, <2>1, <2>2, InsertKept
  <2>4. HandlerOK(req[r], rows', core')
    BY <1>2, <2>3, HandlerStays
  <2>5. AllDone(req[r].call, rows', core')
    BY <1>1, <2>3, <2>4, UpsertDone DEF Current
  <2>6. QED
    BY <1>2, <1>6, <2>3, <2>5, Answers
<1>7. QED
  BY <1>4, <1>5, <1>6 DEF UpsertExisting, UpsertNew

LEMMA CrashKeeps ==
  ASSUME Inv, Crash
  PROVE  Inv'
<1>1. \A r \in Reqs : req'[r] = Idle
  BY DEF Crash
<1>2. UNCHANGED <<overlap, rows, core, answered>> /\ req' = [r \in Reqs |-> req'[r]]
  BY DEF Crash
<1>3. Shape'
  BY <1>1, <1>2 DEF Inv, Shape, Fields, Idle
<1>4. \A r \in Reqs : HandlerOK(req'[r], rows', core')
  BY <1>1 DEF HandlerOK, Idle
<1>5. \A a \in answered' : AllDone(a.call, rows', core')
  BY <1>2 DEF Inv
<1>6. NoOrphan' /\ SFStaysSF'
  BY <1>2 DEF Inv, NoOrphan, SFStaysSF
<1>7. QED
  BY <1>3, <1>4, <1>5, <1>6 DEF Inv

LEMMA StepsKeep == Inv /\ [Next]_vars => Inv'
<1> SUFFICES ASSUME Inv, [Next]_vars PROVE Inv'
  OBVIOUS
<1>1. ASSUME NEW r \in Reqs, HandlerStep(r) PROVE Inv'
  BY <1>1, FindKeeps, ShipKeeps, UpdateKeeps, InsertKeeps, ProgressKeeps, UpsertKeeps
     DEF HandlerStep
<1>2. CASE UNCHANGED vars
  <2>1. UNCHANGED <<overlap, rows, core, req, answered>>
    BY <1>2 DEF vars
  <2>2. Shape' /\ NoOrphan' /\ SFStaysSF'
    BY <2>1 DEF Inv, Shape, NoOrphan, SFStaysSF
  <2>3. \A r \in Reqs : HandlerOK(req'[r], rows', core')
    BY <2>1 DEF Inv
  <2>4. \A a \in answered' : AllDone(a.call, rows', core')
    BY <2>1 DEF Inv
  <2>5. QED
    BY <2>2, <2>3, <2>4 DEF Inv
<1>3. QED
  BY <1>1, <1>2, BeginningsKeep, UpsertBegins, OthersKeep, CrashKeeps DEF Next

LEMMA Invariance == Spec => []Inv
<1>1. QED
  BY InitHolds, StepsKeep, PTL DEF Spec

\* No kdzs shipment exists that OrderCore does not know, whatever fails, is cut
\* off or runs at the same time: shipOrderCore comes before the insert and before
\* the answer of a sync.
THEOREM NoneOrphaned == Spec => []NoOrphan
<1>1. Inv => NoOrphan
  BY DEF Inv
<1>2. QED
  BY <1>1, Invariance, PTL

\* A sync never turns a shipment of the SF channel into a kdzs one.
THEOREM SFRemains == Spec => []SFStaysSF
<1>1. Inv => SFStaysSF
  BY DEF Inv
<1>2. QED
  BY <1>1, Invariance, PTL

\* A confirmation, split or sync that was answered without an error has a
\* shipment for each of its parcels, known to OrderCore or made by SF.
THEOREM AnswersTrue == Spec => []AnswersHold
<1>1. Inv => AnswersHold
  <2> SUFFICES ASSUME Inv, NEW a \in answered, NEW k \in DOMAIN a.call.packages
               PROVE  LET no == a.call.packages[k].no IN
                      Active(no) # {} /\ (no \in DOMAIN core \/ \E i \in Active(no) : rows[i].account)
    BY DEF AnswersHold
  <2>1. Done(a.call.packages[k].no, rows, core)
    BY DEF Inv, Shape, IsList, AllDone
  <2>2. QED
    BY <2>1 DEF Done, Active
<1>2. QED
  BY <1>1, Invariance, PTL

-----------------------------------------------------------------------------
(* Handlers that run one at a time.                                        *)

\* A handler that is about to insert a shipment has not been overtaken: there is
\* still none with the number it looked for.
NoneYet(w, t) ==
  w.pc \in {"ship", "insert", "upsertNew"} =>
    \A i \in DOMAIN t : t[i].no # w.call.packages[w.at].no

NumbersApart(t) == \A i, j \in DOMAIN t : t[i].no = t[j].no => i = j

Alone(r) == \A s \in Reqs : s # r => req[s].pc = "idle"

OneByOne ==
  ~overlap =>
    /\ \A r \in Reqs : req[r].pc # "idle" => Alone(r)
    /\ NumbersApart(rows)
    /\ \A r \in Reqs : NoneYet(req[r], rows)

\* What is to be shown of a step that r takes alone.
LEMMA StepAlone ==
  ASSUME Inv, overlap' = overlap, NEW r \in Reqs, ~overlap => Alone(r),
         NEW w, req' = [req EXCEPT ![r] = w],
         ~overlap => NumbersApart(rows') /\ NoneYet(w, rows')
  PROVE  OneByOne'
<1>1. req'[r] = w /\ \A s \in Reqs : s # r => req'[s] = req[s]
  BY DEF Inv, Shape
<1> SUFFICES ASSUME ~overlap
             PROVE  /\ \A s \in Reqs : req'[s].pc # "idle" => Alone(s)'
                    /\ NumbersApart(rows')
                    /\ \A s \in Reqs : NoneYet(req'[s], rows')
  BY DEF OneByOne
<1>2. \A s \in Reqs : s # r => req'[s].pc = "idle"
  BY <1>1 DEF Alone
<1>3. QED
  BY <1>1, <1>2 DEF Alone, NoneYet

\* Rows that keep their numbers, and a row with a new one.
LEMMA SameNumbers ==
  ASSUME NEW t, NEW u, NumbersApart(t), DOMAIN u = DOMAIN t,
         \A i \in DOMAIN t : u[i].no = t[i].no
  PROVE  NumbersApart(u) /\ \A w : NoneYet(w, t) => NoneYet(w, u)
BY DEF NumbersApart, NoneYet

LEMMA AnotherNumber ==
  ASSUME NEW x, rows' = Append(rows, x), NumbersApart(rows), Shape,
         \A i \in DOMAIN rows : rows[i].no # x.no
  PROVE  NumbersApart(rows')
<1>1. /\ DOMAIN rows' = DOMAIN rows \cup {Len(rows) + 1}
      /\ rows'[Len(rows) + 1] = x
      /\ \A i \in DOMAIN rows : rows'[i] = rows[i]
  BY Appended, Zenon
<1>2. QED
  BY <1>1 DEF NumbersApart

LEMMA FailsTo ==
  ASSUME NEW r \in Reqs, Fail(r) \/ Answer(r)
  PROVE  \E w : req' = [req EXCEPT ![r] = w] /\ w.pc = "idle"
<1>1. Idle.pc = "idle"
  BY DEF Idle
<1>2. req' = [req EXCEPT ![r] = Idle]
  BY DEF Fail, Answer
<1>3. QED
  BY <1>1, <1>2

\* Where Advance leads.
LEMMA AdvancesTo ==
  ASSUME Inv, NEW r \in Reqs, Advance(r)
  PROVE  \E w : req' = [req EXCEPT ![r] = w] /\ w.pc \in {"find", "progress", "idle"}
<1>1. Fields \subseteq DOMAIN req[r]
  BY DEF Inv, Shape
<1>2. CASE req' = [req EXCEPT ![r].pc = "find", ![r].at = @ + 1]
  <2> DEFINE w == [req[r] EXCEPT !.pc = "find", !.at = @ + 1]
  <2>1. req' = [req EXCEPT ![r] = w]
    BY <1>2 DEF Inv, Shape
  <2>2. w.pc = "find"
    BY <1>1 DEF Fields
  <2> HIDE DEF w
  <2>3. QED
    BY <2>1, <2>2
<1>3. CASE Goto(r, "progress")
  <2>1. req' = [req EXCEPT ![r] = [req[r] EXCEPT !.pc = "progress"]]
    BY <1>3 DEF Goto, Inv, Shape
  <2>2. [req[r] EXCEPT !.pc = "progress"].pc = "progress"
    BY <1>1 DEF Fields
  <2>3. QED
    BY <2>1, <2>2
<1>4. CASE Answer(r)
  BY <1>4, FailsTo
<1>5. QED
  BY <1>2, <1>3, <1>4 DEF Advance

\* A handler goes on with the same parcel.
LEMMA GoesTo ==
  ASSUME Inv, NEW r \in Reqs, NEW p, Goto(r, p)
  PROVE  \E w : /\ req' = [req EXCEPT ![r] = w] /\ w.pc = p
                /\ w.call = req[r].call /\ w.at = req[r].at
<1> DEFINE w == [req[r] EXCEPT !.pc = p]
<1>1. Fields \subseteq DOMAIN req[r]
  BY DEF Inv, Shape
<1>2. w.pc = p /\ w.call = req[r].call /\ w.at = req[r].at
  BY <1>1 DEF Fields
<1>3. req' = [req EXCEPT ![r] = w]
  BY DEF Goto, Inv, Shape
<1> HIDE DEF w
<1>4. QED
  BY <1>2, <1>3

LEMMA OneByOneHolds ==
  ASSUME Inv, OneByOne, [Next]_vars
  PROVE  OneByOne'
<1>0. overlap' = overlap
  BY DEF Next, vars, HandlerStep, BeginConfirm, CreateShipmentGroup, BeginUpsert,
         findActiveKdzsShipment, shipOrderCore, UpdateExisting, InsertShipment,
         ApplyShipPlanProgress, UpsertExisting, UpsertNew, CoreLearns, SFShipment, Crash
<1>a. ~overlap => /\ \A r \in Reqs : req[r].pc # "idle" => Alone(r)
                  /\ \A r \in Reqs : MayStart => Alone(r)
                  /\ NumbersApart(rows) /\ \A r \in Reqs : NoneYet(req[r], rows)
  BY DEF OneByOne, MayStart, Quiet, Alone
\* Steps after which the handler is not about to insert anything.
<1>b. ASSUME NEW r \in Reqs, ~overlap => Alone(r), UNCHANGED rows,
             NEW w, req' = [req EXCEPT ![r] = w], w.pc \notin {"ship", "insert", "upsertNew"}
      PROVE  OneByOne'
  BY <1>0, <1>a, <1>b, StepAlone DEF NoneYet
<1>1. ASSUME NEW r \in Reqs, NEW c, BeginConfirm(r, c) \/ CreateShipmentGroup(r, c)
      PROVE  OneByOne'
  <2>1. PICK g : Begin(r, c, g)
    BY <1>1 DEF BeginConfirm, CreateShipmentGroup
  <2>2. MayStart /\ UNCHANGED rows
    BY <1>1 DEF BeginConfirm, CreateShipmentGroup
  <2> DEFINE w == [pc |-> "find", call |-> c, at |-> 1, id |-> 0, group |-> g]
  <2>3. req' = [req EXCEPT ![r] = w] /\ w.pc = "find"
    BY <2>1 DEF Begin
  <2> HIDE DEF w
  <2>4. QED
    BY <1>a, <1>b, <2>2, <2>3
<1>2. ASSUME NEW r \in Reqs, NEW no \in Nos, BeginUpsert(r, no) PROVE OneByOne'
  <2> DEFINE p == IF Active(no) = {} THEN "upsertNew" ELSE "upsertOld"
             i == IF Active(no) = {} THEN 0 ELSE Min(Active(no))
             q == [kind |-> "upsert", packages |-> <<[no |-> no, qty |-> core[no]]>>]
             w == [Idle EXCEPT !.pc = p, !.call = q, !.at = 1, !.id = i]
  <2>1. MayStart /\ UNCHANGED rows /\ req' = [req EXCEPT ![r] = w]
    BY <1>2 DEF BeginUpsert
  <2>2. q.packages[1].no = no
    OBVIOUS
  <2> HIDE DEF q, i
  <2>3. w.pc = p /\ w.call = q /\ w.at = 1
    BY DEF Idle
  <2> HIDE DEF w
  <2>4. NoneYet(w, rows)
    BY <2>2, <2>3 DEF NoneYet, Active
  <2>5. QED
    BY <1>0, <1>a, <2>1, <2>4, StepAlone
<1>3. ASSUME NEW r \in Reqs, findActiveKdzsShipment(r) PROVE OneByOne'
  <2>1. req[r].pc = "find" /\ UNCHANGED rows
    BY <1>3 DEF findActiveKdzsShipment
  <2>2. CASE Active(Current(r).no) = {} /\ Goto(r, "ship")
    <3>1. PICK w : /\ req' = [req EXCEPT ![r] = w] /\ w.pc = "ship"
                   /\ w.call = req[r].call /\ w.at = req[r].at
      BY <2>2, GoesTo
    <3>2. NoneYet(w, rows)
      BY <2>2, <3>1 DEF NoneYet, Active, Current
    <3>3. QED
      BY <1>0, <1>a, <2>1, <3>1, <3>2, StepAlone
  <2>3. CASE Fail(r)
    BY <1>a, <1>b, <2>1, <2>3, FailsTo
  <2>4. CASE req' = [req EXCEPT ![r].pc = "again", ![r].id = Min(Active(Current(r).no))]
    <3> DEFINE m == Min(Active(Current(r).no))
               w == [req[r] EXCEPT !.pc = "again", !.id = m]
    <3>1. req' = [req EXCEPT ![r] = w]
      BY <2>4 DEF Inv, Shape
    <3> HIDE DEF m
    <3>2. w.pc = "again"
      BY DEF Inv, Shape, Fields
    <3> HIDE DEF w
    <3>3. QED
      BY <1>a, <1>b, <2>1, <3>1, <3>2
  <2>5. QED
    BY <1>3, <2>2, <2>3, <2>4 DEF findActiveKdzsShipment
<1>4. ASSUME NEW r \in Reqs, shipOrderCore(r) PROVE OneByOne'
  <2>1. req[r].pc \in {"ship", "again"} /\ UNCHANGED rows
    BY <1>4 DEF shipOrderCore
  <2>2. CASE Fail(r) \/ Advance(r)
    BY <1>a, <1>b, <2>1, <2>2, FailsTo, AdvancesTo
  <2>3. CASE Goto(r, IF req[r].pc = "again" THEN "update" ELSE "insert")
    <3>1. PICK w : /\ req' = [req EXCEPT ![r] = w]
                   /\ w.pc = (IF req[r].pc = "again" THEN "update" ELSE "insert")
                   /\ w.call = req[r].call /\ w.at = req[r].at
      BY <2>3, GoesTo
    <3>2. ~overlap => NoneYet(w, rows)
      BY <1>a, <2>1, <3>1 DEF NoneYet
    <3>3. QED
      BY <1>0, <1>a, <2>1, <3>1, <3>2, StepAlone
  <2>4. QED
    BY <1>4, <2>2, <2>3 DEF shipOrderCore
<1>5. ASSUME NEW r \in Reqs, UpdateExisting(r) PROVE OneByOne'
  <2>1. req[r].pc = "update" /\ req[r].id \in DOMAIN rows
    BY <1>5, Under DEF UpdateExisting, HandlerOK
  <2>2. PICK w : req' = [req EXCEPT ![r] = w] /\ w.pc \in {"find", "progress", "idle"}
    BY <1>5, AdvancesTo DEF UpdateExisting
  <2>3. DOMAIN rows' = DOMAIN rows /\ \A i \in DOMAIN rows : rows'[i].no = rows[i].no
    BY <1>5, <2>1 DEF UpdateExisting, Inv, Shape, Columns
  <2>4. QED
    BY <1>0, <1>a, <2>1, <2>2, <2>3, SameNumbers, StepAlone DEF NoneYet
<1>6. ASSUME NEW r \in Reqs, InsertShipment(r) PROVE OneByOne'
  <2> DEFINE x == [no |-> Current(r).no, qty |-> Current(r).qty, reship |-> Kind(r) = "reship",
                   account |-> FALSE, via |-> "kdzs", group |-> req[r].group]
  <2>1. req[r].pc = "insert"
    BY <1>6 DEF InsertShipment
  <2>2. CASE Fail(r) /\ UNCHANGED rows
    BY <1>a, <1>b, <2>1, <2>2, FailsTo
  <2>3. CASE rows' = Append(rows, x)
    <3>1. x.no = Current(r).no
      OBVIOUS
    <3> HIDE DEF x
    <3>2. ~overlap => NumbersApart(rows')
      BY <1>a, <2>1, <2>3, <3>1, AnotherNumber DEF NoneYet, Current, Inv
    <3>3. \E w : req' = [req EXCEPT ![r] = w] /\ w.pc \in {"find", "progress", "idle"}
      <4>1. CASE Advance(r)
        BY <4>1, AdvancesTo
      <4>2. CASE Goto(r, "progress")
        BY <4>2, GoesTo
      <4>3. CASE Fail(r)
        BY <4>3, FailsTo
      <4>4. QED
        BY <1>6, <4>1, <4>2, <4>3 DEF InsertShipment
    <3>4. QED
      BY <1>0, <1>a, <2>1, <3>2, <3>3, StepAlone DEF NoneYet
  <2>4. QED
    BY <1>6, <2>2, <2>3 DEF InsertShipment
<1>7. ASSUME NEW r \in Reqs, ApplyShipPlanProgress(r) PROVE OneByOne'
  BY <1>7, <1>a, <1>b, FailsTo DEF ApplyShipPlanProgress
<1>8. ASSUME NEW r \in Reqs, UpsertExisting(r) PROVE OneByOne'
  <2>1. req[r].pc = "upsertOld" /\ req[r].id \in DOMAIN rows
    BY <1>8, Under DEF UpsertExisting, HandlerOK
  <2>2. PICK w : req' = [req EXCEPT ![r] = w] /\ w.pc = "idle"
    BY <1>8, FailsTo DEF UpsertExisting
  <2>3. DOMAIN rows' = DOMAIN rows /\ \A i \in DOMAIN rows : rows'[i].no = rows[i].no
    BY <1>8, <2>1 DEF UpsertExisting, Inv, Shape, Columns
  <2>4. QED
    BY <1>0, <1>a, <2>1, <2>2, <2>3, SameNumbers, StepAlone DEF NoneYet
<1>9. ASSUME NEW r \in Reqs, UpsertNew(r) PROVE OneByOne'
  <2> DEFINE x == [no |-> Current(r).no, qty |-> Current(r).qty, reship |-> FALSE,
                   account |-> FALSE, via |-> "kdzs", group |-> 0]
  <2>1. req[r].pc = "upsertNew" /\ (Answer(r) \/ Fail(r))
    BY <1>9 DEF UpsertNew
  <2>2. CASE UNCHANGED rows
    BY <1>a, <1>b, <2>1, <2>2, FailsTo
  <2>3. CASE rows' = Append(rows, x)
    <3>1. x.no = Current(r).no
      OBVIOUS
    <3> HIDE DEF x
    <3>2. ~overlap => NumbersApart(rows')
      BY <1>a, <2>1, <2>3, <3>1, AnotherNumber DEF NoneYet, Current, Inv
    <3>3. QED
      BY <1>0, <1>a, <2>1, <3>2, FailsTo, StepAlone DEF NoneYet
  <2>4. QED
    BY <1>9, <2>2, <2>3 DEF UpsertNew
<1>10. ASSUME NEW no \in Nos, NEW qty, CoreLearns(no, qty) PROVE OneByOne'
  BY <1>10 DEF CoreLearns, OneByOne, Alone
<1>11. ASSUME NEW no \in Nos, NEW qty, SFShipment(no, qty) PROVE OneByOne'
  <2> DEFINE x == [no |-> no, qty |-> qty, reship |-> FALSE, account |-> TRUE,
                   via |-> "sf", group |-> 0]
  <2>1. /\ rows' = Append(rows, x) /\ req' = req /\ MayStart
        /\ \A i \in DOMAIN rows : rows[i].no # no
    BY <1>11 DEF SFShipment, Active
  <2>2. x.no = no
    OBVIOUS
  <2> HIDE DEF x
  <2>3. ~overlap => NumbersApart(rows')
    BY <1>a, <2>1, <2>2, AnotherNumber DEF Inv
  <2>4. ~overlap => \A r \in Reqs : req[r].pc = "idle"
    BY <2>1 DEF MayStart, Quiet
  <2>5. QED
    BY <1>0, <2>1, <2>3, <2>4 DEF OneByOne, Alone, NoneYet
<1>12. CASE Crash
  BY <1>12 DEF Crash, OneByOne, Alone, Idle, NoneYet
<1>13. CASE UNCHANGED vars
  BY <1>13 DEF vars, OneByOne, Alone
<1>14. QED
  BY <1>1, <1>2, <1>3, <1>4, <1>5, <1>6, <1>7, <1>8, <1>9, <1>10, <1>11, <1>12, <1>13
  DEF Next, HandlerStep

\* While handlers run one at a time, a confirmation that is sent again or a sync
\* of its parcel uses the shipment that exists, after whatever failed and wherever
\* the process stopped (findActiveKdzsShipment before every insert).
THEOREM RepeatsFind == Spec => []RepeatsReuse
<1>1. Init => OneByOne
  BY DEF Init, OneByOne, Alone, Idle, NumbersApart, NoneYet
<1>2. Inv /\ OneByOne => RepeatsReuse
  <2> SUFFICES ASSUME OneByOne, ~overlap, NEW no \in Nos
               PROVE  Cardinality(Active(no)) <= 1
    BY DEF RepeatsReuse, OneShipmentPerNumber
  <2>1. \A i, j \in Active(no) : i = j
    BY DEF OneByOne, NumbersApart, Active
  <2>2. CASE Active(no) = {}
    BY <2>2, FS_EmptySet
  <2>3. CASE Active(no) # {}
    <3>1. PICK i : Active(no) = {i}
      BY <2>1, <2>3
    <3>2. Cardinality({i}) = 1
      BY FS_Singleton
    <3>3. QED
      BY <3>1, <3>2
  <2>4. QED
    BY <2>2, <2>3
<1>3. QED
  BY Invariance, OneByOneHolds, <1>1, <1>2, PTL DEF Spec

-----------------------------------------------------------------------------
(* Sums.                                                                   *)

\* Induction over the subsets of a finite set, for a set of them.
LEMMA Subsets ==
  ASSUME NEW D, IsFiniteSet(D), NEW Good,
         \A s \in SUBSET D : (\A x \in s : s \ {x} \in Good) => s \in Good
  PROVE  SUBSET D \subseteq Good
<1> DEFINE Bad == {s \in SUBSET D : s \notin Good}
           Sizes == {Cardinality(s) : s \in Bad}
<1>1. \A s \in SUBSET D : IsFiniteSet(s) /\ Cardinality(s) \in Nat
  BY FS_Subset, FS_CardinalityType
<1>2. SUFFICES ASSUME Bad # {} PROVE FALSE
  OBVIOUS
<1>3. Sizes \subseteq Nat /\ Sizes # {}
  BY <1>1, <1>2
<1> HIDE DEF Sizes
<1>4. PICK n \in Sizes : \A m \in Sizes : n <= m
  BY <1>3, LeastIn
<1> USE DEF Sizes
<1>5. PICK s \in Bad : n = Cardinality(s)
  BY <1>4
<1>6. PICK x \in s : s \ {x} \notin Good
  BY <1>5
<1>7. s \ {x} \in Bad /\ Cardinality(s \ {x}) = Cardinality(s) - 1
  BY <1>1, <1>5, <1>6, FS_RemoveElement
<1>8. Cardinality(s \ {x}) \in Sizes /\ n \in Nat
  BY <1>7, <1>1, <1>5
<1>9. n <= n - 1
  BY <1>4, <1>5, <1>7, <1>8
<1>10. QED
  BY <1>8, <1>9

\* f adds up the weights w over the subsets of their domain, in the order of the
\* folds of the community modules.
Adds(w, f) ==
  f = [s \in SUBSET DOMAIN w |->
         IF s = {} THEN 0 ELSE w[CHOOSE x \in s : TRUE] + f[s \ {CHOOSE x \in s : TRUE}]]

Weights(w) == IsFiniteSet(DOMAIN w) /\ \A x \in DOMAIN w : w[x] \in Nat

LEMMA AddsAt ==
  ASSUME NEW w, NEW f, Adds(w, f)
  PROVE  /\ f[{}] = 0
         /\ \A s \in SUBSET DOMAIN w : s # {} =>
              \E x \in s : f[s] = w[x] + f[s \ {x}]
<1> DEFINE F(s) == IF s = {} THEN 0 ELSE w[CHOOSE x \in s : TRUE] + f[s \ {CHOOSE x \in s : TRUE}]
<1>1. f = [s \in SUBSET DOMAIN w |-> F(s)]
  BY Zenon DEF Adds
<1> HIDE DEF F
<1>2. \A s \in SUBSET DOMAIN w : f[s] = F(s)
  BY <1>1
<1>3. F({}) = 0
  BY DEF F
<1>4. ASSUME NEW s \in SUBSET DOMAIN w, s # {}
      PROVE  \E x \in s : F(s) = w[x] + f[s \ {x}]
  <2> DEFINE x == CHOOSE x \in s : TRUE
  <2>1. x \in s
    BY <1>4, Zenon
  <2>2. F(s) = w[x] + f[s \ {x}]
    BY <1>4, Zenon DEF F
  <2> HIDE DEF x
  <2>3. QED
    BY <2>1, <2>2
<1>5. QED
  BY <1>2, <1>3, <1>4

LEMMA AddsNat ==
  ASSUME NEW w, Weights(w), NEW f, Adds(w, f)
  PROVE  \A s \in SUBSET DOMAIN w : f[s] \in Nat
<1> DEFINE Good == {s \in SUBSET DOMAIN w : f[s] \in Nat}
<1>1. ASSUME NEW s \in SUBSET DOMAIN w, \A x \in s : s \ {x} \in Good PROVE s \in Good
  <2>1. CASE s = {}
    BY <2>1, AddsAt
  <2>2. CASE s # {}
    <3>1. PICK x \in s : f[s] = w[x] + f[s \ {x}]
      BY <2>2, AddsAt
    <3>2. w[x] \in Nat /\ f[s \ {x}] \in Nat
      BY <1>1, <3>1 DEF Weights
    <3>3. f[s] \in Nat
      BY <3>1, <3>2
    <3>4. QED
      BY <3>3
  <2>3. QED
    BY <2>1, <2>2
<1>2. IsFiniteSet(DOMAIN w)
  BY DEF Weights
<1> HIDE DEF Good
<1>3. SUBSET DOMAIN w \subseteq Good
  BY <1>1, <1>2, Subsets
<1>4. QED
  BY <1>3 DEF Good

\* The order does not matter.
LEMMA AddsAny ==
  ASSUME NEW w, Weights(w), NEW f, Adds(w, f)
  PROVE  \A s \in SUBSET DOMAIN w : \A x \in s : f[s] = w[x] + f[s \ {x}]
<1> DEFINE Good == {s \in SUBSET DOMAIN w : \A x \in s : f[s] = w[x] + f[s \ {x}]}
<1>1. ASSUME NEW s \in SUBSET DOMAIN w, \A x \in s : s \ {x} \in Good PROVE s \in Good
  <2> SUFFICES ASSUME NEW x \in s PROVE f[s] = w[x] + f[s \ {x}]
    OBVIOUS
  <2>1. PICK y \in s : f[s] = w[y] + f[s \ {y}]
    BY AddsAt
  <2>2. CASE x = y
    BY <2>1, <2>2
  <2>3. CASE x # y
    <3>1. x \in s \ {y} /\ y \in s \ {x}
      BY <2>3
    <3>2. f[s \ {y}] = w[x] + f[(s \ {y}) \ {x}]
      BY <1>1, <3>1
    <3>3. f[s \ {x}] = w[y] + f[(s \ {x}) \ {y}]
      BY <1>1, <3>1
    <3>4. (s \ {y}) \ {x} = (s \ {x}) \ {y}
      OBVIOUS
    <3>5. (s \ {y}) \ {x} \in SUBSET DOMAIN w
      OBVIOUS
    <3>6. f[(s \ {y}) \ {x}] \in Nat /\ w[x] \in Nat /\ w[y] \in Nat
      BY <3>5, AddsNat DEF Weights
    <3>7. f[(s \ {y}) \ {x}] = f[(s \ {x}) \ {y}]
      BY <3>4, Zenon
    <3> HIDE DEF Good
    <3>8. QED
      BY <2>1, <3>2, <3>3, <3>6, <3>7
  <2>4. QED
    BY <2>2, <2>3
<1>2. IsFiniteSet(DOMAIN w)
  BY DEF Weights
<1> HIDE DEF Good
<1>3. SUBSET DOMAIN w \subseteq Good
  BY <1>1, <1>2, Subsets
<1>4. QED
  BY <1>3 DEF Good

\* Only the weights that are added matter.
LEMMA AddsAgree ==
  ASSUME NEW w, Weights(w), NEW f, Adds(w, f), NEW v, Weights(v), NEW g, Adds(v, g),
         NEW D, D \subseteq DOMAIN w, D \subseteq DOMAIN v, \A x \in D : w[x] = v[x]
  PROVE  f[D] = g[D]
<1> DEFINE Good == {s \in SUBSET D : f[s] = g[s]}
<1>1. ASSUME NEW s \in SUBSET D, \A x \in s : s \ {x} \in Good PROVE s \in Good
  <2>0. s \in SUBSET DOMAIN w /\ s \in SUBSET DOMAIN v
    OBVIOUS
  <2>1. CASE s = {}
    BY <2>1, AddsAt
  <2>2. CASE s # {}
    <3>1. PICK x : x \in s
      BY <2>2
    <3>2. f[s] = w[x] + f[s \ {x}]
      BY <2>0, <3>1, AddsAny
    <3>3. g[s] = v[x] + g[s \ {x}]
      BY <2>0, <3>1, AddsAny
    <3>4. f[s \ {x}] = g[s \ {x}] /\ w[x] = v[x]
      BY <1>1, <3>1
    <3>5. QED
      BY <3>2, <3>3, <3>4
  <2>3. QED
    BY <2>1, <2>2
<1>2. IsFiniteSet(D)
  BY FS_Subset DEF Weights
<1> HIDE DEF Good
<1>3. SUBSET D \subseteq Good
  BY <1>1, <1>2, Subsets
<1>4. QED
  BY <1>3 DEF Good

\* A smaller set has a smaller sum.
LEMMA AddsMore ==
  ASSUME NEW w, Weights(w), NEW f, Adds(w, f)
  PROVE  \A C \in SUBSET DOMAIN w : f[C] <= f[DOMAIN w]
<1> DEFINE Good == {s \in SUBSET DOMAIN w : \A C \in SUBSET s : f[C] <= f[s]}
<1>1. ASSUME NEW s \in SUBSET DOMAIN w, \A x \in s : s \ {x} \in Good PROVE s \in Good
  <2> SUFFICES ASSUME NEW C \in SUBSET s PROVE f[C] <= f[s]
    OBVIOUS
  <2>0. f[C] \in Nat
    BY AddsNat
  <2>1. CASE C = s
    BY <2>0, <2>1
  <2>2. CASE C # s
    <3>1. PICK x \in s : x \notin C
      BY <2>2
    <3>2. f[C] <= f[s \ {x}]
      BY <1>1, <3>1
    <3>3. f[s] = w[x] + f[s \ {x}]
      BY AddsAny
    <3>4. f[s \ {x}] \in Nat /\ w[x] \in Nat
      BY AddsNat DEF Weights
    <3> HIDE DEF Good
    <3>5. QED
      BY <2>0, <3>2, <3>3, <3>4
  <2>3. QED
    BY <2>1, <2>2
<1>2. IsFiniteSet(DOMAIN w)
  BY DEF Weights
<1> HIDE DEF Good
<1>3. SUBSET DOMAIN w \subseteq Good
  BY <1>1, <1>2, Subsets
<1>4. DOMAIN w \in SUBSET DOMAIN w
  OBVIOUS
<1>5. DOMAIN w \in Good
  BY <1>3, <1>4, Zenon
<1>6. QED
  BY <1>5 DEF Good

\* Such an f exists: one for the sets of at most n elements gives one for those
\* of at most n + 1.
LEMMA AddsExist ==
  ASSUME NEW w, Weights(w)
  PROVE  \E f : Adds(w, f)
<1> DEFINE D == DOMAIN w
           Small(n) == {s \in SUBSET D : Cardinality(s) <= n}
           c(s) == CHOOSE x \in s : TRUE
           Next1(f, s) == IF s = {} THEN 0 ELSE w[c(s)] + f[s \ {c(s)}]
           UpTo(n, f) == f = [s \in Small(n) |-> Next1(f, s)]
           Bad == {n \in Nat : \A f : ~UpTo(n, f)}
<1>1. \A s \in SUBSET D : IsFiniteSet(s) /\ Cardinality(s) \in Nat
  BY FS_Subset, FS_CardinalityType DEF Weights
<1>2. \A s \in SUBSET D : s # {} => c(s) \in s
  BY Zenon
<1>3. \A s \in SUBSET D : s # {} => Cardinality(s \ {c(s)}) = Cardinality(s) - 1
  BY <1>1, <1>2, FS_RemoveElement
<1>4. \A s \in SUBSET D : Cardinality(s) = 0 => s = {}
  BY <1>1, FS_EmptySet
<1> HIDE DEF c
<1>5. \E f : UpTo(0, f)
  <2> DEFINE f == [s \in Small(0) |-> 0]
  <2>1. \A s \in Small(0) : s = {}
    BY <1>1, <1>4
  <2>2. \A s \in Small(0) : Next1(f, s) = 0
    BY <2>1
  <2> HIDE DEF Next1
  <2>3. f = [s \in Small(0) |-> Next1(f, s)]
    BY <2>2
  <2> HIDE DEF f
  <2>4. UpTo(0, f)
    BY <2>3
  <2>5. QED
    BY <2>4, Zenon
<1>6. ASSUME NEW n \in Nat, NEW f, UpTo(n, f) PROVE \E g : UpTo(n + 1, g)
  <2> DEFINE g == [s \in Small(n + 1) |-> Next1(f, s)]
  <2>1. \A s \in Small(n + 1) : s # {} => s \ {c(s)} \in Small(n)
    BY <1>1, <1>3
  <2>2. Small(n) \subseteq Small(n + 1)
    BY <1>1
  <2> HIDE DEF Small
  <2>3. \A s \in Small(n) : f[s] = Next1(f, s)
    <3>1. f = [s \in Small(n) |-> Next1(f, s)]
      BY <1>6, Zenon
    <3> HIDE DEF Next1
    <3>2. QED
      BY <3>1
  <2>4. \A s \in Small(n) : g[s] = f[s]
    <3> HIDE DEF Next1
    <3>1. QED
      BY <2>2, <2>3
  <2> HIDE DEF g
  <2>5. \A s \in Small(n + 1) : Next1(g, s) = Next1(f, s)
    BY <2>1, <2>4
  <2>6. g = [s \in Small(n + 1) |-> Next1(g, s)]
    <3>1. g = [s \in Small(n + 1) |-> Next1(f, s)]
      BY Zenon DEF g
    <3> HIDE DEF Next1
    <3>2. QED
      BY <2>5, <3>1
  <2>7. QED
    BY <2>6, Zenon
<1> HIDE DEF UpTo
<1>7. \A n \in Nat : \E f : UpTo(n, f)
  <2> SUFFICES ASSUME Bad # {} PROVE FALSE
    OBVIOUS
  <2>1. Bad \subseteq Nat
    OBVIOUS
  <2> HIDE DEF Bad
  <2>2. PICK n \in Bad : \A m \in Bad : n <= m
    BY <2>1, LeastIn
  <2> USE DEF Bad
  <2>3. n \in Nat /\ n # 0
    BY <1>5, <2>2
  <2>4. n - 1 \in Nat /\ (n - 1) + 1 = n
    BY <2>3
  <2>5. n - 1 \notin Bad
    BY <2>2, <2>4
  <2>6. PICK f : UpTo(n - 1, f)
    BY <2>4, <2>5
  <2>7. \E g : UpTo((n - 1) + 1, g)
    BY <1>6, <2>4, <2>6
  <2>8. QED
    BY <2>2, <2>4, <2>7
<1> DEFINE N == Cardinality(D)
<1>8. N \in Nat
  BY <1>1
<1>9. Small(N) = SUBSET D
  BY FS_Subset DEF Weights
<1>10. PICK f : UpTo(N, f)
  BY <1>7, <1>8
<1>11. f = [s \in SUBSET D |-> Next1(f, s)]
  BY <1>9, <1>10, Zenon DEF UpTo
<1>12. Adds(w, f)
  BY <1>11, Zenon DEF Adds, c
<1>13. QED
  BY <1>12

\* The sum of the weights w over s.
SumOf(w, s) == (CHOOSE f : Adds(w, f))[s]

LEMMA SumFacts ==
  ASSUME NEW w, Weights(w)
  PROVE  /\ SumOf(w, {}) = 0
         /\ \A s \in SUBSET DOMAIN w :
              /\ SumOf(w, s) \in Nat
              /\ SumOf(w, s) <= SumOf(w, DOMAIN w)
              /\ \A x \in s : SumOf(w, s) = w[x] + SumOf(w, s \ {x})
<1> DEFINE f == CHOOSE f : Adds(w, f)
<1>1. Adds(w, f)
  BY AddsExist, Zenon
<1>2. \A s : SumOf(w, s) = f[s]
  BY Zenon DEF SumOf
<1> HIDE DEF f
<1>3. QED
  BY <1>1, <1>2, AddsAt, AddsNat, AddsMore, AddsAny

LEMMA SumIs ==
  ASSUME NEW w, Weights(w), NEW f, Adds(w, f)
  PROVE  f[DOMAIN w] = SumOf(w, DOMAIN w)
<1> DEFINE g == CHOOSE g : Adds(w, g)
<1>1. Adds(w, g)
  BY AddsExist, Zenon
<1>2. \A s : SumOf(w, s) = g[s]
  BY Zenon DEF SumOf
<1> HIDE DEF g
<1>3. f[DOMAIN w] = g[DOMAIN w]
  BY <1>1, AddsAgree
<1>4. QED
  BY <1>2, <1>3

LEMMA SumsAgree ==
  ASSUME NEW w, Weights(w), NEW v, Weights(v),
         NEW D, D \subseteq DOMAIN w, D \subseteq DOMAIN v, \A x \in D : w[x] = v[x]
  PROVE  SumOf(w, D) = SumOf(v, D)
<1> DEFINE f == CHOOSE g : Adds(w, g)
           g == CHOOSE g : Adds(v, g)
<1>1. Adds(w, f) /\ Adds(v, g)
  BY AddsExist, Zenon
<1>2. SumOf(w, D) = f[D] /\ SumOf(v, D) = g[D]
  BY Zenon DEF SumOf
<1> HIDE DEF f, g
<1>3. f[D] = g[D]
  BY <1>1, AddsAgree
<1>4. QED
  BY <1>2, <1>3

\* The folds of the model as such sums.
Goods(t) == [i \in DOMAIN t |-> IF t[i].account THEN 0 ELSE t[i].qty]

LEMMA RowsAdded ==
  ASSUME NEW t, Weights(Goods(t))
  PROVE  FoldFunction(LAMBDA s, n : (IF s.account THEN 0 ELSE s.qty) + n, 0, t)
           = SumOf(Goods(t), DOMAIN t)
<1> DEFINE c(s) == CHOOSE x \in s : TRUE
           Q(x) == IF t[x].account THEN 0 ELSE t[x].qty
           w == Goods(t)
           Ex(f) == [s \in SUBSET DOMAIN t |-> IF s = {} THEN 0 ELSE Q(c(s)) + f[s \ {c(s)}]]
           It == CHOOSE f : f = Ex(f)
<1>1. FoldFunction(LAMBDA s, n : (IF s.account THEN 0 ELSE s.qty) + n, 0, t) = It[DOMAIN t]
  BY Zenon DEF FoldFunction, FoldFunctionOnSet, MapThenFoldSet
<1>2. DOMAIN w = DOMAIN t /\ \A x \in DOMAIN t : w[x] = Q(x)
  BY DEF Goods
<1>3. \A s \in SUBSET DOMAIN t : s # {} => c(s) \in DOMAIN t
  <2>1. \A s \in SUBSET DOMAIN t : s # {} => c(s) \in s
    BY Zenon
  <2> HIDE DEF c
  <2>2. QED
    BY <2>1
<1> HIDE DEF Q, w
<1>4. ASSUME NEW f, Adds(w, f) PROVE f = Ex(f)
  <2>1. f = [s \in SUBSET DOMAIN t |-> IF s = {} THEN 0 ELSE w[c(s)] + f[s \ {c(s)}]]
    BY <1>2, <1>4, Zenon DEF Adds
  <2> HIDE DEF c
  <2>2. QED
    BY <1>2, <1>3, <2>1
<1>5. ASSUME NEW f, f = Ex(f) PROVE Adds(w, f)
  <2> DEFINE Aw == [s \in SUBSET DOMAIN t |-> IF s = {} THEN 0 ELSE w[c(s)] + f[s \ {c(s)}]]
  <2>1. f = Aw
    <3> HIDE DEF c
    <3>1. QED
      BY <1>2, <1>3, <1>5
  <2>2. QED
    BY <1>2, <2>1, Zenon DEF Adds
<1>6. PICK f : Adds(w, f)
  BY AddsExist DEF w
<1> HIDE DEF Ex
<1>7. \E g : g = Ex(g)
  BY <1>4, <1>6
<1>8. It = Ex(It)
  BY <1>7, Zenon
<1> HIDE DEF It
<1>9. Adds(w, It)
  BY <1>5, <1>8
<1>10. It[DOMAIN w] = SumOf(w, DOMAIN w)
  BY <1>9, SumIs DEF w
<1>11. QED
  BY <1>1, <1>2, <1>10 DEF w

LEMMA PartsAdded ==
  ASSUME NEW w, Weights(w)
  PROVE  MapThenSumSet(LAMBDA n : w[n], DOMAIN w) = SumOf(w, DOMAIN w)
<1> DEFINE It == CHOOSE f : Adds(w, f)
<1>1. MapThenSumSet(LAMBDA n : w[n], DOMAIN w) = It[DOMAIN w]
  BY Zenon DEF MapThenSumSet, MapThenFoldSet, Adds
<1>2. QED
  BY <1>1, Zenon DEF SumOf

LEMMA PackagesAdded ==
  ASSUME NEW p \in Seq(Package)
  PROVE  LET w == [k \in DOMAIN p |-> p[k].qty] IN
         /\ Weights(w)
         /\ FoldFunction(LAMBDA q, n : q.qty + n, 0, p) = SumOf(w, DOMAIN p)
<1> DEFINE c(s) == CHOOSE x \in s : TRUE
           w == [k \in DOMAIN p |-> p[k].qty]
           Ex(f) == [s \in SUBSET DOMAIN p |->
                       IF s = {} THEN 0 ELSE p[c(s)].qty + f[s \ {c(s)}]]
           It == CHOOSE f : f = Ex(f)
<1>1. FoldFunction(LAMBDA q, n : q.qty + n, 0, p) = It[DOMAIN p]
  BY Zenon DEF FoldFunction, FoldFunctionOnSet, MapThenFoldSet
<1>2. DOMAIN w = DOMAIN p /\ \A x \in DOMAIN p : w[x] = p[x].qty
  OBVIOUS
<1>3. \A s \in SUBSET DOMAIN p : s # {} => c(s) \in DOMAIN p
  <2>1. \A s \in SUBSET DOMAIN p : s # {} => c(s) \in s
    BY Zenon
  <2> HIDE DEF c
  <2>2. QED
    BY <2>1
<1>a. Weights(w)
  <2>1. DOMAIN p = 1 .. Len(p) /\ Len(p) \in Nat
    OBVIOUS
  <2>2. IsFiniteSet(DOMAIN p)
    BY <2>1, FS_Interval
  <2>3. \A x \in DOMAIN p : p[x] \in Package
    OBVIOUS
  <2>4. QED
    BY <1>2, <2>2, <2>3 DEF Weights, Package
<1> HIDE DEF w
<1>4. ASSUME NEW f, Adds(w, f) PROVE f = Ex(f)
  <2>1. f = [s \in SUBSET DOMAIN p |-> IF s = {} THEN 0 ELSE w[c(s)] + f[s \ {c(s)}]]
    BY <1>2, <1>4, Zenon DEF Adds
  <2> HIDE DEF c
  <2>2. QED
    BY <1>2, <1>3, <2>1
<1>5. ASSUME NEW f, f = Ex(f) PROVE Adds(w, f)
  <2> DEFINE Aw == [s \in SUBSET DOMAIN p |-> IF s = {} THEN 0 ELSE w[c(s)] + f[s \ {c(s)}]]
  <2>1. f = Aw
    <3> HIDE DEF c
    <3>1. QED
      BY <1>2, <1>3, <1>5
  <2>2. QED
    BY <1>2, <2>1, Zenon DEF Adds
<1>6. PICK f : Adds(w, f)
  BY <1>a, AddsExist
<1> HIDE DEF Ex
<1>7. \E g : g = Ex(g)
  BY <1>4, <1>6
<1>8. It = Ex(It)
  BY <1>7, Zenon
<1> HIDE DEF It
<1>9. Adds(w, It)
  BY <1>5, <1>8
<1>10. It[DOMAIN w] = SumOf(w, DOMAIN w)
  BY <1>a, <1>9, SumIs
<1>11. QED
  BY <1>1, <1>2, <1>a, <1>10, Zenon DEF w

-----------------------------------------------------------------------------
(* What the columns hold, and the pieces OrderCore counts.                 *)

CoreTyped(c) ==
  /\ DOMAIN c \subseteq Nos /\ \A n \in DOMAIN c : c[n] \in Nat
  /\ SumOf(c, DOMAIN c) <= Total

CallTyped(w) == w.pc # "idle" => w.call.packages \in Seq(Package) /\ w.group \in Nat

Typed ==
  /\ rows \in Seq(Shipment)
  /\ groups \in 0 .. MaxGroups
  /\ CoreTyped(core)
  /\ left \in 0 .. Planned
  /\ \A r \in Reqs : CallTyped(req[r])

LEMMA CoreWeighs ==
  ASSUME NEW c, CoreTyped(c)
  PROVE  Weights(c) /\ SumOf(c, DOMAIN c) \in Nat
<1>1. Weights(c)
  BY KdzsAssumption, FS_Subset DEF CoreTyped, Weights
<1>2. QED
  BY <1>1, SumFacts

\* What OrderCore has left to ship, the sum of its parcels taken off.
LEMMA Remains ==
  ASSUME CoreTyped(core)
  PROVE  /\ Remaining = Total - SumOf(core, DOMAIN core)
         /\ Remaining \in 0 .. Total
<1>1. MapThenSumSet(LAMBDA n : core[n], DOMAIN core) = SumOf(core, DOMAIN core)
  BY CoreWeighs, PartsAdded
<1>2. Remaining = Total - SumOf(core, DOMAIN core)
  BY <1>1, Zenon DEF Remaining
<1>3. QED
  BY <1>2, CoreWeighs, KdzsAssumption DEF CoreTyped

\* A parcel that is taken adds no more than was left.
LEMMA TakenTyped ==
  ASSUME CoreTyped(core), NEW no \in Nos, NEW qty \in Nat, MayTake(no, qty)
  PROVE  CoreTyped(Taken(no, qty))
<1> DEFINE d == Taken(no, qty)
           q == IF qty = 0 THEN Remaining ELSE qty
<1>1. /\ DOMAIN d = DOMAIN core \cup {no}
      /\ \A n \in DOMAIN core : d[n] = core[n]
      /\ no \notin DOMAIN core => d[no] = q
  BY DEF Taken
<1>2. Remaining \in Nat /\ q \in Nat
  BY Remains
<1>3. no \notin DOMAIN core => q <= Remaining
  BY <1>2 DEF MayTake
<1> HIDE DEF d, q
<1>4. DOMAIN d \subseteq Nos /\ \A n \in DOMAIN d : d[n] \in Nat
  BY <1>1, <1>2 DEF CoreTyped
<1>5. Weights(d)
  BY <1>4, KdzsAssumption, FS_Subset DEF Weights
<1>6. SumOf(d, DOMAIN core) = SumOf(core, DOMAIN core)
  BY <1>1, <1>5, CoreWeighs, SumsAgree
<1>7. CASE no \in DOMAIN core
  <2>1. DOMAIN d = DOMAIN core
    BY <1>1, <1>7
  <2>2. SumOf(d, DOMAIN d) <= Total
    BY <1>6, <2>1 DEF CoreTyped
  <2>3. QED
    BY <1>4, <2>2 DEF CoreTyped, d
<1>8. CASE no \notin DOMAIN core
  <2>1. DOMAIN d \ {no} = DOMAIN core /\ no \in DOMAIN d
    BY <1>1, <1>8
  <2>2. SumOf(d, DOMAIN d) = d[no] + SumOf(d, DOMAIN d \ {no})
    BY <1>5, <2>1, SumFacts
  <2>3. SumOf(d, DOMAIN d) = q + SumOf(core, DOMAIN core)
    BY <1>1, <1>6, <1>8, <2>1, <2>2
  <2>4. SumOf(d, DOMAIN d) <= Total
    BY <1>2, <1>3, <1>8, <2>3, Remains, CoreWeighs, KdzsAssumption
  <2>5. QED
    BY <1>4, <2>4 DEF CoreTyped, d
<1>9. QED
  BY <1>7, <1>8

\* Where a step of a handler leads: it ends, or goes on with the same call.
Onward(r, w) ==
  /\ req' = [req EXCEPT ![r] = w]
  /\ \/ w.pc = "idle"
     \/ w.call = req[r].call /\ w.group = req[r].group

LEMMA Onwards ==
  ASSUME Inv, NEW r \in Reqs
  PROVE  /\ Fail(r) \/ Answer(r) => \E w : Onward(r, w) /\ w.pc = "idle"
         /\ \A p : Goto(r, p) => \E w : Onward(r, w) /\ w.pc = p
         /\ Advance(r) => \E w : /\ Onward(r, w)
                                 /\ w.pc = "progress" => Kind(r) = "split"
<1>1. Fields \subseteq DOMAIN req[r] /\ req = [s \in Reqs |-> req[s]]
  BY DEF Inv, Shape
<1>2. Fail(r) \/ Answer(r) => \E w : Onward(r, w) /\ w.pc = "idle"
  BY FailsTo DEF Onward
<1>3. ASSUME NEW p, Goto(r, p) PROVE \E w : Onward(r, w) /\ w.pc = p
  <2> DEFINE w == [req[r] EXCEPT !.pc = p]
  <2>1. w.pc = p /\ w.call = req[r].call /\ w.group = req[r].group
    BY <1>1 DEF Fields
  <2>2. req' = [req EXCEPT ![r] = w]
    BY <1>1, <1>3 DEF Goto
  <2> HIDE DEF w
  <2>3. QED
    BY <2>1, <2>2 DEF Onward
<1>4. ASSUME req' = [req EXCEPT ![r].pc = "find", ![r].at = @ + 1]
      PROVE  \E w : Onward(r, w) /\ w.pc = "find"
  <2> DEFINE w == [req[r] EXCEPT !.pc = "find", !.at = @ + 1]
  <2>1. w.pc = "find" /\ w.call = req[r].call /\ w.group = req[r].group
    BY <1>1 DEF Fields
  <2>2. req' = [req EXCEPT ![r] = w]
    BY <1>1, <1>4
  <2> HIDE DEF w
  <2>3. QED
    BY <2>1, <2>2 DEF Onward
<1>5. ASSUME Advance(r)
      PROVE  \E w : Onward(r, w) /\ (w.pc = "progress" => Kind(r) = "split")
  <2>1. CASE req' = [req EXCEPT ![r].pc = "find", ![r].at = @ + 1]
    BY <1>4, <2>1
  <2>2. CASE Kind(r) = "split" /\ Goto(r, "progress")
    BY <1>3, <2>2
  <2>3. CASE Answer(r)
    BY <1>2, <2>3
  <2>4. QED
    BY <1>5, <2>1, <2>2, <2>3 DEF Advance
<1>6. QED
  BY <1>2, <1>3, <1>5

\* The row a confirmation inserts.
NewRow(r) ==
  [no |-> Current(r).no, qty |-> Current(r).qty, reship |-> Kind(r) = "reship",
   account |-> FALSE, via |-> "kdzs", group |-> req[r].group]

\* Every step of a handler leads onward; a call that is no split reaches its plan
\* progress only by inserting its row.
LEMMA HandlersGoOn ==
  ASSUME Inv, NEW r \in Reqs, HandlerStep(r)
  PROVE  \E w : /\ Onward(r, w)
                /\ w.pc = "progress" /\ Kind(r) # "split" =>
                     req[r].pc = "insert" /\ rows' = Append(rows, NewRow(r))
<1> DEFINE To(w) == Onward(r, w) /\ (w.pc = "progress" => Kind(r) = "split")
<1>1. Fail(r) \/ Answer(r) \/ Advance(r) => \E w : To(w)
  BY Onwards
<1>2. \A p : Goto(r, p) /\ p # "progress" => \E w : To(w)
  BY Onwards
<1>3. ASSUME findActiveKdzsShipment(r) PROVE \E w : To(w)
  <2>1. CASE Active(Current(r).no) # {}
             /\ req' = [req EXCEPT ![r].pc = "again", ![r].id = Min(Active(Current(r).no))]
    <3> DEFINE m == Min(Active(Current(r).no))
               w == [req[r] EXCEPT !.pc = "again", !.id = m]
    <3>1. req' = [req EXCEPT ![r] = w]
      BY <2>1 DEF Inv, Shape
    <3> HIDE DEF m
    <3>2. w.pc = "again" /\ w.call = req[r].call /\ w.group = req[r].group
      BY DEF Inv, Shape, Fields
    <3> HIDE DEF w
    <3>3. QED
      BY <3>1, <3>2 DEF Onward
  <2>2. QED
    BY <1>1, <1>2, <1>3, <2>1 DEF findActiveKdzsShipment
<1>4. ASSUME shipOrderCore(r) PROVE \E w : To(w)
  BY <1>1, <1>2, <1>4 DEF shipOrderCore
<1>5. ASSUME InsertShipment(r)
      PROVE  \E w : /\ Onward(r, w)
                    /\ w.pc = "progress" /\ Kind(r) # "split" =>
                         req[r].pc = "insert" /\ rows' = Append(rows, NewRow(r))
  <2>1. req[r].pc = "insert"
    BY <1>5 DEF InsertShipment
  <2>2. CASE Fail(r) \/ Advance(r)
    BY <1>1, <2>2
  <2>3. CASE Goto(r, "progress") /\ rows' = Append(rows, NewRow(r))
    BY <2>1, <2>3, Onwards
  <2>4. QED
    BY <1>5, <2>2, <2>3 DEF InsertShipment, NewRow
<1>6. ASSUME UpdateExisting(r) \/ ApplyShipPlanProgress(r) \/ UpsertExisting(r) \/ UpsertNew(r)
      PROVE \E w : To(w)
  BY <1>1, <1>6 DEF UpdateExisting, ApplyShipPlanProgress, UpsertExisting, UpsertNew
<1>7. QED
  BY <1>3, <1>4, <1>5, <1>6 DEF HandlerStep

LEMMA CallsTyped ==
  ASSUME Inv, Typed, NEW r \in Reqs, req[r].pc # "idle", NEW w, Onward(r, w)
  PROVE  \A s \in Reqs : CallTyped(req'[s])
<1>1. req'[r] = w /\ \A s \in Reqs : s # r => req'[s] = req[s]
  BY DEF Onward, Inv, Shape
<1>2. CallTyped(w)
  BY DEF Onward, Typed, CallTyped
<1>3. QED
  BY <1>1, <1>2 DEF Typed

\* The parcel a handler is at, the row it inserts and what it reports.
LEMMA CurrentTyped ==
  ASSUME Inv, Typed, NEW r \in Reqs, req[r].pc # "idle"
  PROVE  /\ Current(r) \in Package
         /\ Current(r).no \in Nos /\ Current(r).qty \in Nat
         /\ req[r].group \in Nat
<1>1. req[r].call.packages \in Seq(Package) /\ req[r].group \in Nat
  BY DEF Typed, CallTyped
<1>2. req[r].at \in 1 .. Len(req[r].call.packages)
  BY Under DEF HandlerOK
<1>3. Current(r) \in Package
  BY <1>1, <1>2 DEF Current
<1>4. QED
  BY <1>1, <1>3 DEF Package

LEMMA InsertTyped ==
  ASSUME rows \in Seq(Shipment), NEW x \in Shipment, rows' = Append(rows, x)
  PROVE  rows' \in Seq(Shipment)
BY DEF Shipment

LEMMA ChangeTyped ==
  ASSUME NEW t \in Seq(Shipment), NEW i \in DOMAIN t, NEW x \in Shipment
  PROVE  [t EXCEPT ![i] = x] \in Seq(Shipment)
BY DEF Shipment

LEMMA NewRowTyped ==
  ASSUME Inv, Typed, NEW r \in Reqs, req[r].pc # "idle"
  PROVE  /\ NewRow(r) \in Shipment
         /\ [no |-> Current(r).no, qty |-> Current(r).qty, reship |-> FALSE,
             account |-> FALSE, via |-> "kdzs", group |-> 0] \in Shipment
<1>1. Current(r).no \in Nos /\ Current(r).qty \in Nat /\ req[r].group \in Nat
  BY CurrentTyped
<1>2. QED
  BY <1>1 DEF NewRow, Shipment

LEMMA ReportedTyped ==
  ASSUME Inv, Typed, NEW r \in Reqs, req[r].pc \in {"ship", "again"}
  PROVE  Reported(r) \in Nat
<1>1. CASE req[r].pc = "again"
  <2>1. req[r].id \in DOMAIN rows
    BY <1>1, Under DEF HandlerOK
  <2>2. rows[req[r].id] \in Shipment
    BY <2>1 DEF Typed
  <2>3. rows[req[r].id].qty \in Nat
    BY <2>2 DEF Shipment
  <2>4. QED
    BY <1>1, <2>3 DEF Reported
<1>2. CASE req[r].pc # "again"
  BY <1>2, CurrentTyped DEF Reported
<1>3. QED
  BY <1>1, <1>2

LEMMA HandlerRowsTyped ==
  ASSUME Inv, Typed, NEW r \in Reqs, HandlerStep(r)
  PROVE  rows' \in Seq(Shipment)
<1>1. rows \in Seq(Shipment)
  BY DEF Typed
<1>2. CASE UNCHANGED rows
  BY <1>1, <1>2
<1>3. CASE UpdateExisting(r)
  <2> DEFINE i == req[r].id
             x == [rows[i] EXCEPT !.group = IF req[r].group = 0 THEN @ ELSE req[r].group]
  <2>1. req[r].pc = "update"
    BY <1>3 DEF UpdateExisting
  <2>2. i \in DOMAIN rows /\ req[r].group \in Nat
    BY <2>1, Under, CurrentTyped DEF HandlerOK
  <2>3. rows[i] \in Shipment
    BY <1>1, <2>2
  <2>4. x \in Shipment
    BY <2>2, <2>3 DEF Shipment
  <2>5. rows' = [rows EXCEPT ![i] = x] \/ UNCHANGED rows
    BY <1>3, <2>2 DEF UpdateExisting
  <2>6. QED
    BY <1>1, <2>2, <2>4, <2>5, ChangeTyped
<1>4. CASE InsertShipment(r)
  <2>1. req[r].pc = "insert"
    BY <1>4 DEF InsertShipment
  <2>2. rows' = Append(rows, NewRow(r)) \/ UNCHANGED rows
    BY <1>4 DEF InsertShipment, NewRow
  <2>3. QED
    BY <1>1, <2>1, <2>2, NewRowTyped, InsertTyped
<1>5. CASE UpsertExisting(r)
  <2> DEFINE i == req[r].id
             x == [rows[i] EXCEPT !.via = IF rows[i].account THEN "sf" ELSE "kdzs"]
  <2>1. req[r].pc = "upsertOld"
    BY <1>5 DEF UpsertExisting
  <2>2. i \in DOMAIN rows
    BY <2>1, Under DEF HandlerOK
  <2>3. rows[i] \in Shipment
    BY <1>1, <2>2
  <2>4. x \in Shipment
    BY <2>3 DEF Shipment
  <2>5. rows' = [rows EXCEPT ![i] = x] \/ UNCHANGED rows
    BY <1>5, <2>2 DEF UpsertExisting
  <2>6. QED
    BY <1>1, <2>2, <2>4, <2>5, ChangeTyped
<1>6. CASE UpsertNew(r)
  <2> DEFINE x == [no |-> Current(r).no, qty |-> Current(r).qty, reship |-> FALSE,
                   account |-> FALSE, via |-> "kdzs", group |-> 0]
  <2>1. req[r].pc # "idle"
    BY <1>6 DEF UpsertNew
  <2>2. rows' = Append(rows, x) \/ UNCHANGED rows
    BY <1>6 DEF UpsertNew
  <2>3. x \in Shipment
    BY <2>1, NewRowTyped
  <2> HIDE DEF x
  <2>4. QED
    BY <1>1, <2>2, <2>3, InsertTyped
<1>7. QED
  BY <1>2, <1>3, <1>4, <1>5, <1>6
     DEF HandlerStep, findActiveKdzsShipment, shipOrderCore, ApplyShipPlanProgress

\* The pieces of a call: those of its package, when it is no split.
LEMMA PiecesTyped ==
  ASSUME Inv, Typed, NEW r \in Reqs, req[r].pc # "idle"
  PROVE  /\ Pieces(r) \in Nat
         /\ Kind(r) # "split" => Pieces(r) = req[r].call.packages[1].qty
<1> DEFINE p == req[r].call.packages
           w == [k \in DOMAIN p |-> p[k].qty]
<1>1. p \in Seq(Package) /\ (Kind(r) # "split" => Len(p) = 1)
  BY Under DEF Typed, CallTyped, HandlerOK, Kind
<1>2. Weights(w) /\ Pieces(r) = SumOf(w, DOMAIN p)
  BY <1>1, PackagesAdded, Zenon DEF Pieces
<1>3. DOMAIN w = DOMAIN p /\ \A k \in DOMAIN p : w[k] = p[k].qty
  OBVIOUS
<1>4. Pieces(r) \in Nat
  BY <1>2, <1>3, SumFacts
<1>5. ASSUME Kind(r) # "split" PROVE Pieces(r) = p[1].qty
  <2>1. DOMAIN p = {1}
    BY <1>1, <1>5
  <2> HIDE DEF w
  <2>2. SumOf(w, {1}) = w[1] + SumOf(w, {1} \ {1}) /\ SumOf(w, {}) = 0
    BY <1>2, <1>3, <2>1, SumFacts
  <2>3. {1} \ {1} = {}
    OBVIOUS
  <2>4. w[1] \in Nat /\ w[1] = p[1].qty
    BY <1>2, <1>3, <2>1 DEF Weights
  <2> HIDE DEF p
  <2>5. SumOf(w, {1}) = p[1].qty
    BY <2>2, <2>3, <2>4
  <2>6. QED
    BY <1>2, <2>1, <2>5, Zenon
<1>6. QED
  BY <1>4, <1>5

LEMMA TypedHolds ==
  ASSUME Inv, Typed, [Next]_vars
  PROVE  Typed'
<1>1. ASSUME NEW r \in Reqs, HandlerStep(r) PROVE Typed'
  <2>0. req[r].pc # "idle"
    BY <1>1 DEF HandlerStep, findActiveKdzsShipment, shipOrderCore, UpdateExisting,
       InsertShipment, ApplyShipPlanProgress, UpsertExisting, UpsertNew
  <2>1. rows' \in Seq(Shipment)
    BY <1>1, HandlerRowsTyped
  <2>2. \A s \in Reqs : CallTyped(req'[s])
    BY <1>1, <2>0, HandlersGoOn, CallsTyped
  <2>3. groups' = groups
    BY <1>1 DEF HandlerStep, findActiveKdzsShipment, shipOrderCore, UpdateExisting,
       InsertShipment, ApplyShipPlanProgress, UpsertExisting, UpsertNew
  <2>4. CoreTyped(core')
    <3>1. CASE UNCHANGED core
      BY <3>1 DEF Typed
    <3>2. CASE shipOrderCore(r) /\ ~UNCHANGED core
      <4>1. /\ req[r].pc \in {"ship", "again"}
            /\ MayTake(Current(r).no, Reported(r))
            /\ core' = Taken(Current(r).no, Reported(r))
        BY <3>2 DEF shipOrderCore
      <4>2. Current(r).no \in Nos /\ Reported(r) \in Nat
        BY <2>0, <4>1, CurrentTyped, ReportedTyped
      <4>3. CoreTyped(Taken(Current(r).no, Reported(r)))
        BY <4>1, <4>2, TakenTyped DEF Typed
      <4>4. QED
        BY <4>1, <4>3, Zenon
    <3>3. QED
      BY <1>1, <3>1, <3>2 DEF HandlerStep, findActiveKdzsShipment, UpdateExisting,
         InsertShipment, ApplyShipPlanProgress, UpsertExisting, UpsertNew
  <2>5. left' \in 0 .. Planned
    <3>1. left \in 0 .. Planned /\ Planned \in Nat
      BY KdzsAssumption DEF Typed
    <3>2. CASE UNCHANGED left
      BY <3>1, <3>2
    <3>3. CASE left' = IF Pieces(r) >= left THEN 0 ELSE left - Pieces(r)
      BY <2>0, <3>1, <3>3, PiecesTyped
    <3>4. QED
      BY <1>1, <3>2, <3>3 DEF HandlerStep, findActiveKdzsShipment, shipOrderCore,
         UpdateExisting, InsertShipment, ApplyShipPlanProgress, UpsertExisting, UpsertNew
  <2>6. QED
    BY <2>1, <2>2, <2>3, <2>4, <2>5 DEF Typed
<1>2. ASSUME NEW r \in Reqs, NEW c \in Calls[overlap],
             BeginConfirm(r, c) \/ CreateShipmentGroup(r, c)
      PROVE  Typed'
  <2>1. PICK g \in Nat : Begin(r, c, g)
    BY <1>2 DEF BeginConfirm, CreateShipmentGroup, Typed
  <2>2. UNCHANGED <<rows, core, left>> /\ groups' \in 0 .. MaxGroups
    BY <1>2, KdzsAssumption DEF BeginConfirm, CreateShipmentGroup, Typed
  <2>3. c.packages \in Seq(Package)
    BY KdzsAssumption DEF Inv, Shape
  <2> DEFINE w == [pc |-> "find", call |-> c, at |-> 1, id |-> 0, group |-> g]
  <2>4. req' = [req EXCEPT ![r] = w]
    BY <2>1 DEF Begin
  <2>5. CallTyped(w)
    BY <2>3 DEF CallTyped
  <2> HIDE DEF w
  <2>6. \A s \in Reqs : CallTyped(req'[s])
    BY <2>4, <2>5 DEF Typed, Inv, Shape
  <2>7. QED
    BY <2>2, <2>6 DEF Typed
<1>3. ASSUME NEW r \in Reqs, NEW no \in Nos, BeginUpsert(r, no) PROVE Typed'
  <2> DEFINE p == IF Active(no) = {} THEN "upsertNew" ELSE "upsertOld"
             i == IF Active(no) = {} THEN 0 ELSE Min(Active(no))
             q == [kind |-> "upsert", packages |-> <<[no |-> no, qty |-> core[no]]>>]
             w == [Idle EXCEPT !.pc = p, !.call = q, !.at = 1, !.id = i]
  <2>1. /\ no \in DOMAIN core /\ req' = [req EXCEPT ![r] = w]
        /\ UNCHANGED <<rows, groups, core, left>>
    BY <1>3 DEF BeginUpsert
  <2>2. q.packages \in Seq(Package)
    <3>1. [no |-> no, qty |-> core[no]] \in Package
      BY <2>1 DEF Package, Typed, CoreTyped
    <3> DEFINE k == [no |-> no, qty |-> core[no]]
    <3> HIDE DEF k
    <3>2. <<k>> \in Seq(Package)
      BY <3>1 DEF k
    <3>3. q.packages = <<k>>
      BY DEF k
    <3>4. QED
      BY <3>2, <3>3, Zenon
  <2> HIDE DEF q, i, p
  <2>3. w.call = q /\ w.group = 0
    BY DEF Idle
  <2> HIDE DEF w
  <2>4. CallTyped(w)
    BY <2>2, <2>3 DEF CallTyped
  <2>5. \A s \in Reqs : CallTyped(req'[s])
    BY <2>1, <2>4 DEF Typed, Inv, Shape
  <2>6. QED
    BY <2>1, <2>5 DEF Typed
<1>4. ASSUME NEW no \in Nos, NEW qty \in 1 .. Total, CoreLearns(no, qty) PROVE Typed'
  <2>1. MayTake(no, qty) /\ qty \in Nat /\ core' = Taken(no, qty)
    BY <1>4, KdzsAssumption DEF CoreLearns, MayTake
  <2>2. CoreTyped(Taken(no, qty))
    BY <2>1, TakenTyped DEF Typed
  <2>3. CoreTyped(core')
    BY <2>1, <2>2, Zenon
  <2>4. QED
    BY <1>4, <2>3 DEF CoreLearns, Typed
<1>5. ASSUME NEW no \in Nos, NEW qty \in 1 .. Total, SFShipment(no, qty) PROVE Typed'
  <2> DEFINE x == [no |-> no, qty |-> qty, reship |-> FALSE, account |-> TRUE,
                   via |-> "sf", group |-> 0]
  <2>1. rows' = Append(rows, x) /\ UNCHANGED <<groups, core, left, req>>
    BY <1>5 DEF SFShipment
  <2>2. x \in Shipment
    BY KdzsAssumption DEF Shipment
  <2> HIDE DEF x
  <2>3. rows' \in Seq(Shipment)
    BY <2>1, <2>2, InsertTyped DEF Typed
  <2>4. QED
    BY <2>1, <2>3 DEF Typed
<1>6. CASE Crash
  BY <1>6 DEF Crash, Typed, CallTyped, Idle
<1>7. CASE UNCHANGED vars
  BY <1>7 DEF vars, Typed
<1>8. QED
  BY <1>1, <1>2, <1>3, <1>4, <1>5, <1>6, <1>7 DEF Next

LEMMA TypedFirst == Init => Typed
<1> SUFFICES ASSUME Init PROVE Typed
  OBVIOUS
<1>1. rows \in Seq(Shipment) /\ groups \in 0 .. MaxGroups /\ left \in 0 .. Planned
  BY KdzsAssumption DEF Init
<1>2. DOMAIN core = {}
  BY DEF Init
<1>3. Weights(core)
  BY <1>2, FS_EmptySet DEF Weights
<1>4. SumOf(core, {}) = 0
  BY <1>3, SumFacts
<1>5. CoreTyped(core)
  BY <1>2, <1>4, KdzsAssumption DEF CoreTyped
<1>6. \A r \in Reqs : CallTyped(req[r])
  BY DEF Init, CallTyped, Idle
<1>7. QED
  BY <1>1, <1>5, <1>6 DEF Typed

\* Every column, count and remainder is of its type: the parcels OrderCore took
\* never exceed the order (shipOrderCore reports no more than it takes), the plan
\* line never falls below zero (applyShipPlanProgress), and a handler that goes
\* on with a shipment it found has one.
THEOREM TypeCorrect == Spec => []TypeOK
<1>1. Inv /\ Typed => TypeOK
  <2> SUFFICES ASSUME Inv, Typed PROVE TypeOK
    OBVIOUS
  <2>1. \A r \in Reqs : req[r].pc \in {"again", "update", "upsertOld"} => req[r].id \in DOMAIN rows
    BY Under DEF HandlerOK
  <2>2. Remaining \in 0 .. Total
    BY Remains DEF Typed
  <2>3. QED
    BY <2>1, <2>2 DEF Typed, CoreTyped, TypeOK
<1>2. QED
  BY <1>1, Invariance, TypedFirst, TypedHolds, PTL DEF Spec

-----------------------------------------------------------------------------
(* The plan line.                                                          *)

\* The pieces the plan line lost were shipped in the rows C; each handler about
\* to take its goods off has a row outside C of its own, with those goods.
Spends(t, q, l, C, own) ==
  /\ C \subseteq DOMAIN t
  /\ Planned - l <= SumOf(Goods(t), C)
  /\ \A r \in Reqs : q[r].pc = "progress" =>
       /\ own[r] \in DOMAIN t \ C
       /\ ~t[own[r]].account /\ t[own[r]].qty = q[r].call.packages[1].qty
       /\ \A s \in Reqs : q[s].pc = "progress" /\ own[s] = own[r] => s = r

Accounted ==
  groups = 0 =>
    /\ \A r \in Reqs : req[r].pc # "idle" => Kind(r) # "split"
    /\ \E C, own : Spends(rows, req, left, C, own)

LEMMA RowsWeigh ==
  ASSUME NEW t \in Seq(Shipment)
  PROVE  /\ Weights(Goods(t)) /\ DOMAIN Goods(t) = DOMAIN t
         /\ \A i \in DOMAIN t : Goods(t)[i] = IF t[i].account THEN 0 ELSE t[i].qty
<1>1. DOMAIN t = 1 .. Len(t) /\ Len(t) \in Nat
  OBVIOUS
<1>2. IsFiniteSet(DOMAIN t)
  BY <1>1, FS_Interval
<1>3. /\ DOMAIN Goods(t) = DOMAIN t
      /\ \A i \in DOMAIN t : Goods(t)[i] = IF t[i].account THEN 0 ELSE t[i].qty
  BY DEF Goods
<1>4. \A i \in DOMAIN t : t[i].qty \in Nat
  <2>1. \A i \in DOMAIN t : t[i] \in Shipment
    OBVIOUS
  <2>2. QED
    BY <2>1 DEF Shipment
<1>5. QED
  BY <1>2, <1>3, <1>4 DEF Weights

\* Rows are added and keep their goods, and no further handler is about to count.
LEMMA SpendsStays ==
  ASSUME NEW t \in Seq(Shipment), NEW u \in Seq(Shipment), DOMAIN t \subseteq DOMAIN u,
         \A i \in DOMAIN t : u[i].qty = t[i].qty /\ u[i].account = t[i].account,
         NEW q, NEW p,
         \A r \in Reqs : p[r].pc = "progress" => q[r].pc = "progress" /\ p[r].call = q[r].call,
         NEW l, NEW C, NEW own, Spends(t, q, l, C, own)
  PROVE  Spends(u, p, l, C, own)
<1>1. C \subseteq DOMAIN t
  BY DEF Spends
<1>2. SumOf(Goods(u), C) = SumOf(Goods(t), C)
  BY <1>1, RowsWeigh, SumsAgree
<1>3. QED
  BY <1>2 DEF Spends

\* A handler inserts its row and is about to count it.
LEMMA SpendsInsert ==
  ASSUME NEW t \in Seq(Shipment), NEW x \in Shipment, ~x.account,
         NEW q, NEW p, NEW r \in Reqs, p[r].call.packages[1].qty = x.qty,
         \A s \in Reqs : s # r => p[s] = q[s],
         NEW l, NEW C, NEW own, Spends(t, q, l, C, own)
  PROVE  \E o : Spends(Append(t, x), p, l, C, o)
<1> DEFINE u == Append(t, x)
           n == Len(t) + 1
           o == [s \in Reqs |-> IF s = r THEN n ELSE own[s]]
<1>1. /\ u \in Seq(Shipment) /\ DOMAIN u = DOMAIN t \cup {n} /\ n \notin DOMAIN t
      /\ u[n] = x /\ \A i \in DOMAIN t : u[i] = t[i]
  BY DEF Shipment
<1> HIDE DEF u, n
<1>2. C \subseteq DOMAIN t
  BY DEF Spends
<1>3. SumOf(Goods(u), C) = SumOf(Goods(t), C)
  BY <1>1, <1>2, RowsWeigh, SumsAgree
<1>4. o[r] = n /\ \A s \in Reqs : s # r => o[s] = own[s]
  OBVIOUS
<1> HIDE DEF o
<1>5. Spends(u, p, l, C, o)
  BY <1>1, <1>3, <1>4 DEF Spends
<1>6. QED
  BY <1>5 DEF u

LEMMA Off ==
  ASSUME NEW m \in Nat, NEW l \in Nat, NEW k \in Nat, NEW a \in Nat, NEW b,
         b = k + a, m - l <= a
  PROVE  m - (IF k >= l THEN 0 ELSE l - k) <= b
OBVIOUS

\* A handler takes its goods off the plan line: its row is spent.
LEMMA SpendsProgress ==
  ASSUME NEW t \in Seq(Shipment), NEW q, NEW p, NEW r \in Reqs, q[r].pc = "progress",
         p[r].pc # "progress", \A s \in Reqs : s # r => p[s] = q[s],
         NEW l \in Nat, NEW k \in Nat, k = q[r].call.packages[1].qty,
         NEW C, NEW own, Spends(t, q, l, C, own)
  PROVE  Spends(t, p, IF k >= l THEN 0 ELSE l - k, C \cup {own[r]}, own)
<1> DEFINE D == C \cup {own[r]}
           w == Goods(t)
<1>1. own[r] \in DOMAIN t /\ own[r] \notin C /\ C \subseteq DOMAIN t
  BY DEF Spends
<1>2. w[own[r]] = k /\ Weights(w) /\ DOMAIN w = DOMAIN t
  BY <1>1, RowsWeigh DEF Spends
<1> HIDE DEF w
<1>3. D \ {own[r]} = C /\ D \in SUBSET DOMAIN w /\ own[r] \in D
  BY <1>1, <1>2
<1>4. SumOf(w, D) = k + SumOf(w, C) /\ SumOf(w, C) \in Nat
  <2>1. C \in SUBSET DOMAIN w
    BY <1>1, <1>2
  <2> HIDE DEF D
  <2>2. SumOf(w, C) \in Nat
    BY <1>2, <2>1, SumFacts
  <2>3. SumOf(w, D) = w[own[r]] + SumOf(w, D \ {own[r]})
    <3>1. \A s \in SUBSET DOMAIN w : \A x \in s : SumOf(w, s) = w[x] + SumOf(w, s \ {x})
      BY <1>2, SumFacts
    <3>2. QED
      BY <1>3, <3>1, Zenon
  <2>4. SumOf(w, D \ {own[r]}) = SumOf(w, C)
    BY <1>3, Zenon
  <2>5. QED
    BY <1>2, <2>2, <2>3, <2>4
<1>5. Planned - l <= SumOf(w, C)
  BY DEF Spends, w
<1>6. Planned - (IF k >= l THEN 0 ELSE l - k) <= SumOf(w, D)
  <2>1. SumOf(w, C) \in Nat /\ SumOf(w, D) = k + SumOf(w, C) /\ Planned \in Nat
    BY <1>4, KdzsAssumption
  <2> HIDE DEF D
  <2>2. QED
    BY <1>5, <2>1, Off
<1>7. \A s \in Reqs : p[s].pc = "progress" =>
        /\ own[s] \in DOMAIN t \ D
        /\ ~t[own[s]].account /\ t[own[s]].qty = p[s].call.packages[1].qty
        /\ \A v \in Reqs : p[v].pc = "progress" /\ own[v] = own[s] => v = s
  BY DEF Spends
<1>8. QED
  BY <1>1, <1>6, <1>7 DEF Spends, w

LEMMA AccountedFirst == Init => Accounted
<1> SUFFICES ASSUME Init PROVE Accounted
  OBVIOUS
<1>1. rows \in Seq(Shipment) /\ left = Planned /\ \A r \in Reqs : req[r].pc = "idle"
  BY DEF Init, Idle
<1>2. SumOf(Goods(rows), {}) = 0
  BY <1>1, RowsWeigh, SumFacts
<1>3. Spends(rows, req, left, {}, <<>>)
  BY <1>1, <1>2, KdzsAssumption DEF Spends
<1>4. QED
  BY <1>1, <1>3 DEF Accounted

\* What is to be shown of a step that counts nothing.
LEMMA CountsNothing ==
  ASSUME Typed, Accounted, rows' \in Seq(Shipment), groups' = groups, left' = left,
         DOMAIN rows \subseteq DOMAIN rows',
         \A i \in DOMAIN rows : rows'[i].qty = rows[i].qty /\ rows'[i].account = rows[i].account,
         groups = 0 => \A r \in Reqs :
           /\ req'[r].pc # "idle" => req'[r].call.kind # "split"
           /\ req'[r].pc = "progress" => req[r].pc = "progress" /\ req'[r].call = req[r].call
  PROVE  Accounted'
<1> SUFFICES ASSUME groups = 0
             PROVE  /\ \A r \in Reqs : req'[r].pc # "idle" => req'[r].call.kind # "split"
                    /\ \E C, own : Spends(rows', req', left', C, own)
  BY DEF Accounted, Kind
<1>1. PICK C, own : Spends(rows, req, left, C, own)
  BY DEF Accounted
<1>2. Spends(rows', req', left, C, own)
  BY <1>1, SpendsStays DEF Typed
<1>3. QED
  BY <1>2, Zenon

\* A row keeps its goods whatever a handler changes.
LEMMA RowsKeepGoods ==
  ASSUME Inv, Typed, NEW r \in Reqs, HandlerStep(r)
  PROVE  /\ DOMAIN rows \subseteq DOMAIN rows'
         /\ \A i \in DOMAIN rows : rows'[i].qty = rows[i].qty /\ rows'[i].account = rows[i].account
<1>1. rows \in Seq(Shipment) /\ \A i \in DOMAIN rows : rows[i] \in Shipment
  BY DEF Typed
<1>2. CASE UNCHANGED rows
  BY <1>2
<1>3. ASSUME NEW x, rows' = Append(rows, x)
      PROVE  DOMAIN rows \subseteq DOMAIN rows' /\ \A i \in DOMAIN rows : rows'[i] = rows[i]
  BY <1>3, Appended, Zenon DEF Inv
<1>a. ASSUME NEW i \in DOMAIN rows, NEW x, x.qty = rows[i].qty, x.account = rows[i].account,
             rows' = [rows EXCEPT ![i] = x]
      PROVE  /\ DOMAIN rows \subseteq DOMAIN rows'
             /\ \A j \in DOMAIN rows : rows'[j].qty = rows[j].qty /\ rows'[j].account = rows[j].account
  BY <1>1, <1>a, Changed
<1>4. CASE UpdateExisting(r)
  <2> DEFINE i == req[r].id
             x == [rows[i] EXCEPT !.group = IF req[r].group = 0 THEN @ ELSE req[r].group]
  <2>1. i \in DOMAIN rows
    BY <1>4, Under DEF HandlerOK, UpdateExisting
  <2>2. x.qty = rows[i].qty /\ x.account = rows[i].account
    BY <1>1, <2>1 DEF Shipment
  <2>3. rows' = [rows EXCEPT ![i] = x] \/ UNCHANGED rows
    BY <1>4, <2>1 DEF UpdateExisting
  <2> HIDE DEF x, i
  <2>4. QED
    BY <1>2, <1>a, <2>1, <2>2, <2>3
<1>5. CASE UpsertExisting(r)
  <2> DEFINE i == req[r].id
             x == [rows[i] EXCEPT !.via = IF rows[i].account THEN "sf" ELSE "kdzs"]
  <2>1. i \in DOMAIN rows
    BY <1>5, Under DEF HandlerOK, UpsertExisting
  <2>2. x.qty = rows[i].qty /\ x.account = rows[i].account
    BY <1>1, <2>1 DEF Shipment
  <2>3. rows' = [rows EXCEPT ![i] = x] \/ UNCHANGED rows
    BY <1>5, <2>1 DEF UpsertExisting
  <2> HIDE DEF x, i
  <2>4. QED
    BY <1>2, <1>a, <2>1, <2>2, <2>3
<1>6. CASE InsertShipment(r)
  BY <1>2, <1>3, <1>6 DEF InsertShipment
<1>7. CASE UpsertNew(r)
  BY <1>2, <1>3, <1>7 DEF UpsertNew
<1>8. QED
  BY <1>2, <1>4, <1>5, <1>6, <1>7
     DEF HandlerStep, findActiveKdzsShipment, shipOrderCore, ApplyShipPlanProgress

LEMMA AccountedHolds ==
  ASSUME Inv, Typed, Accounted, [Next]_vars
  PROVE  Accounted'
<1>0. /\ rows' \in Seq(Shipment)
      /\ \A r \in Reqs : req[r].pc # "idle" => req[r].call.kind # "split" \/ groups # 0
  BY TypedHolds DEF Typed, Accounted, Kind
<1>1. ASSUME NEW r \in Reqs, HandlerStep(r) PROVE Accounted'
  <2>1. PICK w : /\ Onward(r, w)
                 /\ w.pc = "progress" /\ Kind(r) # "split" =>
                      req[r].pc = "insert" /\ rows' = Append(rows, NewRow(r))
    BY <1>1, HandlersGoOn
  <2>2. req'[r] = w /\ \A s \in Reqs : s # r => req'[s] = req[s]
    BY <2>1 DEF Onward, Inv, Shape
  <2>3. req[r].pc # "idle" /\ groups' = groups
    BY <1>1 DEF HandlerStep, findActiveKdzsShipment, shipOrderCore, UpdateExisting,
       InsertShipment, ApplyShipPlanProgress, UpsertExisting, UpsertNew
  <2>4. groups = 0 => Kind(r) # "split"
    BY <2>3 DEF Accounted
  <2>5. groups = 0 => \A s \in Reqs : req'[s].pc # "idle" => req'[s].call.kind # "split"
    BY <1>0, <2>1, <2>2, <2>3 DEF Onward
  <2>6. CASE w.pc = "progress" /\ groups = 0
    <3>1. req[r].pc = "insert" /\ rows' = Append(rows, NewRow(r)) /\ left' = left
      BY <1>1, <2>1, <2>4, <2>6 DEF HandlerStep, findActiveKdzsShipment, shipOrderCore,
         UpdateExisting, InsertShipment, ApplyShipPlanProgress, UpsertExisting, UpsertNew
    <3>2. w.call = req[r].call
      BY <2>1, <2>6 DEF Onward
    <3>3. NewRow(r) \in Shipment /\ ~NewRow(r).account
      BY <2>3, NewRowTyped DEF NewRow
    <3>4. NewRow(r).qty = w.call.packages[1].qty
      <4>1. req[r].at = 1
        <5>1. req[r].at \in 1 .. Len(req[r].call.packages)
          BY <2>3, Under DEF HandlerOK
        <5>2. Len(req[r].call.packages) = 1
          BY <2>3, <2>4, <2>6, Under DEF HandlerOK, Kind
        <5>3. QED
          BY <5>1, <5>2
      <4>2. QED
        BY <3>2, <4>1 DEF NewRow, Current
    <3>5. PICK C, own : Spends(rows, req, left, C, own)
      BY <2>6 DEF Accounted
    <3>6. \E o : Spends(Append(rows, NewRow(r)), req', left, C, o)
      BY <2>2, <3>3, <3>4, <3>5, SpendsInsert DEF Typed
    <3>7. \E D, o : Spends(rows', req', left', D, o)
      BY <3>1, <3>6, Zenon
    <3>8. QED
      BY <2>3, <2>5, <2>6, <3>7 DEF Accounted, Kind
  <2>7. CASE ApplyShipPlanProgress(r) /\ groups = 0 /\ left' # left
    <3>1. /\ req[r].pc = "progress" /\ w.pc = "idle" /\ UNCHANGED rows
          /\ left' = IF Pieces(r) >= left THEN 0 ELSE left - Pieces(r)
      <4>1. req' = [req EXCEPT ![r] = Idle]
        BY <2>7 DEF ApplyShipPlanProgress, Answer
      <4>2. w = Idle
        BY <2>2, <4>1 DEF Inv, Shape
      <4>3. QED
        BY <2>7, <4>2 DEF ApplyShipPlanProgress, Idle
    <3>2. Pieces(r) \in Nat /\ Pieces(r) = req[r].call.packages[1].qty /\ left \in Nat
      BY <2>3, <2>4, <2>7, PiecesTyped DEF Typed
    <3>3. PICK C, own : Spends(rows, req, left, C, own)
      BY <2>7 DEF Accounted
    <3>4. Spends(rows, req', IF Pieces(r) >= left THEN 0 ELSE left - Pieces(r), C \cup {own[r]}, own)
      BY <2>2, <3>1, <3>2, <3>3, SpendsProgress DEF Typed
    <3>5. \E D, o : Spends(rows', req', left', D, o)
      BY <3>1, <3>4, Zenon
    <3>6. QED
      BY <2>3, <2>5, <2>7, <3>5 DEF Accounted, Kind
  <2>8. CASE w.pc # "progress" /\ left' = left
    BY <1>0, <1>1, <2>2, <2>3, <2>5, <2>8, RowsKeepGoods, CountsNothing
  <2>9. CASE groups # 0
    BY <2>3, <2>9 DEF Accounted
  <2>10. left' = left \/ ApplyShipPlanProgress(r)
    BY <1>1 DEF HandlerStep, findActiveKdzsShipment, shipOrderCore, UpdateExisting,
       InsertShipment, UpsertExisting, UpsertNew
  <2>11. QED
    BY <2>6, <2>7, <2>8, <2>9, <2>10
<1>2. ASSUME NEW r \in Reqs, NEW c \in Calls[overlap], BeginConfirm(r, c) PROVE Accounted'
  <2> DEFINE w == [pc |-> "find", call |-> c, at |-> 1, id |-> 0, group |-> 0]
  <2>1. /\ req' = [req EXCEPT ![r] = w] /\ c.kind # "split"
        /\ UNCHANGED <<rows, groups, left>>
    BY <1>2 DEF BeginConfirm, Begin
  <2>2. w.pc = "find" /\ w.call = c
    OBVIOUS
  <2> HIDE DEF w
  <2>3. req'[r] = w /\ \A s \in Reqs : s # r => req'[s] = req[s]
    BY <2>1 DEF Inv, Shape
  <2>4. QED
    BY <1>0, <2>1, <2>2, <2>3, CountsNothing
<1>3. ASSUME NEW r \in Reqs, NEW c \in Calls[overlap], CreateShipmentGroup(r, c)
      PROVE  Accounted'
  BY <1>3 DEF CreateShipmentGroup, Accounted, Typed
<1>4. ASSUME NEW r \in Reqs, NEW no \in Nos, BeginUpsert(r, no) PROVE Accounted'
  <2> DEFINE p == IF Active(no) = {} THEN "upsertNew" ELSE "upsertOld"
             i == IF Active(no) = {} THEN 0 ELSE Min(Active(no))
             q == [kind |-> "upsert", packages |-> <<[no |-> no, qty |-> core[no]]>>]
             w == [Idle EXCEPT !.pc = p, !.call = q, !.at = 1, !.id = i]
  <2>1. /\ req' = [req EXCEPT ![r] = w]
        /\ UNCHANGED <<rows, groups, left>>
    BY <1>4 DEF BeginUpsert
  <2>2. q.kind = "upsert" /\ p \in {"upsertNew", "upsertOld"}
    OBVIOUS
  <2> HIDE DEF q, i, p
  <2>3. w.call = q /\ w.pc = p
    BY DEF Idle
  <2> HIDE DEF w
  <2>4. req'[r] = w /\ \A s \in Reqs : s # r => req'[s] = req[s]
    BY <2>1 DEF Inv, Shape
  <2>5. QED
    BY <1>0, <2>1, <2>2, <2>3, <2>4, CountsNothing
<1>5. ASSUME NEW no \in Nos, NEW qty, CoreLearns(no, qty) PROVE Accounted'
  BY <1>0, <1>5, CountsNothing DEF CoreLearns
<1>6. ASSUME NEW no \in Nos, NEW qty, SFShipment(no, qty) PROVE Accounted'
  <2> DEFINE x == [no |-> no, qty |-> qty, reship |-> FALSE, account |-> TRUE,
                   via |-> "sf", group |-> 0]
  <2>1. rows' = Append(rows, x) /\ UNCHANGED <<groups, left, req>>
    BY <1>6 DEF SFShipment
  <2> HIDE DEF x
  <2>2. DOMAIN rows \subseteq DOMAIN rows' /\ \A i \in DOMAIN rows : rows'[i] = rows[i]
    BY <2>1, Appended, Zenon DEF Inv
  <2>3. QED
    BY <1>0, <2>1, <2>2, CountsNothing
<1>7. CASE Crash
  BY <1>0, <1>7, CountsNothing DEF Crash, Idle
<1>8. CASE UNCHANGED vars
  BY <1>0, <1>8, CountsNothing DEF vars
<1>9. QED
  BY <1>1, <1>2, <1>3, <1>4, <1>5, <1>6, <1>7, <1>8 DEF Next

\* As long as the order is not split, the plan line never loses more pieces than
\* kdzs shipments were made for, however often a confirmation is sent again, by
\* however many handlers at once, whatever fails: the goods are taken off only
\* after the insert of a row of their own (ConfirmKdzsShip).
THEOREM PlanHolds == Spec => []PlanNotOverdrawn
<1>1. Inv /\ Typed /\ Accounted => PlanNotOverdrawn
  <2> SUFFICES ASSUME Typed, Accounted, groups = 0 PROVE PlanCountedOnce
    BY DEF PlanNotOverdrawn
  <2>1. PICK C, own : Spends(rows, req, left, C, own)
    BY DEF Accounted
  <2>2. Weights(Goods(rows)) /\ DOMAIN Goods(rows) = DOMAIN rows
    BY RowsWeigh DEF Typed
  <2>3. C \in SUBSET DOMAIN rows /\ Planned - left <= SumOf(Goods(rows), C)
    BY <2>1 DEF Spends
  <2>4. /\ SumOf(Goods(rows), C) <= SumOf(Goods(rows), DOMAIN rows)
        /\ SumOf(Goods(rows), C) \in Nat /\ SumOf(Goods(rows), DOMAIN rows) \in Nat
    BY <2>2, <2>3, SumFacts
  <2>5. Planned - left <= SumOf(Goods(rows), DOMAIN rows)
    BY <2>3, <2>4, KdzsAssumption DEF Typed
  <2>6. FoldFunction(LAMBDA s, n : (IF s.account THEN 0 ELSE s.qty) + n, 0, rows)
          = SumOf(Goods(rows), DOMAIN rows)
    BY <2>2, RowsAdded
  <2>7. QED
    BY <2>5, <2>6, Zenon DEF PlanCountedOnce
<1>2. QED
  BY <1>1, Invariance, TypedFirst, TypedHolds, AccountedFirst, AccountedHolds, PTL DEF Spec
=============================================================================
