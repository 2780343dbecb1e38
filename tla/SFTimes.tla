------------------------------- MODULE SFTimes --------------------------------
(***************************************************************************)
(* What the server makes of SF's answers about times: the hours a pick-up  *)
(* can be booked for (internal/service/pickup_time.go) and the products a  *)
(* parcel can be sent with (internal/service/deliver_tm.go).               *)
(*                                                                         *)
(* Times of day are minutes after midnight.  Days have 24 hours: the desk  *)
(* works in one time zone without daylight saving.  Labels are left out.   *)
(***************************************************************************)
EXTENDS Integers, FiniteSets, Sequences

CONSTANTS
  Clocks,  \* times of day a question is asked at: [min, exact], see Now
  Windows, \* <<start, end>> as SF writes them, hour * 100 + minute; -1: no time
  Items    \* products in SF's answers: [code, fee, times]

\* min: the full minutes; exact: not a moment later.
Now == [min: 0 .. 1439, exact: BOOLEAN]

ASSUME SFTimesAssumption ==
  /\ Clocks \subseteq Now
  /\ Windows \subseteq Int \X Int
  /\ \A it \in Items : it.fee \in Nat /\ it.times \in Seq(Nat \cup {-1}) /\ it.times # <<>>

VARIABLES
  asked,  \* the question
  answer  \* the server's answer

timeVars == <<asked, answer>>

-----------------------------------------------------------------------------
(* Pick-up hours.                                                          *)

IsTime(v) == v \in 0 .. 2359 /\ v % 100 <= 59
parseHHMM(v) == (v \div 100) * 60 + (v % 100)

StartMin(w) == IF IsTime(w[1]) THEN parseHHMM(w[1]) ELSE 8 * 60
EndMin(w) ==
  LET end == IF IsTime(w[2]) THEN parseHHMM(w[2]) ELSE 20 * 60 IN
  IF end <= StartMin(w) THEN StartMin(w) + 60 ELSE end

Within(now) == (now.min + 15) % 1440

HourUp(min) == IF min % 60 = 0 THEN min ELSE min + (60 - (min % 60))
LaterOf(a, b) == IF a < b THEN b ELSE a

\* Seeded bug: the hour that has begun is offered.
FirstHourBegun(now, w, day) ==
  HourUp(LaterOf(StartMin(w), IF day > 0 THEN 0 ELSE (now.min \div 60) * 60))

\* The first hour of a day: today's next one, or this one on the hour.
FirstHour(now, w, day) ==
  LET nextHour == IF now.exact /\ now.min % 60 = 0 THEN now.min ELSE (now.min \div 60 + 1) * 60 IN
  HourUp(LaterOf(StartMin(w), IF day > 0 THEN 0 ELSE nextHour))

HourSlots(first, end) == {m \in {first + 60 * k : k \in 0 .. 24} : m < end /\ m <= 23 * 60}

buildPickupAppointOptions(now, w) ==
  [day \in 0 .. 2 |->
    [within1h |-> day = 0 /\ StartMin(w) <= Within(now) /\ Within(now) < EndMin(w),
     hours |-> HourSlots(FirstHour(now, w, day), EndMin(w))]]

-----------------------------------------------------------------------------
(* Products.                                                               *)

\* A time is written as the last of one or two; -1: an empty one, 0: not a
\* time.
formatDeliverTimeLabel(times) == IF times[Len(times)] = -1 THEN times[1] ELSE times[Len(times)]

Common == <<"1", "2">>
OrderedTypes == {"1", "2"}
isCoreExpressType(it) == it.code \in OrderedTypes

AddedTag(code) == IF code = "1" THEN "fastest" ELSE "economical"
Added(code) == [code |-> code, fee |-> 0, time |-> 0, tag |-> AddedTag(code)]

\* SF's products that can be ordered, by their places in its answer, and after
\* them those it did not tell of.
Products(items) ==
  LET core == {i \in DOMAIN items : isCoreExpressType(items[i])}
      told == {items[i].code : i \in core} IN
  [i \in core \cup {Len(items) + n : n \in {m \in 1 .. 2 : Common[m] \notin told}} |->
    IF i \in core
      THEN [code |-> items[i].code, fee |-> items[i].fee, tag |-> "",
            time |-> formatDeliverTimeLabel(items[i].times)]
      ELSE Added(Common[i - Len(items)])]

LeastOf(S) == {x \in S : \A y \in S : x <= y}

\* Seeded bug: a product without a fee is the cheapest.
MinFeeOfAll(ps) == LeastOf({ps[i].fee : i \in DOMAIN ps})

\* Sets of one value, or none.
MinFee(ps) == LeastOf({ps[i].fee : i \in DOMAIN ps} \ {0})
Earliest(ps) == LeastOf({ps[i].time : i \in DOMAIN ps} \ {-1, 0})
earliestCodes(ps) == {ps[i].code : i \in {j \in DOMAIN ps : ps[j].time \in Earliest(ps)}}

Tagged(ps) ==
  [i \in DOMAIN ps |->
    [ps[i] EXCEPT !.tag =
       IF ps[i].fee \in MinFee(ps) THEN "cheapest"
       ELSE IF ps[i].code \in earliestCodes(ps) THEN "fastest"
       ELSE IF @ # "" THEN @
       ELSE IF ps[i].code = "1" THEN "fastest"
       ELSE IF MinFee(ps) = {} THEN "economical" ELSE ""]]

-----------------------------------------------------------------------------
NothingAsked == [kind |-> "nothing"]
Nothing == [kind |-> "nothing"]

TimeInit == asked = NothingAsked /\ answer = Nothing

\* The options are built for the time after SF's answer.
CheckPickupTime(now, w) ==
  /\ asked = NothingAsked
  /\ asked' = [kind |-> "pickup", now |-> now, window |-> w]
  /\ answer' = [kind |-> "pickup", days |-> buildPickupAppointOptions(now, w)]

QueryDeliverTm(items) ==
  /\ asked = NothingAsked
  /\ asked' = [kind |-> "products", items |-> items]
  /\ answer' = [kind |-> "products", products |-> Tagged(Products(items))]

\* The account is missing or switched off, an address is missing, or SF refuses
\* or does not answer.
CheckRefused ==
  /\ asked = NothingAsked
  /\ asked' = [kind |-> "no pickup"]
  /\ UNCHANGED answer

QueryRefused ==
  /\ asked = NothingAsked
  /\ asked' = [kind |-> "no products"]
  /\ UNCHANGED answer

TimeNext ==
  \/ CheckRefused \/ QueryRefused
  \/ \E now \in Clocks, w \in Windows : CheckPickupTime(now, w)
  \/ \E items \in {<<>>} \cup {<<a>> : a \in Items} \cup (Items \X Items) : QueryDeliverTm(items)

TimeSpec == TimeInit /\ [][TimeNext]_timeVars

-----------------------------------------------------------------------------
(* Properties.                                                             *)

\* The hours offered are exactly those that are full hours of SF's window and
\* have not begun: none in the past, none left out at the edges of the window,
\* of the hour or of the day, whatever SF's window looks like.  A pick-up
\* within the hour is offered when the window is open a quarter of an hour on.
HoursAhead ==
  asked.kind = "pickup" =>
    LET now == asked.now
        Ahead(m) == m > now.min \/ (m = now.min /\ now.exact) IN
    /\ \A day \in 0 .. 2 :
         answer.days[day].hours =
           {60 * h : h \in {k \in 0 .. 23 : /\ StartMin(asked.window) <= 60 * k
                                            /\ 60 * k < EndMin(asked.window)
                                            /\ day = 0 => Ahead(60 * k)}}
    /\ answer.days[0].within1h <=>
         Within(now) \in StartMin(asked.window) .. EndMin(asked.window) - 1

\* Every product that can be ordered is offered, priced or not, and no other; a
\* product is called the cheapest exactly when no product with a price costs
\* less; and one that arrives first is called the fastest or the cheapest.
TagsTrue ==
  asked.kind = "products" =>
    LET ps == answer.products
        Priced == {i \in DOMAIN ps : ps[i].fee > 0}
        Timed == {i \in DOMAIN ps : ps[i].time > 0} IN
    /\ {ps[i].code : i \in DOMAIN ps} = OrderedTypes
    /\ \A i \in DOMAIN ps :
         /\ ps[i].tag = "cheapest" <=> i \in Priced /\ \A j \in Priced : ps[i].fee <= ps[j].fee
         /\ (i \in Timed /\ \A j \in Timed : ps[i].time <= ps[j].time) =>
              ps[i].tag \in {"cheapest", "fastest"}
=============================================================================
