---------------------------- MODULE WaybillLedger ----------------------------
(***************************************************************************)
(* What the shipping centre promises about paid SF waybills, one shipment  *)
(* at a time: SF accepts at most one order for it, and what was cancelled  *)
(* stays so.                                                               *)
(***************************************************************************)
CONSTANT Shipments
VARIABLE ledger   \* [Shipments -> the orders SF accepted and cancelled for it]

LedgerInit == ledger = [s \in Shipments |-> [accepted |-> {}, cancelled |-> {}]]

\* SF accepts the first order of a shipment, whatever its number.
Order(s) ==
  /\ ledger[s].accepted = {}
  /\ \E n \in ledger'[s].accepted : ledger' = [ledger EXCEPT ![s].accepted = {n}]

\* SF cancels the order of a shipment.
Void(s) ==
  /\ ledger[s].accepted # {} /\ ledger[s].cancelled = {}
  /\ ledger' = [ledger EXCEPT ![s].cancelled = ledger[s].accepted]

LedgerSpec == LedgerInit /\ [][\E s \in Shipments : Order(s) \/ Void(s)]_ledger
=============================================================================
