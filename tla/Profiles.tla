------------------------------- MODULE Profiles -------------------------------
(***************************************************************************)
(* The records the desk keeps for shipping: shipper profiles with their    *)
(* default (internal/service/shipper_service.go), carrier accounts         *)
(* (carrier_service.go) and the default printers                           *)
(* (print_settings_service.go), of one tenant.                             *)
(*                                                                         *)
(* Each statement to the database is a step; none of these operations uses *)
(* a transaction.  Save of a row that was deleted meanwhile inserts it     *)
(* again, as gorm's does.  Fields that no property looks at are left out.  *)
(***************************************************************************)
EXTENDS Integers, FiniteSets

CONSTANTS
  Ids,      \* rows of a table; an id is used once
  Names,    \* names of carrier accounts
  Printers, \* names of printers
  Editors,  \* requests running at the same time
  MaxOps,   \* bound on the requests ever made
  Serials   \* are requests made one at a time?

ASSUME ProfilesAssumption ==
  /\ MaxOps \in Nat /\ Serials \subseteq BOOLEAN
  /\ "none" \notin Names \cup Printers

VARIABLES
  serial,   \* one request at a time?
  shipper,  \* table shipper_profiles
  carrier,  \* table carrier_accounts, by name; "none": no row
  printer,  \* the row of print_settings
  used,     \* ids given to rows of the two tables
  edit,     \* what each request is doing
  ops,      \* requests made
  standing, \* the profile made default last by a request that ended well
  given     \* the printers given last

profileVars == <<serial, shipper, carrier, printer, used, edit, ops, standing, given>>

NoProfile == [there |-> FALSE, default |-> FALSE]
Still == [pc |-> "idle", id |-> 0, default |-> FALSE, copy |-> FALSE, name |-> "none",
          columns |-> {}]
NoPrinters == [sf |-> "none", kdzs |-> "none"]
Columns == {"sf", "kdzs"}

AllStill == \A e \in Editors : edit[e] = Still
MayBegin(e) == edit[e] = Still /\ ops < MaxOps /\ (serial => AllStill)
Begin(e, what) == edit' = [edit EXCEPT ![e] = what] /\ ops' = ops + 1
End(e) == edit' = [edit EXCEPT ![e] = Still]
Fresh(table) == {i \in Ids : <<table, i>> \notin used}

ProfileInit ==
  /\ serial \in Serials
  /\ shipper = [i \in Ids |-> NoProfile]
  /\ carrier = [i \in Ids |-> "none"]
  /\ printer = NoPrinters
  /\ used = {}
  /\ edit = [e \in Editors |-> Still]
  /\ ops = 0
  /\ standing = 0
  /\ given = NoPrinters

\* A request ends with an error, or the process stops.  A default that was
\* asked for may then stand, or not.
EditFails(e) ==
  /\ edit[e] # Still
  /\ End(e)
  /\ standing' = IF edit[e].pc \in {"clear", "write"} THEN 0 ELSE standing
  /\ UNCHANGED <<serial, shipper, carrier, printer, used, ops, given>>

-----------------------------------------------------------------------------
(* ShipperService.                                                         *)

\* Create, Update and SetDefault: the row is read, if there is one.  The copy
\* keeps the default it was read with, unless it is to become the default.
BeginShipper(e, i, default, new) ==
  /\ MayBegin(e)
  /\ IF new THEN i \in Fresh("shipper") ELSE shipper[i].there
  /\ Begin(e, [Still EXCEPT !.pc = IF default THEN "clear" ELSE "write", !.id = i,
                            !.default = default,
                            !.copy = default \/ (~new /\ shipper[i].default)])
  /\ used' = used \cup {<<"shipper", i>>}
  /\ UNCHANGED <<serial, shipper, carrier, printer, standing, given>>

\* Seeded bug: the default that was is kept.
ClearNothing(e) ==
  /\ edit[e].pc = "clear"
  /\ edit' = [edit EXCEPT ![e].pc = "write"]
  /\ UNCHANGED <<serial, shipper, carrier, printer, used, ops, standing, given>>

\* UPDATE ... SET is_default = false WHERE is_default.
ClearDefault(e) ==
  /\ edit[e].pc = "clear"
  /\ shipper' = [i \in Ids |-> [shipper[i] EXCEPT !.default = FALSE]]
  /\ edit' = [edit EXCEPT ![e].pc = "write"]
  /\ UNCHANGED <<serial, carrier, printer, used, ops, standing, given>>

\* Seeded bug: an update leaves the default to whoever asks for it.
WriteUndefaulted(e) ==
  /\ edit[e].pc = "write"
  /\ shipper' = [shipper EXCEPT ![edit[e].id] = [there |-> TRUE, default |-> edit[e].default]]
  /\ standing' = IF edit[e].default THEN edit[e].id ELSE standing
  /\ End(e)
  /\ UNCHANGED <<serial, carrier, printer, used, ops, given>>

\* The whole row.
WriteShipper(e) ==
  /\ edit[e].pc = "write"
  /\ shipper' = [shipper EXCEPT ![edit[e].id] = [there |-> TRUE, default |-> edit[e].copy]]
  /\ standing' = IF edit[e].default THEN edit[e].id ELSE standing
  /\ End(e)
  /\ UNCHANGED <<serial, carrier, printer, used, ops, given>>

DeleteShipper(e, i) ==
  /\ MayBegin(e) /\ shipper[i].there
  /\ shipper' = [shipper EXCEPT ![i] = NoProfile]
  /\ standing' = IF standing = i THEN 0 ELSE standing
  /\ ops' = ops + 1
  /\ UNCHANGED <<serial, carrier, printer, used, edit, given>>

-----------------------------------------------------------------------------
(* CarrierService.                                                         *)

\* Update reads the row first.
BeginCarrier(e, i, name, new) ==
  /\ MayBegin(e)
  /\ IF new THEN i \in Fresh("carrier") ELSE carrier[i] # "none"
  /\ Begin(e, [Still EXCEPT !.pc = "unique", !.id = i, !.name = name])
  /\ used' = used \cup {<<"carrier", i>>}
  /\ UNCHANGED <<serial, shipper, carrier, printer, standing, given>>

Taken(i, name) == \E j \in Ids \ {i} : carrier[j] = name

ensureUniqueName(e) ==
  /\ edit[e].pc = "unique"
  /\ IF Taken(edit[e].id, edit[e].name) THEN End(e)
     ELSE edit' = [edit EXCEPT ![e].pc = "save"]
  /\ UNCHANGED <<serial, shipper, carrier, printer, used, ops, standing, given>>

\* Seeded bug: only the check before keeps names apart.
SaveUnindexed(e) ==
  /\ edit[e].pc = "save"
  /\ carrier' = [carrier EXCEPT ![edit[e].id] = edit[e].name]
  /\ End(e)
  /\ UNCHANGED <<serial, shipper, printer, used, ops, standing, given>>

\* Create or Save; the unique index of tenant and name refuses what the check
\* let through.
SaveCarrier(e) ==
  /\ edit[e].pc = "save"
  /\ carrier' = IF Taken(edit[e].id, edit[e].name) THEN carrier
                ELSE [carrier EXCEPT ![edit[e].id] = edit[e].name]
  /\ End(e)
  /\ UNCHANGED <<serial, shipper, printer, used, ops, standing, given>>

DeleteCarrier(e, i) ==
  /\ MayBegin(e) /\ carrier[i] # "none"
  /\ carrier' = [carrier EXCEPT ![i] = "none"]
  /\ ops' = ops + 1
  /\ UNCHANGED <<serial, shipper, printer, used, edit, standing, given>>

-----------------------------------------------------------------------------
(* PrintSettingsService.                                                   *)

\* getOrCreate reads the row, then the columns that are given are updated.
BeginPrinters(e, columns, name) ==
  /\ MayBegin(e)
  /\ Begin(e, [Still EXCEPT !.pc = "printers", !.columns = columns, !.name = name])
  /\ UNCHANGED <<serial, shipper, carrier, printer, used, standing, given>>

UpdateColumns(e) ==
  /\ edit[e].pc = "printers"
  /\ printer' = [c \in Columns |-> IF c \in edit[e].columns THEN edit[e].name ELSE printer[c]]
  /\ given' = [c \in Columns |-> IF c \in edit[e].columns THEN edit[e].name ELSE given[c]]
  /\ End(e)
  /\ UNCHANGED <<serial, shipper, carrier, used, ops, standing>>

ProfileNext ==
  \E e \in Editors :
    \/ EditFails(e)
    \/ \E i \in Ids :
         \/ \E default, new \in BOOLEAN : BeginShipper(e, i, default, new)
         \/ DeleteShipper(e, i)
         \/ \E name \in Names, new \in BOOLEAN : BeginCarrier(e, i, name, new)
         \/ DeleteCarrier(e, i)
    \/ ClearDefault(e) \/ WriteShipper(e)
    \/ ensureUniqueName(e) \/ SaveCarrier(e)
    \/ \E columns \in (SUBSET Columns) \ {{}}, name \in Printers : BeginPrinters(e, columns, name)
    \/ UpdateColumns(e)

ProfileSpec == ProfileInit /\ [][ProfileNext]_profileVars

-----------------------------------------------------------------------------
(* Properties.                                                             *)

ProfileTypeOK ==
  /\ shipper \in [Ids -> [there: BOOLEAN, default: BOOLEAN]]
  /\ carrier \in [Ids -> Names \cup {"none"}]
  /\ printer \in [Columns -> Printers \cup {"none"}]
  /\ used \subseteq {"shipper", "carrier"} \X Ids
  /\ standing \in Ids \cup {0}

\* When requests come one at a time, whichever of them fail half way: at most
\* one profile is the default, and the one made default last by a request that
\* ended well still is, through every edit of others.
OneDefault ==
  serial =>
    /\ \A i, j \in Ids : shipper[i].default /\ shipper[j].default => i = j
    /\ (AllStill /\ standing # 0) => shipper[standing].default

\* Two carrier accounts never share a name, however creates, renamings and the
\* saving of deleted rows interleave.
NamesUnique ==
  \A i, j \in Ids : carrier[i] = carrier[j] /\ carrier[i] # "none" => i = j

\* Each default printer is the one given last, though two requests that set one
\* printer each run at the same time.
PrintersKept == printer = given
=============================================================================
