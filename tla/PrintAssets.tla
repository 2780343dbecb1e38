------------------------------ MODULE PrintAssets -----------------------------
(***************************************************************************)
(* The waybill authorisations and express templates of kdzs:               *)
(* SyncPrintAssets of internal/service/kdzs_service.go, on top of the      *)
(* accounts and the session of KdzsAccounts.                               *)
(*                                                                         *)
(* SSA lists what the account of its session has; the rows are stored      *)
(* under the account that is active here, and rows of that account that    *)
(* are not in the list are deleted.  All rows of one list are stored in    *)
(* one step, and deleted in one step; each row may fail on its own.  Two   *)
(* rows of one account and one asset, which two synchronisations at the    *)
(* same time may insert, are not told apart.                               *)
(***************************************************************************)
EXTENDS KdzsAccounts

CONSTANTS
  Auths,     \* waybill authorisations of kdzs
  Templates, \* express templates of kdzs
  Offers,    \* what an account may have there: sets of assets
  Legacy     \* rows from before rows had an account: sets of assets

ASSUME PrintAssetsAssumption ==
  /\ Auths \cap Templates = {}
  /\ Offers \subseteq SUBSET (Auths \cup Templates)
  /\ Legacy \subseteq SUBSET (Auths \cup Templates)

VARIABLES
  remote, \* what each account has in kdzs
  rows,   \* tables waybill_auths and express_templates
  list,   \* what each request was listed
  synced  \* accounts whose last synchronisation was whole, and not changed since

assetVars == <<remote, rows, list, synced>>
vars == <<accountVars, assetVars>>

\* from: the account whose session listed the asset.
RowOf(acct, asset, from) == [acct |-> acct, asset |-> asset, from |-> from]
Rows == [acct: Codes \cup {None}, asset: Auths \cup Templates, from: Codes \cup {None}]

NoList == [label |-> None, items |-> {}, from |-> None, complete |-> FALSE, clean |-> FALSE]

Kind(w) == IF call[w].pc \in {"auths", "storeAuths", "pruneAuths"} THEN Auths ELSE Templates

Init ==
  /\ InitAccounts
  /\ remote \in [Codes -> Offers]
  /\ \E old \in Legacy : rows = {RowOf(None, a, None) : a \in old}
  /\ list = [w \in Workers |-> NoList]
  /\ synced = {}

-----------------------------------------------------------------------------
\* Seeded bug: the rows are labelled with the default account.
LabelDefault(w) ==
  /\ At(w, "ready") /\ call[w].op = "assets"
  /\ list' = [list EXCEPT ![w] = [NoList EXCEPT !.label = settings.default, !.clean = TRUE]]
  /\ synced' = synced \ {settings.default}
  /\ GoTo(w, "auths")
  /\ UNCHANGED <<accounts, settings, ssa, session, tokens, chosen, calls, edits, remote, rows>>

\* activeKdzsAccountLabel reads the settings again; its error reads as "no
\* account".
activeKdzsAccountLabel(w) ==
  /\ At(w, "ready") /\ call[w].op = "assets"
  /\ \E label \in {Effective(settings)} \cup (IF "dbError" \in Faults THEN {None} ELSE {}) :
       /\ list' = [list EXCEPT ![w] = [NoList EXCEPT !.label = label, !.clean = label # None]]
       /\ synced' = synced \ {label}
  /\ GoTo(w, "auths")
  /\ UNCHANGED <<accounts, settings, ssa, session, tokens, chosen, calls, edits, remote, rows>>

\* ListElecAuth answers whole or fails, ListExpressTemplates may answer for some
\* platforms only, and says so.
ListAssets(w) ==
  /\ call[w].pc \in {"auths", "templates"} /\ session # None
  /\ LET offered == remote[session] \cap Kind(w) IN
     \E items \in SUBSET offered, complete \in BOOLEAN :
       /\ complete => items = offered
       /\ ~complete => At(w, "templates") /\ "ssaError" \in Faults
       /\ list' = [list EXCEPT ![w].items = items, ![w].from = session,
                               ![w].complete = complete, ![w].clean = @ /\ complete]
  /\ GoTo(w, IF At(w, "auths") THEN "storeAuths" ELSE "storeTemplates")
  /\ UNCHANGED <<accounts, settings, ssa, session, tokens, chosen, calls, edits,
                 remote, rows, synced>>

\* An answer about the authorisations that cannot be read is passed over.
PassOverAuths(w) ==
  /\ At(w, "auths") /\ "ssaError" \in Faults
  /\ list' = [list EXCEPT ![w].clean = FALSE]
  /\ GoTo(w, "templates")
  /\ UNCHANGED <<accounts, settings, ssa, session, tokens, chosen, calls, edits,
                 remote, rows, synced>>

\* Seeded bug: a row of another account is taken for this one's.
FindAnyAsset(label, asset) == {r \in rows : r.asset = asset}

\* The row an asset is stored in: the one of its account.  The second query, for
\* a row without an account, is built on the statement of the first one, which
\* still asks for the account and carries its "not found": it finds nothing.
FindAsset(label, asset) == {r \in rows : r.asset = asset /\ r.acct = label}

\* upsertWaybillAuth, upsertExpressTemplate for every item; one that fails is
\* only not counted.
StoreAssets(w) ==
  /\ call[w].pc \in {"storeAuths", "storeTemplates"}
  /\ LET l == list[w] IN
     \E stored \in SUBSET l.items :
       /\ stored # l.items => "dbError" \in Faults
       /\ rows' = (rows \ UNION {FindAsset(l.label, a) : a \in stored})
                  \cup {RowOf(l.label, a, l.from) : a \in stored}
       /\ list' = [list EXCEPT ![w].clean = @ /\ stored = l.items]
  /\ GoTo(w, IF At(w, "storeAuths") THEN "pruneAuths" ELSE "pruneTemplates")
  /\ UNCHANGED <<accounts, settings, ssa, session, tokens, chosen, calls, edits,
                 remote, synced>>

Stale(w) ==
  {r \in rows : r.acct = list[w].label /\ r.asset \in Kind(w) \ list[w].items}

\* Seeded bug: rows are deleted after a list that was not whole.
PruneAlways(w) ==
  /\ call[w].pc \in {"pruneAuths", "pruneTemplates"}
  /\ rows' = rows \ Stale(w)
  /\ IF At(w, "pruneAuths") THEN GoTo(w, "templates") ELSE Return(w)
  /\ UNCHANGED <<accounts, settings, ssa, session, tokens, chosen, calls, edits,
                 remote, list, synced>>

\* reconcileWaybillAuths, and reconcileExpressTemplates if the list was whole.
PruneAssets(w) ==
  /\ call[w].pc \in {"pruneAuths", "pruneTemplates"}
  /\ \E gone \in SUBSET Stale(w) :
       /\ (gone # Stale(w) /\ list[w].complete) => "dbError" \in Faults
       /\ ~list[w].complete => gone = {}
       /\ rows' = rows \ gone
       /\ LET clean == list[w].clean /\ gone = Stale(w) IN
          IF At(w, "pruneAuths")
            THEN /\ GoTo(w, "templates")
                 /\ list' = [list EXCEPT ![w].clean = clean]
                 /\ UNCHANGED synced
          ELSE /\ Return(w)
               /\ list' = [list EXCEPT ![w] = NoList]
               /\ synced' = IF clean THEN synced \cup {list[w].label} ELSE synced
  /\ UNCHANGED <<accounts, settings, ssa, session, tokens, chosen, calls, edits, remote>>

\* The user changes what an account has, in kdzs.
RemoteChanges(c, offer) ==
  /\ BetweenRequests /\ offer # remote[c]
  /\ remote' = [remote EXCEPT ![c] = offer]
  /\ synced' = synced \ {c}
  /\ edits' = edits + 1
  /\ UNCHANGED <<accounts, settings, ssa, session, call, tokens, chosen, calls, rows, list>>

Next ==
  \/ AccountStep /\ UNCHANGED assetVars
  \/ \E w \in Workers :
       \/ Start(w, "assets", None, Blank) /\ UNCHANGED assetVars
       \/ activeKdzsAccountLabel(w)
       \/ ListAssets(w) \/ PassOverAuths(w) \/ StoreAssets(w) \/ PruneAssets(w)
  \/ \E c \in Codes, offer \in Offers : RemoteChanges(c, offer)

Spec == Init /\ [][Next]_vars

-----------------------------------------------------------------------------
(* Properties.                                                             *)

TypeOK ==
  /\ AccountsTypeOK
  /\ remote \in [Codes -> Offers]
  /\ rows \subseteq Rows
  /\ synced \subseteq Codes
  /\ \A w \in Workers : list[w].items \subseteq Auths \cup Templates

\* What is stored under an account was listed under that account's session.
AssetsOfRightAccount == \A r \in rows : r.acct # None => r.from = r.acct

\* After a synchronisation in which nothing failed, the rows of the account are
\* exactly what the account has in kdzs, until that changes or the next one.
MirrorsKdzs ==
  \A c \in synced : {r.asset : r \in {q \in rows : q.acct = c}} = remote[c]

\* An asset the account still has is never deleted here, whatever SSA leaves out
\* of its answers and whatever fails.
OfferedKept ==
  [][\A r \in rows : r.acct # None /\ r.asset \in remote[r.acct] =>
       \E q \in rows' : q.acct = r.acct /\ q.asset = r.asset]_vars

\* kdzs_service.go:387 fills the account into a row that has none: no asset is
\* then in the table both with and without an account.
LegacyAdopted ==
  \A q, r \in rows : (q.asset = r.asset /\ q.acct = None) => r.acct = None
=============================================================================
