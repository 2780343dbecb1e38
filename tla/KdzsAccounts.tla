----------------------------- MODULE KdzsAccounts -----------------------------
(***************************************************************************)
(* The kdzs accounts of one tenant: internal/service/kdzs_accounts.go, and *)
(* the print machines' enrol token, which shares their settings row        *)
(* (internal/service/kdzs_print_agent_service.go:207-273).                 *)
(*                                                                         *)
(* The accounts exist twice: in the tables kdzs_accounts and kdzs_settings *)
(* and in StoreSyncAgent (SSA), which logs in to kdzs and has one session  *)
(* at a time.  Every listing first imports SSA's accounts, every print     *)
(* call first makes SSA's session that of the active account, and local    *)
(* changes are pushed to SSA without looking at its answer.                *)
(*                                                                         *)
(* A settings row that is not there yet reads as an empty one, because     *)
(* getOrCreateSettings inserts it (a second insert fails, as calls do).    *)
(* The First and the Save of one row, with nothing between, are one step;  *)
(* each call to SSA, and what is done with its answer, are steps of their  *)
(* own.  Names, roles, mobiles, order and the enabled flag are left out.   *)
(***************************************************************************)
EXTENDS Integers, FiniteSetsExt

CONSTANTS
  Codes,     \* account codes
  Passwords, \* passwords of accounts
  Workers,   \* requests running at the same time
  Faults,    \* the faults a run admits
  MaxCalls,  \* bound on the requests ever made
  MaxEdits,  \* bound on the changes made in SSA by others
  None,      \* no account
  Blank,     \* an empty password
  Absent     \* SSA has no such account

ASSUME KdzsAccountsAssumption ==
  /\ Faults \subseteq {"dbError", "ssaError"}
  /\ MaxCalls \in Nat /\ MaxEdits \in Nat
  /\ None \notin Codes /\ Blank \notin Passwords /\ Absent \notin Passwords \cup {Blank}

VARIABLES
  accounts, \* table kdzs_accounts
  settings, \* the tenant's row of kdzs_settings
  ssa,      \* SSA: the password it has for each account
  session,  \* SSA: the account it is logged in with
  call,     \* what each request is doing
  tokens,   \* enrol tokens generated so far
  chosen,   \* the password the user last gave an account, if it must hold
  calls,    \* requests made
  edits     \* changes made in SSA by others

accountVars == <<accounts, settings, ssa, session, call, tokens, chosen, calls, edits>>

Account == [source: {"none", "ssa", "local"}, password: Passwords \cup {Blank}]
NoAccount == [source |-> "none", password |-> Blank]
Settings == [default: Codes \cup {None}, active: Codes \cup {None}, token: Nat]

Ops == {"list", "sync", "create", "update", "delete", "setDefault", "switch", "print",
        "assets"}
FirstStep(op) ==
  CASE op \in {"create", "update", "delete", "setDefault", "switch"} -> op
    [] OTHER -> "export"

Idle == [op |-> "idle", pc |-> "idle", code |-> None, password |-> Blank,
         st |-> [default |-> None, active |-> None, token |-> 0],
         payload |-> [c \in Codes |-> Absent], todo |-> {}]

Quiet == \A w \in Workers : call[w] = Idle
At(w, pc) == call[w].pc = pc
GoTo(w, pc) == call' = [call EXCEPT ![w].pc = pc]
Return(w) == call' = [call EXCEPT ![w] = Idle]
Exists(c) == c # None /\ accounts[c].source # "none"
Present == {c \in Codes : Exists(c)}

InitAccounts ==
  /\ accounts = [c \in Codes |-> NoAccount]
  /\ settings = Idle.st
  /\ ssa \in [Codes -> Passwords \cup {Absent}]
  /\ session = None
  /\ call = [w \in Workers |-> Idle]
  /\ tokens = 0
  /\ chosen = [c \in Codes |-> Blank]
  /\ calls = 0
  /\ edits = 0

Start(w, op, c, pw) ==
  /\ call[w] = Idle /\ calls < MaxCalls
  /\ call' = [call EXCEPT ![w] = [Idle EXCEPT !.op = op, !.pc = FirstStep(op),
                                              !.code = c, !.password = pw]]
  /\ calls' = calls + 1
  /\ UNCHANGED <<accounts, settings, ssa, session, tokens, chosen, edits>>

\* An error that is returned, or the process stopping.
Fails(w) ==
  /\ Faults # {} /\ call[w] # Idle
  /\ Return(w)
  /\ UNCHANGED <<accounts, settings, ssa, session, tokens, chosen, calls, edits>>

-----------------------------------------------------------------------------
(* ensureSSASession, as a step of a request: SSA switches to account c, or *)
(* is first given the account as it is here.                               *)

Usable(c) == Exists(c) /\ accounts[c].password # Blank

ensureSSASession(c, ok) ==
  \/ /\ ~Usable(c) /\ ~ok
     /\ UNCHANGED <<ssa, session>>
  \/ /\ Usable(c)
     /\ ~ok => "ssaError" \in Faults
     /\ \E pushed \in BOOLEAN :
          /\ (ok /\ ssa[c] = Absent) => pushed
          /\ pushed => (ssa[c] = Absent \/ "ssaError" \in Faults)
          /\ ssa' = IF pushed THEN [ssa EXCEPT ![c] = accounts[c].password] ELSE ssa
     /\ session' \in IF ok THEN {c} ELSE {session, c}

-----------------------------------------------------------------------------
(* SyncAccountsFromSSA: asked for by the user, or by EnsureAccountsReady   *)
(* before every listing and print call (AutoSyncFromSSA is never off).     *)

ExportKdzsAccounts(w) ==
  /\ At(w, "export")
  /\ call' = [call EXCEPT ![w].pc = "import", ![w].payload = ssa, ![w].st = settings,
                          ![w].todo = {c \in Codes : ssa[c] # Absent}]
  /\ UNCHANGED <<accounts, settings, ssa, session, tokens, chosen, calls, edits>>

\* Seeded bug: SSA's password replaces a local one.
ImportTakesPassword(w, c) ==
  /\ At(w, "import") /\ c \in call[w].todo
  /\ accounts' = [accounts EXCEPT ![c] =
       IF Exists(c) THEN [@ EXCEPT !.password = call[w].payload[c]]
       ELSE [source |-> "ssa", password |-> call[w].payload[c]]]
  /\ call' = [call EXCEPT ![w].todo = @ \ {c}]
  /\ UNCHANGED <<settings, ssa, session, tokens, chosen, calls, edits>>

\* One account of the export; a local account keeps its password.
ImportAccount(w, c) ==
  /\ At(w, "import") /\ c \in call[w].todo
  /\ LET given == call[w].payload[c]
         keeps == given = Blank \/ (accounts[c].source = "local" /\ accounts[c].password # Blank)
     IN accounts' = [accounts EXCEPT ![c] =
          IF ~Exists(c) THEN [source |-> "ssa", password |-> given]
          ELSE IF keeps THEN @ ELSE [@ EXCEPT !.password = given]]
  /\ call' = [call EXCEPT ![w].todo = @ \ {c}]
  /\ UNCHANGED <<settings, ssa, session, tokens, chosen, calls, edits>>

\* The whole row is written, from the copy read before the import.  "sync"
\* takes SSA's choice over, the others only what is not set here.
Chosen(w, current, exported, otherwise) ==
  IF call[w].op # "sync" /\ current # None THEN current
  ELSE IF exported # None THEN exported
  ELSE IF otherwise # None THEN otherwise ELSE current

\* Seeded bug: the row is built anew from what the import knows.
SaveRebuildsSettings(w) ==
  /\ At(w, "import") /\ call[w].todo = {}
  /\ \E exported \in {c \in Codes : call[w].payload[c] # Absent} \cup {None} :
       LET st == [default |-> Chosen(w, call[w].st.default, exported, None),
                  active |-> Chosen(w, call[w].st.active, exported, None), token |-> 0]
       IN settings' = st /\ call' = [call EXCEPT ![w].pc = "session", ![w].st = st]
  /\ UNCHANGED <<accounts, ssa, session, tokens, chosen, calls, edits>>

SaveSettings(w) ==
  /\ At(w, "import") /\ call[w].todo = {}
  /\ LET items == {c \in Codes : call[w].payload[c] # Absent} IN
     \E exportedDefault \in items \cup {None}, exportedActive \in items \cup {None},
        first \in IF items = {} THEN {None} ELSE items :
       LET default == Chosen(w, call[w].st.default, exportedDefault, first)
           active == Chosen(w, call[w].st.active, exportedActive, default)
           st == [call[w].st EXCEPT !.default = default, !.active = active]
       IN settings' = st /\ call' = [call EXCEPT ![w].pc = "session", ![w].st = st]
  /\ UNCHANGED <<accounts, ssa, session, tokens, chosen, calls, edits>>

\* The session follows; what SSA answers is not looked at.
SwitchAfterSync(w) ==
  /\ At(w, "session")
  /\ \/ call[w].st.active = None /\ UNCHANGED <<ssa, session>>
     \/ call[w].st.active # None /\ \E ok \in BOOLEAN : ensureSSASession(call[w].st.active, ok)
  /\ IF call[w].op \in {"print", "assets"} THEN GoTo(w, "resolve") ELSE Return(w)
  /\ UNCHANGED <<accounts, settings, tokens, chosen, calls, edits>>

-----------------------------------------------------------------------------
(* EnsureActiveSSASession, and the calls that print under the session.     *)

Effective(st) == IF st.active # None THEN st.active ELSE st.default

\* Without any choice the first account becomes the active one; the error of
\* that Save is not looked at.
ResolveAccount(w) ==
  /\ At(w, "resolve")
  /\ \/ /\ Effective(settings) # None
        /\ call' = [call EXCEPT ![w].pc = "ensure", ![w].code = Effective(settings)]
        /\ UNCHANGED settings
     \/ /\ Effective(settings) = None
        /\ \E c \in Present :
             /\ call' = [call EXCEPT ![w].pc = "ensure", ![w].code = c]
             /\ \/ settings' = [settings EXCEPT !.active = c, !.default = c]
                \/ "dbError" \in Faults /\ UNCHANGED settings
     \/ Effective(settings) = None /\ Present = {} /\ Return(w) /\ UNCHANGED settings
  /\ UNCHANGED <<accounts, ssa, session, tokens, chosen, calls, edits>>

\* Seeded bug: printing goes on when the session could not be had.
EnsureIgnoresFailure(w) ==
  /\ At(w, "ensure")
  /\ \E ok \in BOOLEAN : ensureSSASession(call[w].code, ok)
  /\ GoTo(w, "ready")
  /\ UNCHANGED <<accounts, settings, tokens, chosen, calls, edits>>

EnsureActiveSSASession(w) ==
  /\ At(w, "ensure")
  /\ \/ ensureSSASession(call[w].code, TRUE) /\ GoTo(w, "ready")
     \/ ensureSSASession(call[w].code, FALSE) /\ Return(w)
  /\ UNCHANGED <<accounts, settings, tokens, chosen, calls, edits>>

\* GetBatchPrintURL, QueryPrintWaybills: SSA answers for its session.
PrintUnderSession(w) ==
  /\ At(w, "ready") /\ call[w].op = "print"
  /\ Return(w)
  /\ UNCHANGED <<accounts, settings, ssa, session, tokens, chosen, calls, edits>>

-----------------------------------------------------------------------------
(* The user's changes.                                                     *)

\* CreateLocalAccount: refused when the code is taken.
InsertAccount(w) ==
  LET c == call[w].code IN
  /\ At(w, "create")
  /\ \/ /\ ~Exists(c)
        /\ accounts' = [accounts EXCEPT ![c] = [source |-> "local", password |-> call[w].password]]
        /\ chosen' = [chosen EXCEPT ![c] = call[w].password]
        /\ GoTo(w, "adopt")
     \/ Exists(c) /\ Return(w) /\ UNCHANGED <<accounts, chosen>>
  /\ UNCHANGED <<settings, ssa, session, tokens, calls, edits>>

\* The first account, or one while there is no default, becomes default and
\* active; the error of that Save is not looked at.
AdoptFirst(w) ==
  /\ At(w, "adopt")
  /\ \/ /\ Present = {call[w].code} \/ settings.default = None
        /\ settings' = [settings EXCEPT !.default = call[w].code, !.active = call[w].code]
     \/ /\ \/ Present # {call[w].code} /\ settings.default # None
           \/ "dbError" \in Faults
        /\ UNCHANGED settings
  /\ GoTo(w, "push")
  /\ UNCHANGED <<accounts, ssa, session, tokens, chosen, calls, edits>>

\* UpdateLocalAccount, with a new password.  SSA's account is not changed yet:
\* until it is, an import may bring its password back.
WriteAccount(w) ==
  LET c == call[w].code IN
  /\ At(w, "update")
  /\ \/ /\ Exists(c)
        /\ accounts' = [accounts EXCEPT ![c].password = call[w].password]
        /\ chosen' = [chosen EXCEPT ![c] =
             IF accounts[c].source = "local" THEN call[w].password ELSE Blank]
        /\ GoTo(w, "push")
     \/ ~Exists(c) /\ Return(w) /\ UNCHANGED <<accounts, chosen>>
  /\ UNCHANGED <<settings, ssa, session, tokens, calls, edits>>

\* CreateKdzsAccount, UpdateKdzsAccount: SSA adds an account it has not, or
\* updates one it has.  The listing that follows answers the request.
PushAccount(w) ==
  LET c == call[w].code
      takes == (ssa[c] = Absent) <=> (call[w].op = "create") IN
  /\ At(w, "push")
  /\ \/ /\ takes
        /\ ssa' = [ssa EXCEPT ![c] = call[w].password]
        /\ chosen' = [chosen EXCEPT ![c] = call[w].password]
     \/ /\ ~takes \/ "ssaError" \in Faults
        /\ UNCHANGED <<ssa, chosen>>
  /\ GoTo(w, "export")
  /\ UNCHANGED <<accounts, settings, session, tokens, calls, edits>>

\* Seeded bug: only the default account is protected.
DeleteChecksDefault(w) ==
  /\ At(w, "delete")
  /\ IF call[w].code = settings.default THEN Return(w) ELSE GoTo(w, "drop")
  /\ UNCHANGED <<accounts, settings, ssa, session, tokens, chosen, calls, edits>>

\* DeleteLocalAccount: not the default and not the active account.
CheckDelete(w) ==
  /\ At(w, "delete")
  /\ IF call[w].code \in {settings.default, settings.active} THEN Return(w) ELSE GoTo(w, "drop")
  /\ UNCHANGED <<accounts, settings, ssa, session, tokens, chosen, calls, edits>>

\* SSA keeps the account.
DropAccount(w) ==
  /\ At(w, "drop")
  /\ accounts' = [accounts EXCEPT ![call[w].code] = NoAccount]
  /\ chosen' = [chosen EXCEPT ![call[w].code] = Blank]
  /\ Return(w)
  /\ UNCHANGED <<settings, ssa, session, tokens, calls, edits>>

\* SetLocalDefault.
CheckDefault(w) ==
  /\ At(w, "setDefault")
  /\ IF Exists(call[w].code) THEN GoTo(w, "saveDefault") ELSE Return(w)
  /\ UNCHANGED <<accounts, settings, ssa, session, tokens, chosen, calls, edits>>

\* SwitchLocalAccount.
SwitchSession(w) ==
  /\ At(w, "switch")
  /\ \/ ensureSSASession(call[w].code, TRUE) /\ GoTo(w, "saveActive")
     \/ ensureSSASession(call[w].code, FALSE) /\ Return(w)
  /\ UNCHANGED <<accounts, settings, tokens, chosen, calls, edits>>

SaveChoice(w) ==
  /\ \/ At(w, "saveDefault") /\ settings' = [settings EXCEPT !.default = call[w].code]
     \/ At(w, "saveActive") /\ settings' = [settings EXCEPT !.active = call[w].code]
  /\ Return(w)
  /\ UNCHANGED <<accounts, ssa, session, tokens, chosen, calls, edits>>

\* EnsurePrintEnrollToken (only when there is none) and RotatePrintEnrollToken:
\* one column of the settings row.
IssueEnrollToken(w, rotate) ==
  /\ call[w] = Idle /\ calls < MaxCalls
  /\ rotate \/ settings.token = 0
  /\ tokens' = tokens + 1
  /\ settings' = [settings EXCEPT !.token = tokens']
  /\ calls' = calls + 1
  /\ UNCHANGED <<accounts, ssa, session, call, chosen, edits>>

-----------------------------------------------------------------------------
(* SSA is used by others too, between the requests of this tenant.  What   *)
(* they do before the first request makes another initial state only, and  *)
(* after the last one nothing here looks at it.                            *)

BetweenRequests == Quiet /\ calls \in 1 .. MaxCalls - 1 /\ edits < MaxEdits

SSAEdits(c, pw) ==
  /\ BetweenRequests /\ ssa[c] # pw
  /\ ssa' = [ssa EXCEPT ![c] = pw]
  /\ session' = IF pw = Absent /\ session = c THEN None ELSE session
  /\ chosen' = [chosen EXCEPT ![c] = IF accounts[c].source = "local" THEN @ ELSE Blank]
  /\ edits' = edits + 1
  /\ UNCHANGED <<accounts, settings, call, tokens, calls>>

SSASwitches(c) ==
  /\ BetweenRequests /\ session # c /\ ssa[c] # Absent
  /\ session' = c
  /\ edits' = edits + 1
  /\ UNCHANGED <<accounts, settings, ssa, call, tokens, chosen, calls>>

AccountStep ==
  \/ \E w \in Workers :
       \/ \E op \in {"list", "sync", "print"} : Start(w, op, None, Blank)
       \/ \E op \in {"delete", "setDefault", "switch"}, c \in Codes : Start(w, op, c, Blank)
       \/ \E op \in {"create", "update"}, c \in Codes, pw \in Passwords : Start(w, op, c, pw)
       \/ Fails(w)
       \/ ExportKdzsAccounts(w) \/ (\E c \in Codes : ImportAccount(w, c))
       \/ SaveSettings(w) \/ SwitchAfterSync(w)
       \/ ResolveAccount(w) \/ EnsureActiveSSASession(w) \/ PrintUnderSession(w)
       \/ InsertAccount(w) \/ AdoptFirst(w) \/ WriteAccount(w) \/ PushAccount(w)
       \/ CheckDelete(w) \/ DropAccount(w)
       \/ CheckDefault(w) \/ SwitchSession(w) \/ SaveChoice(w)
       \/ \E rotate \in BOOLEAN : IssueEnrollToken(w, rotate)
  \/ \E c \in Codes :
       \/ \E pw \in Passwords \cup {Blank, Absent} : SSAEdits(c, pw)
       \/ SSASwitches(c)

-----------------------------------------------------------------------------
(* Properties.                                                             *)

AccountsTypeOK ==
  /\ accounts \in [Codes -> Account]
  /\ \A c \in Codes : accounts[c].source = "none" => accounts[c] = NoAccount
  /\ settings \in Settings /\ settings.token <= tokens
  /\ ssa \in [Codes -> Passwords \cup {Blank, Absent}]
  /\ session \in Codes \cup {None}
  /\ chosen \in [Codes -> Passwords \cup {Blank}]
  /\ \A w \in Workers : call[w].op \in Ops \cup {"idle"} /\ call[w].st \in Settings

\* The default and the active account are in the table, whatever fails and
\* whatever SSA exports: printing always has an account to print with.
ChoiceExists ==
  /\ settings.default # None => Exists(settings.default)
  /\ settings.active # None => Exists(settings.active)

\* Between requests, an account has the password its user gave it last: a local
\* one always, one of SSA's if SSA was told and nobody changed it there.
ChosenPasswordHolds ==
  Quiet => \A c \in Codes : chosen[c] # Blank => accounts[c].password = chosen[c]

\* A print call is made under the account that is active here, whoever used SSA
\* before.
PrintsUnderActive ==
  \A w \in Workers : At(w, "ready") =>
    /\ session = call[w].code
    /\ Effective(settings) # None => session = Effective(settings)

\* The enrol token only changes into one that was just generated: no write of
\* the settings row brings an earlier one back or drops it.
TokenOnlyRotated ==
  [][settings'.token # settings.token => tokens' = tokens + 1 /\ settings'.token = tokens']_accountVars
=============================================================================
