-------------------------- MODULE PrintAssets_proofs --------------------------
(***************************************************************************)
(* Theorems about the kdzs accounts and printing assets of PrintAssets,    *)
(* for any accounts, passwords and assets, any number of requests and of   *)
(* changes made in StoreSyncAgent, every fault, and rows from before rows  *)
(* had an account.  Requests are made one after the other: the runs that   *)
(* expect a violation show what overlapping ones break.                    *)
(***************************************************************************)
EXTENDS PrintAssets, TLAPS

\* One request at a time.
OneWorker == \A v, w \in Workers : v = w

PCs == {"idle", "export", "import", "session", "resolve", "ensure", "ready", "create", "adopt",
        "push", "update", "delete", "drop", "setDefault", "saveDefault", "switch", "saveActive",
        "auths", "storeAuths", "pruneAuths", "templates", "storeTemplates", "pruneTemplates"}

Call == [op: Ops \cup {"idle"}, pc: PCs, code: Codes \cup {None}, password: Passwords \cup {Blank},
         st: Settings, payload: [Codes -> Passwords \cup {Blank, Absent}], todo: SUBSET Codes]

List == [label: Codes \cup {None}, items: SUBSET (Auths \cup Templates),
         from: Codes \cup {None}, complete: BOOLEAN, clean: BOOLEAN]

AccountsTyped ==
  /\ accounts \in [Codes -> Account]
  /\ settings \in Settings
  /\ ssa \in [Codes -> Passwords \cup {Blank, Absent}]
  /\ session \in Codes \cup {None}
  /\ call \in [Workers -> Call]
  /\ tokens \in Nat
  /\ chosen \in [Codes -> Passwords \cup {Blank}]

AssetsTyped ==
  /\ remote \in [Codes -> SUBSET (Auths \cup Templates)]
  /\ rows \subseteq Rows
  /\ list \in [Workers -> List]
  /\ synced \subseteq Codes

\* The password a user gave holds here, and in SSA for an account SSA brought:
\* the next import brings the same one again.
PasswordsKept ==
  \A c \in Codes : chosen[c] # Blank =>
    /\ Exists(c) /\ accounts[c].password = chosen[c]
    /\ accounts[c].source = "ssa" => ssa[c] = chosen[c]

\* What a request knows at the step it is about to take.
Holds(k) ==
  /\ k.pc = "import" =>
       /\ k.st = settings /\ k.payload = ssa /\ \A c \in k.todo : ssa[c] # Absent
       /\ \A c \in Codes : ssa[c] # Absent => c \in k.todo \/ Exists(c)
  /\ k.pc \in {"create", "update"} => k.code \in Codes /\ k.password \in Passwords
  /\ k.pc \in {"delete", "drop"} => k.code \in Codes
  /\ k.pc = "drop" => k.code \notin {settings.default, settings.active}
  /\ k.pc \in {"adopt", "push", "saveDefault", "saveActive"} => Exists(k.code)
  /\ k.pc \in {"adopt", "push"} => accounts[k.code].password = k.password
  /\ k.pc \in {"ensure", "ready"} =>
       k.code # None /\ (Effective(settings) # None => k.code = Effective(settings))
  /\ k.pc = "ready" => session = k.code

AccountsInv == ChoiceExists /\ PasswordsKept /\ \A w \in Workers : Holds(call[w])

AssetsOf(R, c) == {r.asset : r \in {q \in R : q.acct = c}}

\* What a synchronisation has seen and done of the account it is made for.
Storing == {"storeAuths", "pruneAuths", "storeTemplates", "pruneTemplates"}
Pruning == {"pruneAuths", "pruneTemplates"}
AfterAuths == {"templates", "storeTemplates", "pruneTemplates"}
AssetPCs == {"auths"} \cup Storing \cup AfterAuths

ListHolds(w) ==
  LET pc == call[w].pc l == list[w] IN
  pc \in AssetPCs =>
    /\ l.label # None => session = l.label /\ l.label \notin synced
    /\ l.clean => l.label # None
    /\ (pc \in Storing /\ l.label # None) =>
         /\ l.from = l.label
         /\ l.complete => l.items = remote[l.label] \cap Kind(w)
    /\ (pc \in Storing /\ l.clean) => l.complete
    /\ (pc \in Pruning /\ l.clean) => l.items \subseteq AssetsOf(rows, l.label)
    /\ (pc \in AfterAuths /\ l.clean) =>
         AssetsOf(rows, l.label) \cap Auths = remote[l.label] \cap Auths

AssetsInv == AssetsOfRightAccount /\ MirrorsKdzs /\ \A w \in Workers : ListHolds(w)

Inv == AccountsTyped /\ AssetsTyped /\ AccountsInv /\ AssetsInv

-----------------------------------------------------------------------------
(* What a step does to the request that takes it.                          *)

LEMMA IdleCall == Idle \in Call /\ Idle.pc = "idle"
<1> DEFINE st == [default |-> None, active |-> None, token |-> 0]
           none == [c \in Codes |-> Absent]
<1>1. st \in Settings
  BY DEF Settings
<1>2. none \in [Codes -> Passwords \cup {Blank, Absent}]
  OBVIOUS
<1>3. Idle = [op |-> "idle", pc |-> "idle", code |-> None, password |-> Blank,
              st |-> st, payload |-> none, todo |-> {}]
  BY DEF Idle
<1> HIDE DEF st, none
<1>4. QED
  BY <1>1, <1>2, <1>3 DEF Call, Ops, PCs

LEMMA Goes ==
  ASSUME AccountsTyped, NEW w \in Workers, NEW pc \in PCs, GoTo(w, pc)
  PROVE  /\ call' \in [Workers -> Call]
         /\ call'[w].pc = pc /\ call'[w].op = call[w].op /\ call'[w].code = call[w].code
         /\ call'[w].password = call[w].password /\ call'[w].st = call[w].st
         /\ call'[w].payload = call[w].payload /\ call'[w].todo = call[w].todo
<1>1. call \in [Workers -> Call] /\ call[w] \in Call
  BY DEF AccountsTyped
<1> DEFINE x == [call[w] EXCEPT !.pc = pc]
<1>2. /\ x \in Call /\ x.pc = pc /\ x.op = call[w].op /\ x.code = call[w].code
      /\ x.password = call[w].password /\ x.st = call[w].st
      /\ x.payload = call[w].payload /\ x.todo = call[w].todo
  BY <1>1 DEF Call
<1>3. call' = [call EXCEPT ![w] = x]
  BY <1>1 DEF GoTo
<1> HIDE DEF x
<1>4. call'[w] = x /\ call' \in [Workers -> Call]
  BY <1>1, <1>2, <1>3
<1>5. QED
  BY <1>2, <1>4

LEMMA Returns ==
  ASSUME AccountsTyped, NEW w \in Workers, Return(w)
  PROVE  call' \in [Workers -> Call] /\ call'[w].pc = "idle"
BY IdleCall DEF AccountsTyped, Return

\* What every step of the accounts has to keep.
AccountsKept ==
  AccountsTyped' /\ AccountsInv' /\ \A v \in Workers : call'[v].pc \notin AssetPCs

LEMMA Moved ==
  ASSUME OneWorker, NEW w \in Workers, AccountsTyped', ChoiceExists', PasswordsKept',
         Holds(call[w])', call'[w].pc \notin AssetPCs
  PROVE  AccountsKept
<1>1. \A v \in Workers : v = w
  BY DEF OneWorker
<1>2. \A v \in Workers : Holds(call[v])'
  BY <1>1
<1>3. QED
  BY <1>1, <1>2 DEF AccountsKept, AccountsInv

\* A step that changes nothing but the request.
LEMMA OnlyCall ==
  ASSUME OneWorker, AccountsTyped, AccountsInv, NEW w \in Workers, call' \in [Workers -> Call],
         UNCHANGED <<accounts, settings, ssa, session, tokens, chosen>>,
         Holds(call[w])', call'[w].pc \notin AssetPCs
  PROVE  AccountsKept
<1>1. AccountsTyped'
  BY DEF AccountsTyped
<1>2. ChoiceExists' /\ PasswordsKept'
  BY DEF AccountsInv, ChoiceExists, PasswordsKept, Exists
<1>3. QED
  BY <1>1, <1>2, Moved

\* Steps at which a request knows nothing in particular.
Free == {"idle", "export", "session", "resolve", "setDefault", "switch"}

LEMMA KnowsNothing ==
  ASSUME NEW w \in Workers, call'[w].pc \in Free
  PROVE  Holds(call[w])' /\ call'[w].pc \notin AssetPCs
BY DEF Holds, Free, AssetPCs, Storing, AfterAuths

-----------------------------------------------------------------------------
(* SSA's session.                                                          *)

\* An account that is given to SSA is given as it is here.
SSAKept ==
  /\ ssa' \in [Codes -> Passwords \cup {Blank, Absent}]
  /\ session' \in Codes \cup {None}
  /\ \A d \in Codes : ssa'[d] = ssa[d] \/ ssa'[d] = accounts[d].password

LEMMA SessionStep ==
  ASSUME AccountsTyped, NEW c \in Codes \cup {None}, NEW ok \in BOOLEAN, ensureSSASession(c, ok)
  PROVE  SSAKept /\ (ok => Exists(c) /\ session' = c)
<1>1. CASE ~Usable(c) /\ ~ok
  BY <1>1 DEF ensureSSASession, AccountsTyped, SSAKept
<1>2. CASE Usable(c)
  <2>1. c \in Codes /\ Exists(c) /\ accounts[c].password \in Passwords \cup {Blank}
    BY <1>2 DEF Usable, Exists, AccountsTyped, Account
  <2>2. ssa' = ssa \/ ssa' = [ssa EXCEPT ![c] = accounts[c].password]
    BY <1>2 DEF ensureSSASession
  <2>3. session' \in {session, c} /\ (ok => session' = c)
    BY <1>2 DEF ensureSSASession
  <2>4. QED
    BY <2>1, <2>2, <2>3 DEF AccountsTyped, SSAKept
<1>3. QED
  BY <1>1, <1>2 DEF ensureSSASession

LEMMA SessionKeeps ==
  ASSUME AccountsTyped, AccountsInv, SSAKept, UNCHANGED <<accounts, settings, chosen>>
  PROVE  ChoiceExists' /\ PasswordsKept'
BY DEF SSAKept, AccountsInv, ChoiceExists, PasswordsKept, Exists

-----------------------------------------------------------------------------
(* The steps.                                                              *)

LEMMA Starts ==
  ASSUME OneWorker, AccountsTyped, AccountsInv, NEW w \in Workers, NEW op \in Ops,
         NEW c \in Codes \cup {None}, NEW pw \in Passwords \cup {Blank},
         op \in {"create", "update"} => c \in Codes /\ pw \in Passwords,
         op = "delete" => c \in Codes, Start(w, op, c, pw)
  PROVE  AccountsKept
<1> DEFINE pc == FirstStep(op)
           x == [Idle EXCEPT !.op = op, !.pc = pc, !.code = c, !.password = pw]
<1>1. /\ pc \in {"create", "update", "delete", "setDefault", "switch", "export"}
      /\ pc # "export" => pc = op
  BY DEF FirstStep, Ops
<1>2. call' = [call EXCEPT ![w] = x] /\ UNCHANGED <<accounts, settings, ssa, session, tokens, chosen>>
  BY DEF Start
<1> HIDE DEF pc
<1>3. x \in Call /\ x.pc = pc /\ x.code = c /\ x.password = pw
  <2>1. pc \in PCs
    BY <1>1 DEF PCs
  <2>2. QED
    BY <1>1, <2>1, IdleCall DEF Call
<1> HIDE DEF x
<1>4. call'[w] = x /\ call' \in [Workers -> Call]
  BY <1>2, <1>3 DEF AccountsTyped
<1>5. /\ call'[w].pc \notin AssetPCs
      /\ call'[w].pc \notin {"import", "drop", "adopt", "push", "saveDefault", "saveActive",
                             "ensure", "ready"}
      /\ call'[w].pc \in {"create", "update", "delete"} => call'[w].pc = op
  BY <1>1, <1>3, <1>4 DEF AssetPCs, Storing, AfterAuths
<1>6. Holds(call[w])'
  BY <1>3, <1>4, <1>5 DEF Holds
<1>7. QED
  BY <1>2, <1>4, <1>5, <1>6, OnlyCall

\* A step after which a request knows nothing, whatever it did to SSA's session.
LEMMA SessionMoved ==
  ASSUME OneWorker, AccountsTyped, AccountsInv, NEW w \in Workers, call' \in [Workers -> Call],
         SSAKept, UNCHANGED <<accounts, settings, tokens, chosen>>,
         Holds(call[w])', call'[w].pc \notin AssetPCs
  PROVE  AccountsKept
<1>1. AccountsTyped'
  BY DEF AccountsTyped, SSAKept
<1>2. ChoiceExists' /\ PasswordsKept'
  BY SessionKeeps
<1>3. QED
  BY <1>1, <1>2, Moved

LEMMA FailsKeep ==
  ASSUME OneWorker, AccountsTyped, AccountsInv, NEW w \in Workers, Fails(w)
  PROVE  AccountsKept
<1>1. call' \in [Workers -> Call] /\ call'[w].pc = "idle"
  BY Returns DEF Fails
<1>2. Holds(call[w])' /\ call'[w].pc \notin AssetPCs
  BY <1>1, KnowsNothing DEF Free
<1>3. QED
  BY <1>1, <1>2, OnlyCall DEF Fails

\* The export is what SSA has, and the copy of the row what is stored.
LEMMA ExportKeeps ==
  ASSUME OneWorker, AccountsTyped, AccountsInv, NEW w \in Workers, ExportKdzsAccounts(w)
  PROVE  AccountsKept
<1>1. call \in [Workers -> Call] /\ call[w] \in Call
  BY DEF AccountsTyped
<1> DEFINE here == {c \in Codes : ssa[c] # Absent}
           x == [call[w] EXCEPT !.pc = "import", !.payload = ssa, !.st = settings, !.todo = here]
<1>2. x \in Call /\ x.pc = "import" /\ x.payload = ssa /\ x.st = settings /\ x.todo = here
  <2>1. here \in SUBSET Codes
    OBVIOUS
  <2> HIDE DEF here
  <2>2. QED
    BY <1>1, <2>1 DEF Call, PCs, AccountsTyped
<1>3. call' = [call EXCEPT ![w] = x]
  BY <1>1 DEF ExportKdzsAccounts
<1>4. here \subseteq Codes /\ \A c \in Codes : c \in here <=> ssa[c] # Absent
  OBVIOUS
<1> HIDE DEF x, here
<1>5. call'[w] = x /\ call' \in [Workers -> Call]
  BY <1>1, <1>2, <1>3
<1>6. UNCHANGED <<accounts, settings, ssa, session, tokens, chosen>>
  BY DEF ExportKdzsAccounts
<1>7. Holds(call[w])'
  BY <1>2, <1>4, <1>5, <1>6 DEF Holds
<1>8. call'[w].pc \notin AssetPCs
  BY <1>2, <1>5 DEF AssetPCs, Storing, AfterAuths
<1>9. QED
  BY <1>5, <1>6, <1>7, <1>8, OnlyCall

\* SSA has the password the user gave, so it may be taken over; and no account
\* disappears.
LEMMA ImportKeeps ==
  ASSUME OneWorker, AccountsTyped, AccountsInv, NEW w \in Workers, NEW c \in Codes,
         ImportAccount(w, c)
  PROVE  AccountsKept
<1>1. /\ call \in [Workers -> Call] /\ call[w] \in Call /\ call[w].pc = "import"
      /\ accounts \in [Codes -> Account] /\ accounts[c] \in Account
      /\ Holds(call[w]) /\ c \in call[w].todo
  BY DEF AccountsTyped, AccountsInv, ImportAccount, At
<1>2. call[w].st = settings /\ call[w].payload = ssa
  BY <1>1 DEF Holds
<1> DEFINE x == [call[w] EXCEPT !.todo = @ \ {c}]
           keeps == ssa[c] = Blank \/ (accounts[c].source = "local" /\ accounts[c].password # Blank)
           y == IF ~Exists(c) THEN [source |-> "ssa", password |-> ssa[c]]
                ELSE IF keeps THEN accounts[c] ELSE [accounts[c] EXCEPT !.password = ssa[c]]
<1>3. /\ x \in Call /\ x.pc = "import" /\ x.payload = ssa /\ x.st = settings
      /\ x.todo = call[w].todo \ {c}
  BY <1>1, <1>2 DEF Call
<1>4. call' = [call EXCEPT ![w] = x]
  BY <1>1 DEF ImportAccount
<1>5. accounts' = [accounts EXCEPT ![c] = y]
  BY <1>1, <1>2 DEF ImportAccount
<1>6. UNCHANGED <<settings, ssa, session, tokens, chosen>>
  BY DEF ImportAccount
<1> HIDE DEF x
<1>7. call'[w] = x /\ call' \in [Workers -> Call]
  BY <1>1, <1>3, <1>4
<1>8. ssa[c] \in Passwords \cup {Blank}
  BY <1>1 DEF Holds, AccountsTyped
<1>9. /\ y \in Account /\ y.source # "none"
      /\ Exists(c) => y.source = accounts[c].source
      /\ chosen[c] # Blank => Exists(c) /\ y.password = chosen[c]
  <2>1. y \in Account /\ y.source # "none" /\ (Exists(c) => y.source = accounts[c].source)
    BY <1>1, <1>8 DEF Account, Exists
  <2>2. ASSUME chosen[c] # Blank PROVE Exists(c) /\ y.password = chosen[c]
    <3>1. /\ Exists(c) /\ accounts[c].password = chosen[c]
          /\ accounts[c].source = "ssa" => ssa[c] = chosen[c]
      BY <2>2 DEF AccountsInv, PasswordsKept
    <3>2. accounts[c].source \in {"ssa", "local"}
      BY <1>1, <3>1 DEF Exists, Account
    <3>3. QED
      BY <1>1, <2>2, <3>1, <3>2 DEF Account
  <2>3. QED
    BY <2>1, <2>2
<1> HIDE DEF y
<1>10. accounts' \in [Codes -> Account] /\ accounts'[c] = y
       /\ \A d \in Codes \ {c} : accounts'[d] = accounts[d]
  BY <1>1, <1>5, <1>9
<1>11. \A d \in Codes : (Exists(d) => Exists(d)') /\ (d = c => Exists(d)')
  BY <1>9, <1>10, KdzsAccountsAssumption DEF Exists
<1>12. AccountsTyped'
  BY <1>6, <1>7, <1>10 DEF AccountsTyped
<1>13. ChoiceExists'
  BY <1>6, <1>11 DEF AccountsInv, AccountsTyped, Settings, ChoiceExists, Exists
<1>14. PasswordsKept'
  <2> SUFFICES ASSUME NEW d \in Codes, chosen[d] # Blank
               PROVE  /\ Exists(d)' /\ accounts'[d].password = chosen[d]
                      /\ accounts'[d].source = "ssa" => ssa[d] = chosen[d]
    BY <1>6 DEF PasswordsKept
  <2>1. /\ Exists(d) /\ accounts[d].password = chosen[d]
        /\ accounts[d].source = "ssa" => ssa[d] = chosen[d]
    BY DEF AccountsInv, PasswordsKept
  <2>2. QED
    BY <1>9, <1>10, <1>11, <2>1
<1>15. Holds(call[w])'
  <2>1. \A d \in Codes : ssa[d] # Absent => d \in call[w].todo \/ Exists(d)
    BY <1>1 DEF Holds
  <2>2. \A d \in Codes : ssa[d] # Absent => d \in x.todo \/ Exists(d)'
    BY <1>3, <1>11, <2>1
  <2>3. \A d \in x.todo : ssa[d] # Absent
    BY <1>1, <1>3 DEF Holds
  <2>4. QED
    BY <1>3, <1>6, <1>7, <2>2, <2>3 DEF Holds
<1>16. call'[w].pc \notin AssetPCs
  BY <1>3, <1>7 DEF AssetPCs, Storing, AfterAuths
<1>17. QED
  BY <1>12, <1>13, <1>14, <1>15, <1>16, Moved

LEMMA SaveSettingsKeeps ==
  ASSUME OneWorker, AccountsTyped, AccountsInv, NEW w \in Workers, SaveSettings(w)
  PROVE  AccountsKept
<1>1. /\ call \in [Workers -> Call] /\ call[w] \in Call /\ settings \in Settings
      /\ call[w].pc = "import" /\ call[w].todo = {} /\ Holds(call[w])
  BY DEF AccountsTyped, AccountsInv, SaveSettings, At
<1>2. /\ call[w].st = settings
      /\ \A c \in Codes : call[w].payload[c] # Absent => Exists(c)
  BY <1>1 DEF Holds
<1> DEFINE items == {c \in Codes : call[w].payload[c] # Absent}
<1>3. PICK exportedDefault \in items \cup {None}, exportedActive \in items \cup {None},
           first \in IF items = {} THEN {None} ELSE items :
        LET default == Chosen(w, call[w].st.default, exportedDefault, first)
            active == Chosen(w, call[w].st.active, exportedActive, default)
            st == [call[w].st EXCEPT !.default = default, !.active = active]
        IN settings' = st /\ call' = [call EXCEPT ![w].pc = "session", ![w].st = st]
  BY DEF SaveSettings
<1> DEFINE Known == {None} \cup Present
           default == Chosen(w, settings.default, exportedDefault, first)
           active == Chosen(w, settings.active, exportedActive, default)
           st == [settings EXCEPT !.default = default, !.active = active]
           x == [call[w] EXCEPT !.pc = "session", !.st = st]
<1>4. /\ exportedDefault \in Known /\ exportedActive \in Known /\ first \in Known
      /\ settings.default \in Known /\ settings.active \in Known
  BY <1>1, <1>2 DEF Present, AccountsInv, ChoiceExists, Settings
<1>5. settings' = st /\ call' = [call EXCEPT ![w] = x]
  BY <1>1, <1>2, <1>3
<1> HIDE DEF Known, items
<1>6. default \in Known
  BY <1>4 DEF Chosen
<1> HIDE DEF default
<1>7. active \in Known
  BY <1>4, <1>6 DEF Chosen
<1> HIDE DEF active
<1>8. st \in Settings /\ st.default = default /\ st.active = active
  BY <1>1, <1>6, <1>7 DEF Settings, Known, Present
<1> HIDE DEF st
<1>9. x \in Call /\ x.pc = "session"
  BY <1>1, <1>8 DEF Call, PCs
<1> HIDE DEF x
<1>10. call'[w] = x /\ call' \in [Workers -> Call]
  BY <1>1, <1>5, <1>9
<1>11. UNCHANGED <<accounts, ssa, session, tokens, chosen>>
  BY DEF SaveSettings
<1>12. AccountsTyped' /\ ChoiceExists' /\ PasswordsKept'
  <2>1. AccountsTyped'
    BY <1>5, <1>8, <1>10, <1>11 DEF AccountsTyped
  <2>2. ChoiceExists'
    BY <1>5, <1>6, <1>7, <1>8, <1>11 DEF ChoiceExists, Known, Present, Exists
  <2>3. PasswordsKept'
    BY <1>11 DEF AccountsInv, PasswordsKept, Exists
  <2>4. QED
    BY <2>1, <2>2, <2>3
<1>13. QED
  BY <1>9, <1>10, <1>12, KnowsNothing, Moved DEF Free

LEMMA SwitchAfterSyncKeeps ==
  ASSUME OneWorker, AccountsTyped, AccountsInv, NEW w \in Workers, SwitchAfterSync(w)
  PROVE  AccountsKept
<1>1. SSAKept
  <2>1. CASE UNCHANGED <<ssa, session>>
    BY <2>1 DEF AccountsTyped, SSAKept
  <2>2. ASSUME NEW ok \in BOOLEAN, ensureSSASession(call[w].st.active, ok) PROVE SSAKept
    <3>1. call[w].st.active \in Codes \cup {None}
      BY DEF AccountsTyped, Call, Settings
    <3>2. QED
      BY <2>2, <3>1, SessionStep
  <2>3. QED
    BY <2>1, <2>2 DEF SwitchAfterSync
<1>2. UNCHANGED <<accounts, settings, tokens, chosen>>
  BY DEF SwitchAfterSync
<1>3. call' \in [Workers -> Call] /\ call'[w].pc \in {"idle", "resolve"}
  <2>1. CASE Return(w)
    BY <2>1, Returns
  <2>2. CASE GoTo(w, "resolve")
    <3>1. "resolve" \in PCs
      BY DEF PCs
    <3>2. QED
      BY <2>2, <3>1, Goes
  <2>3. QED
    BY <2>1, <2>2 DEF SwitchAfterSync
<1>4. Holds(call[w])' /\ call'[w].pc \notin AssetPCs
  BY <1>3, KnowsNothing DEF Free
<1>5. QED
  BY <1>1, <1>2, <1>3, <1>4, SessionMoved

\* A request that returns, when the stored state is as it should be.
LEMMA Returned ==
  ASSUME OneWorker, AccountsTyped, NEW w \in Workers, Return(w),
         accounts' \in [Codes -> Account], settings' \in Settings,
         chosen' \in [Codes -> Passwords \cup {Blank}], UNCHANGED <<ssa, session, tokens>>,
         ChoiceExists', PasswordsKept'
  PROVE  AccountsKept
<1>1. call' \in [Workers -> Call] /\ call'[w].pc = "idle"
  BY Returns
<1>2. Holds(call[w])' /\ call'[w].pc \notin AssetPCs
  BY <1>1, KnowsNothing DEF Free
<1>3. AccountsTyped'
  BY <1>1 DEF AccountsTyped
<1>4. QED
  BY <1>2, <1>3, Moved

LEMMA ReturnsOnly ==
  ASSUME OneWorker, AccountsTyped, AccountsInv, NEW w \in Workers, Return(w),
         UNCHANGED <<accounts, settings, ssa, session, tokens, chosen>>
  PROVE  AccountsKept
<1>1. call' \in [Workers -> Call] /\ call'[w].pc = "idle"
  BY Returns
<1>2. Holds(call[w])' /\ call'[w].pc \notin AssetPCs
  BY <1>1, KnowsNothing DEF Free
<1>3. QED
  BY <1>1, <1>2, OnlyCall

LEMMA ResolveKeeps ==
  ASSUME OneWorker, AccountsTyped, AccountsInv, NEW w \in Workers, ResolveAccount(w)
  PROVE  AccountsKept
<1>1. call \in [Workers -> Call] /\ call[w] \in Call /\ settings \in Settings
  BY DEF AccountsTyped
<1>2. UNCHANGED <<accounts, ssa, session, tokens, chosen>>
  BY DEF ResolveAccount
<1>3. ASSUME NEW c \in Codes, call' = [call EXCEPT ![w].pc = "ensure", ![w].code = c],
             settings' \in Settings, ChoiceExists',
             Effective(settings') = None \/ Effective(settings') = c
      PROVE  AccountsKept
  <2> DEFINE x == [call[w] EXCEPT !.pc = "ensure", !.code = c]
  <2>1. x \in Call /\ x.pc = "ensure" /\ x.code = c
    BY <1>1 DEF Call, PCs
  <2>2. call' = [call EXCEPT ![w] = x]
    BY <1>1, <1>3
  <2> HIDE DEF x
  <2>3. call'[w] = x /\ call' \in [Workers -> Call]
    BY <1>1, <2>1, <2>2
  <2>4. AccountsTyped' /\ PasswordsKept'
    BY <1>2, <1>3, <2>3 DEF AccountsTyped, AccountsInv, PasswordsKept, Exists
  <2>5. Holds(call[w])'
    BY <1>3, <2>1, <2>3, KdzsAccountsAssumption DEF Holds, Effective
  <2>6. call'[w].pc \notin AssetPCs
    BY <2>1, <2>3 DEF AssetPCs, Storing, AfterAuths
  <2>7. QED
    BY <1>3, <2>4, <2>5, <2>6, Moved
<1>4. CASE Effective(settings) # None /\ UNCHANGED settings
           /\ call' = [call EXCEPT ![w].pc = "ensure", ![w].code = Effective(settings)]
  <2>1. Effective(settings) \in Codes
    BY <1>1, <1>4 DEF Effective, Settings
  <2>2. ChoiceExists' /\ settings' \in Settings
    BY <1>1, <1>2, <1>4 DEF AccountsInv, ChoiceExists, Exists
  <2>3. QED
    BY <1>3, <1>4, <2>1, <2>2
<1>5. ASSUME NEW c \in Present, Effective(settings) = None,
             call' = [call EXCEPT ![w].pc = "ensure", ![w].code = c],
             settings' = [settings EXCEPT !.active = c, !.default = c] \/ UNCHANGED settings
      PROVE  AccountsKept
  <2>1. c \in Codes /\ Exists(c)
    BY DEF Present
  <2>2. CASE settings' = [settings EXCEPT !.active = c, !.default = c]
    <3>1. settings' \in Settings /\ settings'.active = c /\ settings'.default = c
      BY <1>1, <2>1, <2>2 DEF Settings
    <3>2. ChoiceExists' /\ Effective(settings') = c
      BY <1>2, <2>1, <3>1 DEF ChoiceExists, Exists, Effective
    <3>3. QED
      BY <1>3, <1>5, <2>1, <3>1, <3>2
  <2>3. CASE UNCHANGED settings
    <3>1. ChoiceExists' /\ settings' \in Settings /\ Effective(settings') = None
      BY <1>1, <1>2, <1>5, <2>3 DEF AccountsInv, ChoiceExists, Exists
    <3>2. QED
      BY <1>3, <1>5, <2>1, <3>1
  <2>4. QED
    BY <1>5, <2>2, <2>3
<1>6. CASE Return(w) /\ UNCHANGED settings
  BY <1>2, <1>6, ReturnsOnly
<1>7. QED
  BY <1>4, <1>5, <1>6 DEF ResolveAccount

LEMMA EnsureKeeps ==
  ASSUME OneWorker, AccountsTyped, AccountsInv, NEW w \in Workers, EnsureActiveSSASession(w)
  PROVE  AccountsKept
<1>1. call[w] \in Call /\ call[w].pc = "ensure" /\ Holds(call[w])
  BY DEF AccountsTyped, AccountsInv, EnsureActiveSSASession, At
<1>2. UNCHANGED <<accounts, settings, tokens, chosen>>
  BY DEF EnsureActiveSSASession
<1>3. call[w].code \in Codes \cup {None}
  BY <1>1 DEF Call
<1>4. CASE ensureSSASession(call[w].code, TRUE) /\ GoTo(w, "ready")
  <2>1. SSAKept /\ session' = call[w].code
    BY <1>3, <1>4, SessionStep
  <2>2. "ready" \in PCs
    BY DEF PCs
  <2>3. call' \in [Workers -> Call] /\ call'[w].pc = "ready" /\ call'[w].code = call[w].code
    BY <1>4, <2>2, Goes
  <2>4. Holds(call[w])'
    BY <1>1, <1>2, <2>1, <2>3 DEF Holds
  <2>5. call'[w].pc \notin AssetPCs
    BY <2>3 DEF AssetPCs, Storing, AfterAuths
  <2>6. QED
    BY <1>2, <2>1, <2>3, <2>4, <2>5, SessionMoved
<1>5. CASE ensureSSASession(call[w].code, FALSE) /\ Return(w)
  <2>1. SSAKept
    BY <1>3, <1>5, SessionStep
  <2>2. call' \in [Workers -> Call] /\ call'[w].pc = "idle"
    BY <1>5, Returns
  <2>3. Holds(call[w])' /\ call'[w].pc \notin AssetPCs
    BY <2>2, KnowsNothing DEF Free
  <2>4. QED
    BY <1>2, <2>1, <2>2, <2>3, SessionMoved
<1>6. QED
  BY <1>4, <1>5 DEF EnsureActiveSSASession

LEMMA InsertKeeps ==
  ASSUME OneWorker, AccountsTyped, AccountsInv, NEW w \in Workers, InsertAccount(w)
  PROVE  AccountsKept
<1> DEFINE c == call[w].code
<1>1. /\ call[w] \in Call /\ call[w].pc = "create" /\ c \in Codes
      /\ call[w].password \in Passwords /\ accounts \in [Codes -> Account]
      /\ chosen \in [Codes -> Passwords \cup {Blank}]
  BY DEF AccountsTyped, AccountsInv, InsertAccount, At, Holds
<1>2. UNCHANGED <<settings, ssa, session, tokens>>
  BY DEF InsertAccount
<1>3. CASE Exists(c)
  <2>1. Return(w) /\ UNCHANGED <<accounts, chosen>>
    BY <1>3 DEF InsertAccount
  <2>2. QED
    BY <1>2, <2>1, ReturnsOnly
<1>4. CASE ~Exists(c)
  <2> DEFINE y == [source |-> "local", password |-> call[w].password]
  <2>1. accounts' = [accounts EXCEPT ![c] = y] /\ GoTo(w, "adopt")
        /\ chosen' = [chosen EXCEPT ![c] = call[w].password]
    BY <1>4 DEF InsertAccount
  <2>2. y \in Account /\ y.source = "local" /\ y.password = call[w].password
    BY <1>1 DEF Account
  <2> HIDE DEF y, c
  <2>3. /\ accounts' \in [Codes -> Account] /\ accounts'[c] = y
        /\ chosen' \in [Codes -> Passwords \cup {Blank}] /\ chosen'[c] = call[w].password
        /\ \A d \in Codes \ {c} : accounts'[d] = accounts[d] /\ chosen'[d] = chosen[d]
    BY <1>1, <2>1, <2>2
  <2>4. "adopt" \in PCs
    BY DEF PCs
  <2>5. /\ call' \in [Workers -> Call] /\ call'[w].pc = "adopt"
        /\ call'[w].code = c /\ call'[w].password = call[w].password
    BY <2>1, <2>4, Goes DEF c
  <2>6. c # None /\ \A d \in Codes : (Exists(d) => Exists(d)') /\ (d = c => Exists(d)')
    BY <1>1, <2>2, <2>3, KdzsAccountsAssumption DEF Exists
  <2>7. AccountsTyped'
    BY <1>2, <2>3, <2>5 DEF AccountsTyped
  <2>8. ChoiceExists'
    BY <1>2, <2>6 DEF AccountsInv, AccountsTyped, Settings, ChoiceExists, Exists
  <2>9. PasswordsKept'
    <3> SUFFICES ASSUME NEW d \in Codes, chosen'[d] # Blank
                 PROVE  /\ Exists(d)' /\ accounts'[d].password = chosen'[d]
                        /\ accounts'[d].source = "ssa" => ssa'[d] = chosen'[d]
      BY DEF PasswordsKept
    <3>1. CASE d = c
      BY <2>2, <2>3, <2>6, <3>1
    <3>2. CASE d # c
      BY <1>2, <2>3, <2>6, <3>2 DEF AccountsInv, PasswordsKept
    <3>3. QED
      BY <3>1, <3>2
  <2>10. Holds(call[w])'
    <3>1. c \in Codes
      BY <1>1
    <3>2. accounts'[c].password = call[w].password /\ accounts'[c].source # "none"
      BY <2>2, <2>3
    <3>3. QED
      BY <2>5, <2>6, <3>2 DEF Holds, Exists
  <2>11. call'[w].pc \notin AssetPCs
    BY <2>5 DEF AssetPCs, Storing, AfterAuths
  <2>12. QED
    BY <2>7, <2>8, <2>9, <2>10, <2>11, Moved
<1>5. QED
  BY <1>3, <1>4

\* An account that exists is chosen, or nothing is.
LEMMA AdoptKeeps ==
  ASSUME OneWorker, AccountsTyped, AccountsInv, NEW w \in Workers, AdoptFirst(w)
  PROVE  AccountsKept
<1> DEFINE c == call[w].code
<1>1. /\ call[w] \in Call /\ call[w].pc = "adopt" /\ settings \in Settings
      /\ c \in Codes \cup {None} /\ Exists(c) /\ accounts[c].password = call[w].password
  BY DEF AccountsTyped, AccountsInv, AdoptFirst, At, Holds, Call
<1>2. UNCHANGED <<accounts, ssa, session, tokens, chosen>>
  BY DEF AdoptFirst
<1>3. settings' \in Settings /\ ChoiceExists'
  <2>1. CASE settings' = [settings EXCEPT !.default = c, !.active = c]
    <3>1. settings' \in Settings /\ settings'.default = c /\ settings'.active = c
      BY <1>1, <2>1 DEF Settings
    <3>2. QED
      BY <1>1, <1>2, <3>1 DEF ChoiceExists, Exists
  <2>2. CASE UNCHANGED settings
    BY <1>1, <1>2, <2>2 DEF AccountsInv, ChoiceExists, Exists
  <2>3. QED
    BY <2>1, <2>2 DEF AdoptFirst
<1>4. /\ call' \in [Workers -> Call] /\ call'[w].pc = "push"
      /\ call'[w].code = c /\ call'[w].password = call[w].password
  <2>1. "push" \in PCs
    BY DEF PCs
  <2>2. QED
    BY <2>1, Goes DEF AdoptFirst
<1>5. AccountsTyped' /\ PasswordsKept'
  BY <1>2, <1>3, <1>4 DEF AccountsTyped, AccountsInv, PasswordsKept, Exists
<1>6. Holds(call[w])'
  BY <1>1, <1>2, <1>4 DEF Holds, Exists
<1>7. call'[w].pc \notin AssetPCs
  BY <1>4 DEF AssetPCs, Storing, AfterAuths
<1>8. QED
  BY <1>3, <1>5, <1>6, <1>7, Moved

LEMMA WriteKeeps ==
  ASSUME OneWorker, AccountsTyped, AccountsInv, NEW w \in Workers, WriteAccount(w)
  PROVE  AccountsKept
<1> DEFINE c == call[w].code
<1>1. /\ call[w] \in Call /\ call[w].pc = "update" /\ c \in Codes
      /\ call[w].password \in Passwords /\ accounts \in [Codes -> Account]
      /\ accounts[c] \in Account /\ chosen \in [Codes -> Passwords \cup {Blank}]
  BY DEF AccountsTyped, AccountsInv, WriteAccount, At, Holds
<1>2. UNCHANGED <<settings, ssa, session, tokens>>
  BY DEF WriteAccount
<1>3. CASE ~Exists(c)
  <2>1. Return(w) /\ UNCHANGED <<accounts, chosen>>
    BY <1>3 DEF WriteAccount
  <2>2. QED
    BY <1>2, <2>1, ReturnsOnly
<1>4. CASE Exists(c)
  <2> DEFINE y == [accounts[c] EXCEPT !.password = call[w].password]
             p == IF accounts[c].source = "local" THEN call[w].password ELSE Blank
  <2>1. accounts' = [accounts EXCEPT ![c] = y] /\ GoTo(w, "push")
        /\ chosen' = [chosen EXCEPT ![c] = p]
    BY <1>1, <1>4 DEF WriteAccount
  <2>2. /\ y \in Account /\ y.source = accounts[c].source /\ y.password = call[w].password
        /\ p \in Passwords \cup {Blank}
        /\ p # Blank => p = call[w].password /\ y.source # "ssa"
    BY <1>1 DEF Account
  <2> HIDE DEF y, c, p
  <2>3. /\ accounts' \in [Codes -> Account] /\ accounts'[c] = y
        /\ chosen' \in [Codes -> Passwords \cup {Blank}] /\ chosen'[c] = p
        /\ \A d \in Codes \ {c} : accounts'[d] = accounts[d] /\ chosen'[d] = chosen[d]
    BY <1>1, <2>1, <2>2
  <2>4. "push" \in PCs
    BY DEF PCs
  <2>5. /\ call' \in [Workers -> Call] /\ call'[w].pc = "push"
        /\ call'[w].code = c /\ call'[w].password = call[w].password
    BY <2>1, <2>4, Goes DEF c
  <2>6. \A d \in Codes : Exists(d) => Exists(d)'
    BY <1>1, <2>2, <2>3 DEF Exists
  <2>7. AccountsTyped'
    BY <1>2, <2>3, <2>5 DEF AccountsTyped
  <2>8. ChoiceExists'
    BY <1>2, <2>6 DEF AccountsInv, AccountsTyped, Settings, ChoiceExists, Exists
  <2>9. PasswordsKept'
    <3> SUFFICES ASSUME NEW d \in Codes, chosen'[d] # Blank
                 PROVE  /\ Exists(d)' /\ accounts'[d].password = chosen'[d]
                        /\ accounts'[d].source = "ssa" => ssa'[d] = chosen'[d]
      BY DEF PasswordsKept
    <3>1. CASE d = c
      BY <1>4, <2>2, <2>3, <2>6, <3>1 DEF c
    <3>2. CASE d # c
      BY <1>2, <2>3, <2>6, <3>2 DEF AccountsInv, PasswordsKept
    <3>3. QED
      BY <3>1, <3>2
  <2>10. /\ c # None /\ accounts'[c].source # "none"
         /\ accounts'[c].password = call[w].password
    BY <1>4, <2>2, <2>3 DEF c, Exists
  <2>11. Holds(call[w])'
    BY <2>5, <2>10 DEF Holds, Exists
  <2>12. call'[w].pc \notin AssetPCs
    BY <2>5 DEF AssetPCs, Storing, AfterAuths
  <2>13. QED
    BY <2>7, <2>8, <2>9, <2>11, <2>12, Moved
<1>5. QED
  BY <1>3, <1>4

\* SSA gets the password the account has here.
LEMMA PushKeeps ==
  ASSUME OneWorker, AccountsTyped, AccountsInv, NEW w \in Workers, PushAccount(w)
  PROVE  AccountsKept
<1> DEFINE c == call[w].code  pw == call[w].password
<1>1. /\ call[w] \in Call /\ call[w].pc = "push" /\ Exists(c) /\ accounts[c].password = pw
      /\ c \in Codes /\ pw \in Passwords \cup {Blank}
  <2>1. call[w] \in Call /\ call[w].pc = "push" /\ Holds(call[w])
    BY DEF AccountsTyped, AccountsInv, PushAccount, At
  <2>2. QED
    BY <2>1 DEF Holds, Call, Exists
<1>2. UNCHANGED <<accounts, settings, session, tokens>> /\ GoTo(w, "export")
  BY DEF PushAccount
<1>3. call' \in [Workers -> Call] /\ call'[w].pc = "export"
  <2>1. "export" \in PCs
    BY DEF PCs
  <2>2. QED
    BY <1>2, <2>1, Goes
<1>4. Holds(call[w])' /\ call'[w].pc \notin AssetPCs
  BY <1>3, KnowsNothing DEF Free
<1>5. CASE ssa' = [ssa EXCEPT ![c] = pw] /\ chosen' = [chosen EXCEPT ![c] = pw]
  <2> HIDE DEF c, pw
  <2>1. /\ ssa' \in [Codes -> Passwords \cup {Blank, Absent}] /\ ssa'[c] = pw
        /\ chosen' \in [Codes -> Passwords \cup {Blank}] /\ chosen'[c] = pw
        /\ \A d \in Codes \ {c} : ssa'[d] = ssa[d] /\ chosen'[d] = chosen[d]
    BY <1>1, <1>5 DEF AccountsTyped
  <2>2. AccountsTyped'
    BY <1>2, <1>3, <2>1 DEF AccountsTyped
  <2>3. ChoiceExists'
    BY <1>2 DEF AccountsInv, ChoiceExists, Exists
  <2>4. PasswordsKept'
    <3> SUFFICES ASSUME NEW d \in Codes, chosen'[d] # Blank
                 PROVE  /\ Exists(d) /\ accounts[d].password = chosen'[d]
                        /\ accounts[d].source = "ssa" => ssa'[d] = chosen'[d]
      BY <1>2 DEF PasswordsKept, Exists
    <3>1. CASE d = c
      BY <1>1, <2>1, <3>1
    <3>2. CASE d # c
      BY <2>1, <3>2 DEF AccountsInv, PasswordsKept
    <3>3. QED
      BY <3>1, <3>2
  <2>5. QED
    BY <1>4, <2>2, <2>3, <2>4, Moved
<1>6. CASE UNCHANGED <<ssa, chosen>>
  BY <1>2, <1>3, <1>4, <1>6, OnlyCall
<1>7. QED
  BY <1>5, <1>6 DEF PushAccount

LEMMA CheckDeleteKeeps ==
  ASSUME OneWorker, AccountsTyped, AccountsInv, NEW w \in Workers, CheckDelete(w)
  PROVE  AccountsKept
<1>1. call[w] \in Call /\ call[w].pc = "delete" /\ call[w].code \in Codes
  BY DEF AccountsTyped, AccountsInv, CheckDelete, At, Holds
<1>2. UNCHANGED <<accounts, settings, ssa, session, tokens, chosen>>
  BY DEF CheckDelete
<1>3. CASE Return(w)
  BY <1>2, <1>3, ReturnsOnly
<1>4. CASE call[w].code \notin {settings.default, settings.active} /\ GoTo(w, "drop")
  <2>1. "drop" \in PCs
    BY DEF PCs
  <2>2. call' \in [Workers -> Call] /\ call'[w].pc = "drop" /\ call'[w].code = call[w].code
    BY <1>4, <2>1, Goes
  <2>3. Holds(call[w])'
    BY <1>1, <1>2, <1>4, <2>2 DEF Holds
  <2>4. call'[w].pc \notin AssetPCs
    BY <2>2 DEF AssetPCs, Storing, AfterAuths
  <2>5. QED
    BY <1>2, <2>2, <2>3, <2>4, OnlyCall
<1>5. QED
  BY <1>3, <1>4 DEF CheckDelete

\* Neither of the chosen accounts is dropped.
LEMMA DropKeeps ==
  ASSUME OneWorker, AccountsTyped, AccountsInv, NEW w \in Workers, DropAccount(w)
  PROVE  AccountsKept
<1> DEFINE c == call[w].code
<1>1. call[w].pc = "drop" /\ c \in Codes /\ c \notin {settings.default, settings.active}
  BY DEF AccountsInv, DropAccount, At, Holds
<1>2. /\ Return(w) /\ UNCHANGED <<settings, ssa, session, tokens>>
      /\ accounts' = [accounts EXCEPT ![c] = NoAccount] /\ chosen' = [chosen EXCEPT ![c] = Blank]
  BY DEF DropAccount
<1>3. NoAccount \in Account
  BY DEF NoAccount, Account
<1> HIDE DEF c
<1>4. /\ accounts' \in [Codes -> Account] /\ chosen' \in [Codes -> Passwords \cup {Blank}]
      /\ chosen'[c] = Blank
      /\ \A d \in Codes \ {c} : accounts'[d] = accounts[d] /\ chosen'[d] = chosen[d]
  BY <1>1, <1>2, <1>3 DEF AccountsTyped
<1>5. settings' \in Settings
  BY <1>2 DEF AccountsTyped
<1>6. \A d \in Codes \ {c} : Exists(d) => Exists(d)'
  BY <1>4 DEF Exists
<1>7. ChoiceExists'
  BY <1>1, <1>2, <1>6 DEF AccountsInv, AccountsTyped, Settings, ChoiceExists, Exists
<1>8. PasswordsKept'
  BY <1>2, <1>4, <1>6 DEF AccountsInv, PasswordsKept
<1>9. QED
  BY <1>2, <1>4, <1>5, <1>7, <1>8, Returned

LEMMA CheckDefaultKeeps ==
  ASSUME OneWorker, AccountsTyped, AccountsInv, NEW w \in Workers, CheckDefault(w)
  PROVE  AccountsKept
<1>1. UNCHANGED <<accounts, settings, ssa, session, tokens, chosen>>
  BY DEF CheckDefault
<1>2. CASE Return(w)
  BY <1>1, <1>2, ReturnsOnly
<1>3. CASE Exists(call[w].code) /\ GoTo(w, "saveDefault")
  <2>1. "saveDefault" \in PCs
    BY DEF PCs
  <2>2. /\ call' \in [Workers -> Call] /\ call'[w].pc = "saveDefault"
        /\ call'[w].code = call[w].code
    BY <1>3, <2>1, Goes
  <2>3. Holds(call[w])'
    BY <1>1, <1>3, <2>2 DEF Holds, Exists
  <2>4. call'[w].pc \notin AssetPCs
    BY <2>2 DEF AssetPCs, Storing, AfterAuths
  <2>5. QED
    BY <1>1, <2>2, <2>3, <2>4, OnlyCall
<1>4. QED
  BY <1>2, <1>3 DEF CheckDefault

LEMMA SwitchKeeps ==
  ASSUME OneWorker, AccountsTyped, AccountsInv, NEW w \in Workers, SwitchSession(w)
  PROVE  AccountsKept
<1>1. UNCHANGED <<accounts, settings, tokens, chosen>>
  BY DEF SwitchSession
<1>2. call[w].code \in Codes \cup {None}
  BY DEF AccountsTyped, Call
<1>3. CASE ensureSSASession(call[w].code, TRUE) /\ GoTo(w, "saveActive")
  <2>1. SSAKept /\ Exists(call[w].code)
    BY <1>2, <1>3, SessionStep
  <2>2. "saveActive" \in PCs
    BY DEF PCs
  <2>3. /\ call' \in [Workers -> Call] /\ call'[w].pc = "saveActive"
        /\ call'[w].code = call[w].code
    BY <1>3, <2>2, Goes
  <2>4. Holds(call[w])'
    BY <1>1, <2>1, <2>3 DEF Holds, Exists
  <2>5. call'[w].pc \notin AssetPCs
    BY <2>3 DEF AssetPCs, Storing, AfterAuths
  <2>6. QED
    BY <1>1, <2>1, <2>3, <2>4, <2>5, SessionMoved
<1>4. CASE ensureSSASession(call[w].code, FALSE) /\ Return(w)
  <2>1. SSAKept
    BY <1>2, <1>4, SessionStep
  <2>2. call' \in [Workers -> Call] /\ call'[w].pc = "idle"
    BY <1>4, Returns
  <2>3. Holds(call[w])' /\ call'[w].pc \notin AssetPCs
    BY <2>2, KnowsNothing DEF Free
  <2>4. QED
    BY <1>1, <2>1, <2>2, <2>3, SessionMoved
<1>5. QED
  BY <1>3, <1>4 DEF SwitchSession

LEMMA SaveChoiceKeeps ==
  ASSUME OneWorker, AccountsTyped, AccountsInv, NEW w \in Workers, SaveChoice(w)
  PROVE  AccountsKept
<1> DEFINE c == call[w].code
<1>1. /\ call[w] \in Call /\ c \in Codes \cup {None} /\ Exists(c) /\ settings \in Settings
  BY DEF AccountsTyped, AccountsInv, SaveChoice, At, Holds, Call
<1>2. Return(w) /\ UNCHANGED <<accounts, ssa, session, tokens, chosen>>
  BY DEF SaveChoice
<1>3. settings' = [settings EXCEPT !.default = c] \/ settings' = [settings EXCEPT !.active = c]
  BY DEF SaveChoice
<1>4. /\ settings' \in Settings /\ settings'.default \in {settings.default, c}
      /\ settings'.active \in {settings.active, c}
  BY <1>1, <1>3 DEF Settings
<1>5. ChoiceExists' /\ PasswordsKept'
  BY <1>1, <1>2, <1>4 DEF AccountsInv, ChoiceExists, PasswordsKept, Exists
<1>6. QED
  BY <1>2, <1>4, <1>5, Returned DEF AccountsTyped

\* The other columns of the row stay as they are.
LEMMA IssueKeeps ==
  ASSUME OneWorker, AccountsTyped, AccountsInv, NEW w \in Workers, NEW rotate \in BOOLEAN,
         IssueEnrollToken(w, rotate)
  PROVE  AccountsKept
<1>1. /\ settings \in Settings /\ tokens' \in Nat /\ call[w].pc = "idle"
      /\ settings' = [settings EXCEPT !.token = tokens']
      /\ UNCHANGED <<accounts, ssa, session, call, chosen>>
  BY IdleCall DEF AccountsTyped, IssueEnrollToken
<1>2. /\ settings' \in Settings /\ settings'.default = settings.default
      /\ settings'.active = settings.active
  BY <1>1 DEF Settings
<1>3. AccountsTyped' /\ ChoiceExists' /\ PasswordsKept'
  BY <1>1, <1>2 DEF AccountsTyped, AccountsInv, ChoiceExists, PasswordsKept, Exists
<1>4. Holds(call[w])' /\ call'[w].pc \notin AssetPCs
  BY <1>1, KnowsNothing DEF Free
<1>5. QED
  BY <1>3, <1>4, Moved

\* What others do in SSA happens while no request is under way.
LEMMA QuietKeeps ==
  ASSUME AccountsTyped', Quiet, UNCHANGED call, ChoiceExists', PasswordsKept'
  PROVE  AccountsKept
<1>1. \A v \in Workers : call'[v].pc = "idle"
  BY IdleCall DEF Quiet
<1>2. \A v \in Workers : Holds(call[v])' /\ call'[v].pc \notin AssetPCs
  BY <1>1, KnowsNothing DEF Free
<1>3. QED
  BY <1>2 DEF AccountsKept, AccountsInv

LEMMA EditsKeep ==
  ASSUME AccountsTyped, AccountsInv, NEW c \in Codes,
         NEW pw \in Passwords \cup {Blank, Absent}, SSAEdits(c, pw)
  PROVE  AccountsKept
<1>1. Quiet /\ UNCHANGED <<accounts, settings, call, tokens>>
  BY DEF SSAEdits, BetweenRequests
<1>2. /\ ssa' \in [Codes -> Passwords \cup {Blank, Absent}] /\ session' \in Codes \cup {None}
      /\ chosen' \in [Codes -> Passwords \cup {Blank}]
      /\ chosen'[c] # Blank => accounts[c].source = "local" /\ chosen'[c] = chosen[c]
      /\ \A d \in Codes \ {c} : ssa'[d] = ssa[d] /\ chosen'[d] = chosen[d]
  BY DEF AccountsTyped, SSAEdits
<1>3. AccountsTyped' /\ ChoiceExists'
  BY <1>1, <1>2 DEF AccountsTyped, AccountsInv, ChoiceExists, Exists
<1>4. PasswordsKept'
  <2> SUFFICES ASSUME NEW d \in Codes, chosen'[d] # Blank
               PROVE  /\ Exists(d) /\ accounts[d].password = chosen'[d]
                      /\ accounts[d].source = "ssa" => ssa'[d] = chosen'[d]
    BY <1>1 DEF PasswordsKept, Exists
  <2>1. chosen'[d] = chosen[d] /\ (d = c => accounts[d].source = "local")
    BY <1>2
  <2>2. QED
    BY <1>2, <2>1 DEF AccountsInv, PasswordsKept
<1>5. QED
  BY <1>1, <1>3, <1>4, QuietKeeps

LEMMA OthersSwitchKeep ==
  ASSUME AccountsTyped, AccountsInv, NEW c \in Codes, SSASwitches(c)
  PROVE  AccountsKept
<1>1. /\ Quiet /\ session' = c
      /\ UNCHANGED <<accounts, settings, ssa, call, tokens, chosen>>
  BY DEF SSASwitches, BetweenRequests
<1>2. AccountsTyped' /\ ChoiceExists' /\ PasswordsKept'
  BY <1>1 DEF AccountsTyped, AccountsInv, ChoiceExists, PasswordsKept, Exists
<1>3. QED
  BY <1>1, <1>2, QuietKeeps

LEMMA PrintKeeps ==
  ASSUME OneWorker, AccountsTyped, AccountsInv, NEW w \in Workers, PrintUnderSession(w)
  PROVE  AccountsKept
BY ReturnsOnly DEF PrintUnderSession

LEMMA StartsKeep ==
  ASSUME OneWorker, AccountsTyped, AccountsInv, NEW w \in Workers,
         \/ \E op \in {"list", "sync", "print", "assets"} : Start(w, op, None, Blank)
         \/ \E op \in {"delete", "setDefault", "switch"}, c \in Codes : Start(w, op, c, Blank)
         \/ \E op \in {"create", "update"}, c \in Codes, pw \in Passwords : Start(w, op, c, pw)
  PROVE  AccountsKept
<1>1. ASSUME NEW op \in {"list", "sync", "print", "assets"}, Start(w, op, None, Blank)
      PROVE  AccountsKept
  <2>1. op \in Ops /\ op # "delete" /\ op \notin {"create", "update"}
    BY DEF Ops
  <2>2. QED
    BY <1>1, <2>1, Starts
<1>2. ASSUME NEW op \in {"delete", "setDefault", "switch"}, NEW c \in Codes, Start(w, op, c, Blank)
      PROVE  AccountsKept
  <2>1. op \in Ops /\ op \notin {"create", "update"}
    BY DEF Ops
  <2>2. QED
    BY <1>2, <2>1, Starts
<1>3. ASSUME NEW op \in {"create", "update"}, NEW c \in Codes, NEW pw \in Passwords,
             Start(w, op, c, pw)
      PROVE  AccountsKept
  <2>1. op \in Ops /\ op # "delete"
    BY DEF Ops
  <2>2. QED
    BY <1>3, <2>1, Starts
<1>4. QED
  BY <1>1, <1>2, <1>3

LEMMA AccountStepKeeps ==
  ASSUME OneWorker, AccountsTyped, AccountsInv, AccountStep
  PROVE  AccountsKept
<1>1. ASSUME NEW w \in Workers,
             \/ \E op \in {"list", "sync", "print"} : Start(w, op, None, Blank)
             \/ \E op \in {"delete", "setDefault", "switch"}, c \in Codes : Start(w, op, c, Blank)
             \/ \E op \in {"create", "update"}, c \in Codes, pw \in Passwords : Start(w, op, c, pw)
      PROVE  AccountsKept
  BY <1>1, StartsKeep
<1>2. ASSUME NEW w \in Workers,
             \/ Fails(w)
             \/ ExportKdzsAccounts(w) \/ (\E c \in Codes : ImportAccount(w, c))
             \/ SaveSettings(w) \/ SwitchAfterSync(w)
      PROVE  AccountsKept
  BY <1>2, FailsKeep, ExportKeeps, ImportKeeps, SaveSettingsKeeps, SwitchAfterSyncKeeps
<1>3. ASSUME NEW w \in Workers,
             \/ ResolveAccount(w) \/ EnsureActiveSSASession(w) \/ PrintUnderSession(w)
             \/ InsertAccount(w) \/ AdoptFirst(w) \/ WriteAccount(w) \/ PushAccount(w)
      PROVE  AccountsKept
  BY <1>3, ResolveKeeps, EnsureKeeps, PrintKeeps, InsertKeeps, AdoptKeeps, WriteKeeps, PushKeeps
<1>4. ASSUME NEW w \in Workers,
             \/ CheckDelete(w) \/ DropAccount(w)
             \/ CheckDefault(w) \/ SwitchSession(w) \/ SaveChoice(w)
             \/ \E rotate \in BOOLEAN : IssueEnrollToken(w, rotate)
      PROVE  AccountsKept
  BY <1>4, CheckDeleteKeeps, DropKeeps, CheckDefaultKeeps, SwitchKeeps, SaveChoiceKeeps, IssueKeeps
<1>5. ASSUME NEW c \in Codes,
             \/ \E pw \in Passwords \cup {Blank, Absent} : SSAEdits(c, pw)
             \/ SSASwitches(c)
      PROVE  AccountsKept
  BY <1>5, EditsKeep, OthersSwitchKeep
<1>6. QED
  BY <1>1, <1>2, <1>3, <1>4, <1>5 DEF AccountStep

-----------------------------------------------------------------------------
(* The synchronisation of printing assets.                                 *)

LEMMA HasAsset ==
  ASSUME NEW R, NEW c, NEW a
  PROVE  a \in AssetsOf(R, c) <=> \E r \in R : r.acct = c /\ r.asset = a
BY DEF AssetsOf

\* The accounts stay as they are.
LEMMA AccountsStay ==
  ASSUME OneWorker, AccountsTyped, AccountsInv, NEW w \in Workers, call' \in [Workers -> Call],
         call'[w].pc \in AssetPCs \cup {"idle"},
         UNCHANGED <<accounts, settings, ssa, session, tokens, chosen>>
  PROVE  AccountsTyped' /\ AccountsInv'
<1>1. AccountsTyped' /\ ChoiceExists' /\ PasswordsKept'
  BY DEF AccountsTyped, AccountsInv, ChoiceExists, PasswordsKept, Exists
<1>2. Holds(call[w])'
  BY DEF Holds, AssetPCs, Storing, AfterAuths
<1>3. QED
  BY <1>1, <1>2 DEF AccountsInv, OneWorker

LEMMA ListsHold ==
  ASSUME OneWorker, NEW w \in Workers, ListHolds(w)'
  PROVE  \A v \in Workers : ListHolds(v)'
BY DEF OneWorker

\* What a step of a request that takes it out of the synchronisation keeps.
LEMMA AssetsUntouched ==
  ASSUME AssetsTyped, AssetsInv, UNCHANGED assetVars, \A v \in Workers : call'[v].pc \notin AssetPCs
  PROVE  AssetsTyped' /\ AssetsInv'
BY DEF AssetsTyped, AssetsInv, AssetsOfRightAccount, MirrorsKdzs, assetVars, ListHolds

LEMMA LabelKeeps ==
  ASSUME OneWorker, Inv, NEW w \in Workers, activeKdzsAccountLabel(w)
  PROVE  Inv'
<1>1. /\ call[w] \in Call /\ call[w].pc = "ready" /\ Holds(call[w]) /\ settings \in Settings
      /\ list \in [Workers -> List]
  BY DEF Inv, AccountsTyped, AssetsTyped, AccountsInv, activeKdzsAccountLabel, At
<1>2. PICK label \in {Effective(settings)} \cup (IF "dbError" \in Faults THEN {None} ELSE {}) :
        /\ list' = [list EXCEPT ![w] = [NoList EXCEPT !.label = label, !.clean = label # None]]
        /\ synced' = synced \ {label}
  BY DEF activeKdzsAccountLabel
<1>3. label \in Codes \cup {None} /\ (label # None => session = label)
  BY <1>1, <1>2 DEF Holds, Effective, Settings
<1> DEFINE l == [NoList EXCEPT !.label = label, !.clean = label # None]
<1>4. l \in List /\ l.label = label /\ l.clean = (label # None)
  BY <1>3 DEF List, NoList
<1>5. list' = [list EXCEPT ![w] = l] /\ GoTo(w, "auths")
      /\ UNCHANGED <<accounts, settings, ssa, session, tokens, chosen, remote, rows>>
  BY <1>2 DEF activeKdzsAccountLabel
<1> HIDE DEF l
<1>6. call' \in [Workers -> Call] /\ call'[w].pc = "auths"
  <2>1. "auths" \in PCs
    BY DEF PCs
  <2>2. QED
    BY <1>5, <2>1, Goes DEF Inv
<1>7. AccountsTyped' /\ AccountsInv'
  BY <1>5, <1>6, AccountsStay DEF Inv, AssetPCs
<1>8. list'[w] = l /\ AssetsTyped'
  BY <1>1, <1>2, <1>4, <1>5 DEF Inv, AssetsTyped
<1>9. AssetsOfRightAccount' /\ MirrorsKdzs'
  BY <1>2, <1>5 DEF Inv, AssetsInv, AssetsOfRightAccount, MirrorsKdzs
<1>10. ListHolds(w)'
  BY <1>2, <1>3, <1>4, <1>5, <1>6, <1>8 DEF ListHolds, Storing, Pruning, AfterAuths
<1>11. QED
  BY <1>7, <1>8, <1>9, <1>10, ListsHold DEF Inv, AssetsInv

\* The list is of the account of the session, which is the one of the label.
LEMMA ListKeeps ==
  ASSUME OneWorker, Inv, NEW w \in Workers, ListAssets(w)
  PROVE  Inv'
<1>1. /\ call[w] \in Call /\ call[w].pc \in {"auths", "templates"} /\ session \in Codes
      /\ list \in [Workers -> List] /\ list[w] \in List /\ ListHolds(w)
      /\ remote \in [Codes -> SUBSET (Auths \cup Templates)]
  BY DEF Inv, AccountsTyped, AssetsTyped, AssetsInv, ListAssets
<1> DEFINE offered == remote[session] \cap Kind(w)
<1>2. PICK items \in SUBSET offered, complete \in BOOLEAN :
        /\ complete => items = offered
        /\ list' = [list EXCEPT ![w].items = items, ![w].from = session,
                                ![w].complete = complete, ![w].clean = @ /\ complete]
  BY DEF ListAssets
<1> DEFINE l == [list[w] EXCEPT !.items = items, !.from = session, !.complete = complete,
                                !.clean = list[w].clean /\ complete]
<1>3. items \in SUBSET (Auths \cup Templates)
  BY <1>1, <1>2
<1>4. /\ l \in List /\ l.label = list[w].label /\ l.from = session /\ l.items = items
      /\ l.complete = complete /\ l.clean = (list[w].clean /\ complete)
  BY <1>1, <1>3 DEF List
<1>5. list' = [list EXCEPT ![w] = l]
  BY <1>1, <1>2
<1>6. UNCHANGED <<accounts, settings, ssa, session, tokens, chosen, remote, rows, synced>>
  BY DEF ListAssets
<1> HIDE DEF l
<1>7. /\ call' \in [Workers -> Call]
      /\ call[w].pc = "auths" => call'[w].pc = "storeAuths"
      /\ call[w].pc = "templates" => call'[w].pc = "storeTemplates"
  <2>1. "storeAuths" \in PCs /\ "storeTemplates" \in PCs
    BY DEF PCs
  <2>2. QED
    BY <1>1, <2>1, Goes DEF Inv, ListAssets, At
<1>8. AccountsTyped' /\ AccountsInv'
  BY <1>1, <1>6, <1>7, AccountsStay DEF Inv, AssetPCs, Storing
<1>9. list'[w] = l /\ AssetsTyped'
  BY <1>1, <1>4, <1>5, <1>6 DEF Inv, AssetsTyped
<1>10. AssetsOfRightAccount' /\ MirrorsKdzs'
  BY <1>6 DEF Inv, AssetsInv, AssetsOfRightAccount, MirrorsKdzs
<1>11. Kind(w)' = Kind(w)
  BY <1>1, <1>7 DEF Kind
<1>12. ListHolds(w)'
  <2>1. /\ list[w].label # None => session = list[w].label /\ list[w].label \notin synced
        /\ list[w].clean => list[w].label # None
        /\ (call[w].pc = "templates" /\ list[w].clean) =>
             AssetsOf(rows, list[w].label) \cap Auths = remote[list[w].label] \cap Auths
    BY <1>1 DEF ListHolds, AssetPCs, AfterAuths
  <2>2. l.label # None => /\ l.from = l.label
                          /\ l.complete => l.items = remote[l.label] \cap Kind(w)
    BY <1>2, <1>4, <2>1
  <2>3. call'[w].pc \notin Pruning
    BY <1>1, <1>7 DEF Pruning
  <2>4. (call'[w].pc \in AfterAuths /\ l.clean) =>
          AssetsOf(rows, l.label) \cap Auths = remote[l.label] \cap Auths
    BY <1>1, <1>4, <1>7, <2>1 DEF AfterAuths
  <2>5. QED
    BY <1>4, <1>6, <1>9, <1>11, <2>1, <2>2, <2>3, <2>4 DEF ListHolds
<1>13. QED
  BY <1>8, <1>9, <1>10, <1>12, ListsHold DEF Inv, AssetsInv

LEMMA PassOverKeeps ==
  ASSUME OneWorker, Inv, NEW w \in Workers, PassOverAuths(w)
  PROVE  Inv'
<1>1. /\ call[w] \in Call /\ call[w].pc = "auths" /\ ListHolds(w)
      /\ list \in [Workers -> List] /\ list[w] \in List
  BY DEF Inv, AccountsTyped, AssetsTyped, AssetsInv, PassOverAuths, At
<1> DEFINE l == [list[w] EXCEPT !.clean = FALSE]
<1>2. l \in List /\ l.label = list[w].label /\ ~l.clean
  BY <1>1 DEF List
<1>3. /\ list' = [list EXCEPT ![w] = l] /\ GoTo(w, "templates")
      /\ UNCHANGED <<accounts, settings, ssa, session, tokens, chosen, remote, rows, synced>>
  BY <1>1 DEF PassOverAuths
<1> HIDE DEF l
<1>4. call' \in [Workers -> Call] /\ call'[w].pc = "templates"
  <2>1. "templates" \in PCs
    BY DEF PCs
  <2>2. QED
    BY <1>3, <2>1, Goes DEF Inv
<1>5. AccountsTyped' /\ AccountsInv'
  BY <1>3, <1>4, AccountsStay DEF Inv, AssetPCs, AfterAuths
<1>6. list'[w] = l /\ AssetsTyped'
  BY <1>1, <1>2, <1>3 DEF Inv, AssetsTyped
<1>7. AssetsOfRightAccount' /\ MirrorsKdzs'
  BY <1>3 DEF Inv, AssetsInv, AssetsOfRightAccount, MirrorsKdzs
<1>8. ListHolds(w)'
  BY <1>1, <1>2, <1>3, <1>4, <1>6 DEF ListHolds, AssetPCs, Storing, Pruning, AfterAuths
<1>9. QED
  BY <1>5, <1>6, <1>7, <1>8, ListsHold DEF Inv, AssetsInv

\* Storing adds the stored assets to the account's, and touches no other account.
LEMMA Stored ==
  ASSUME NEW label, NEW from, NEW stored,
         \A r : r \in rows' <=> \/ r \in rows /\ ~(r.acct = label /\ r.asset \in stored)
                                \/ \E a \in stored : r = RowOf(label, a, from)
  PROVE  /\ \A c : c # label => \A a : a \in AssetsOf(rows', c) <=> a \in AssetsOf(rows, c)
         /\ \A a : a \in AssetsOf(rows', label) <=> a \in AssetsOf(rows, label) \/ a \in stored
<1>1. \A a : RowOf(label, a, from).acct = label /\ RowOf(label, a, from).asset = a
  BY DEF RowOf
<1>2. ASSUME NEW c, c # label, NEW a PROVE a \in AssetsOf(rows', c) <=> a \in AssetsOf(rows, c)
  BY <1>1, <1>2, HasAsset
<1>3. ASSUME NEW a PROVE a \in AssetsOf(rows', label) <=> a \in AssetsOf(rows, label) \/ a \in stored
  <2>1. ASSUME a \in stored PROVE a \in AssetsOf(rows', label)
    BY <1>1, <2>1, HasAsset
  <2>2. ASSUME a \in AssetsOf(rows, label), a \notin stored PROVE a \in AssetsOf(rows', label)
    BY <2>2, HasAsset
  <2>3. ASSUME a \in AssetsOf(rows', label) PROVE a \in AssetsOf(rows, label) \/ a \in stored
    BY <1>1, <2>3, HasAsset
  <2>4. QED
    BY <2>1, <2>2, <2>3
<1>4. QED
  BY <1>2, <1>3

LEMMA StoreKeeps ==
  ASSUME OneWorker, Inv, NEW w \in Workers, StoreAssets(w)
  PROVE  Inv'
<1>1. /\ call[w] \in Call /\ call[w].pc \in {"storeAuths", "storeTemplates"} /\ ListHolds(w)
      /\ list \in [Workers -> List] /\ list[w] \in List /\ rows \subseteq Rows
      /\ remote \in [Codes -> SUBSET (Auths \cup Templates)]
  BY DEF Inv, AccountsTyped, AssetsTyped, AssetsInv, StoreAssets
<1> DEFINE label == list[w].label
           items == list[w].items
           from == list[w].from
<1>2. PICK stored \in SUBSET items :
        /\ rows' = (rows \ UNION {FindAsset(label, a) : a \in stored})
                   \cup {RowOf(label, a, from) : a \in stored}
        /\ list' = [list EXCEPT ![w].clean = @ /\ stored = items]
  BY DEF StoreAssets
<1> DEFINE l == [list[w] EXCEPT !.clean = list[w].clean /\ stored = items]
<1>3. /\ l \in List /\ l.label = label /\ l.items = items /\ l.from = from
      /\ l.complete = list[w].complete /\ l.clean = (list[w].clean /\ stored = items)
  BY <1>1 DEF List
<1>4. /\ list' = [list EXCEPT ![w] = l]
      /\ UNCHANGED <<accounts, settings, ssa, session, tokens, chosen, remote, synced>>
  BY <1>1, <1>2 DEF StoreAssets
<1> HIDE DEF l
<1>5. /\ call' \in [Workers -> Call]
      /\ call[w].pc = "storeAuths" => call'[w].pc = "pruneAuths"
      /\ call[w].pc = "storeTemplates" => call'[w].pc = "pruneTemplates"
  <2>1. "pruneAuths" \in PCs /\ "pruneTemplates" \in PCs
    BY DEF PCs
  <2>2. QED
    BY <1>1, <2>1, Goes DEF Inv, StoreAssets, At
<1>6. AccountsTyped' /\ AccountsInv'
  BY <1>1, <1>4, <1>5, AccountsStay DEF Inv, AssetPCs, Storing
<1>7. /\ label \in Codes \cup {None} /\ from \in Codes \cup {None}
      /\ items \subseteq Auths \cup Templates
      /\ label # None => session = label /\ label \notin synced
      /\ list[w].clean => label # None /\ list[w].complete
      /\ label # None => from = label /\ (list[w].complete => items = remote[label] \cap Kind(w))
      /\ (call[w].pc = "storeTemplates" /\ list[w].clean) =>
           \A a \in Auths : a \in AssetsOf(rows, label) <=> a \in remote[label]
  <2>1. list[w].label \in Codes \cup {None} /\ list[w].from \in Codes \cup {None}
        /\ list[w].items \subseteq Auths \cup Templates
    BY <1>1 DEF List
  <2>2. (call[w].pc = "storeTemplates" /\ list[w].clean) =>
          AssetsOf(rows, label) \cap Auths = remote[label] \cap Auths
    BY <1>1 DEF ListHolds, AssetPCs, Storing, AfterAuths
  <2>3. /\ label # None => session = label /\ label \notin synced
        /\ list[w].clean => label # None /\ list[w].complete
        /\ label # None => from = label /\ (list[w].complete => items = remote[label] \cap Kind(w))
    BY <1>1 DEF ListHolds, AssetPCs, Storing
  <2>4. QED
    BY <2>1, <2>2, <2>3
<1> HIDE DEF label, items, from
<1>8. /\ \A c : c # label => \A a : a \in AssetsOf(rows', c) <=> a \in AssetsOf(rows, c)
      /\ \A a : a \in AssetsOf(rows', label) <=> a \in AssetsOf(rows, label) \/ a \in stored
      /\ \A r \in rows' : r \in rows \/ \E a \in stored : r = RowOf(label, a, from)
  <2>1. \A r : r \in rows' <=> \/ r \in rows /\ ~(r.acct = label /\ r.asset \in stored)
                               \/ \E a \in stored : r = RowOf(label, a, from)
    BY <1>2 DEF FindAsset
  <2>2. QED
    BY <2>1, Stored
<1>9. rows' \subseteq Rows
  BY <1>1, <1>2, <1>7, <1>8 DEF RowOf, Rows
<1>10. list'[w] = l /\ AssetsTyped'
  BY <1>1, <1>3, <1>4, <1>9 DEF Inv, AssetsTyped
<1>11. AssetsOfRightAccount'
  <2> SUFFICES ASSUME NEW r \in rows', r.acct # None PROVE r.from = r.acct
    BY DEF AssetsOfRightAccount
  <2>1. CASE r \in rows
    BY <2>1 DEF Inv, AssetsInv, AssetsOfRightAccount
  <2>2. ASSUME NEW a \in stored, r = RowOf(label, a, from) PROVE r.from = r.acct
    BY <1>7, <2>2 DEF RowOf
  <2>3. QED
    BY <1>8, <2>1, <2>2
<1>12. MirrorsKdzs'
  <2> SUFFICES ASSUME NEW c \in synced PROVE AssetsOf(rows', c) = remote[c]
    BY <1>4 DEF MirrorsKdzs, AssetsOf
  <2>1. c # label
    BY <1>7, KdzsAccountsAssumption DEF Inv, AssetsTyped
  <2>2. AssetsOf(rows, c) = remote[c]
    BY DEF Inv, AssetsInv, MirrorsKdzs, AssetsOf
  <2>3. \A a : a \in AssetsOf(rows', c) <=> a \in AssetsOf(rows, c)
    BY <1>8, <2>1
  <2>4. QED
    BY <2>2, <2>3
<1>13. Kind(w)' = Kind(w)
  BY <1>1, <1>5 DEF Kind
<1>14. ListHolds(w)'
  <2> DEFINE now == AssetsOf(rows', label)
  <2>1. \A a : a \in now <=> a \in AssetsOf(rows, label) \/ a \in stored
    BY <1>8
  <2>2. l.clean => items \subseteq now
    BY <1>2, <1>3, <2>1
  <2>3. (call'[w].pc \in AfterAuths /\ l.clean) => now \cap Auths = remote[label] \cap Auths
    <3>1. SUFFICES ASSUME call'[w].pc \in AfterAuths, l.clean
                   PROVE  now \cap Auths = remote[label] \cap Auths
      OBVIOUS
    <3>2. call[w].pc = "storeTemplates"
      BY <1>1, <1>5, <3>1 DEF AfterAuths
    <3>3. list[w].clean /\ items \subseteq Templates
      BY <1>3, <1>7, <3>1, <3>2 DEF Kind
    <3>4. \A a \in Auths : a \in now <=> a \in AssetsOf(rows, label)
      BY <1>2, <2>1, <3>3, PrintAssetsAssumption
    <3> HIDE DEF now
    <3>5. QED
      BY <1>7, <3>2, <3>3, <3>4
  <2> HIDE DEF now
  <2>4. now = AssetsOf(rows', l.label)
    BY <1>3 DEF now
  <2>5. /\ l.label # None => session = l.label /\ l.label \notin synced
        /\ l.clean => l.label # None /\ l.complete
        /\ l.label # None => /\ l.from = l.label
                             /\ l.complete => l.items = remote[l.label] \cap Kind(w)
    BY <1>3, <1>7
  <2>6. /\ l.clean => l.items \subseteq AssetsOf(rows', l.label)
        /\ (call'[w].pc \in AfterAuths /\ l.clean) =>
             AssetsOf(rows', l.label) \cap Auths = remote[l.label] \cap Auths
    BY <1>3, <2>2, <2>3, <2>4
  <2>7. QED
    BY <1>4, <1>10, <1>13, <2>5, <2>6 DEF ListHolds
<1>15. QED
  BY <1>6, <1>10, <1>11, <1>12, <1>14, ListsHold DEF Inv, AssetsInv

\* Deleting what the list does not have leaves the account with what the list has.
LEMMA Pruned ==
  ASSUME NEW gone, rows' = rows \ gone,
         NEW label, \A r \in gone : r.acct = label, NEW stale,
         \A r \in gone : r.asset \in stale
  PROVE  /\ \A c : c # label => \A a : a \in AssetsOf(rows', c) <=> a \in AssetsOf(rows, c)
         /\ \A a : a \notin stale =>
              (a \in AssetsOf(rows', label) <=> a \in AssetsOf(rows, label))
         /\ (\A r \in rows : (r.acct = label /\ r.asset \in stale) => r \in gone) =>
              \A a \in stale : a \notin AssetsOf(rows', label)
<1>1. ASSUME NEW c, c # label, NEW a PROVE a \in AssetsOf(rows', c) <=> a \in AssetsOf(rows, c)
  BY <1>1, HasAsset
<1>2. ASSUME NEW a, a \notin stale
      PROVE  a \in AssetsOf(rows', label) <=> a \in AssetsOf(rows, label)
  BY <1>2, HasAsset
<1>3. ASSUME \A r \in rows : (r.acct = label /\ r.asset \in stale) => r \in gone,
             NEW a \in stale
      PROVE  a \notin AssetsOf(rows', label)
  BY <1>3, HasAsset
<1>4. QED
  BY <1>1, <1>2, <1>3

LEMMA PruneKeeps ==
  ASSUME OneWorker, Inv, NEW w \in Workers, PruneAssets(w)
  PROVE  Inv'
<1>1. /\ call[w] \in Call /\ call[w].pc \in {"pruneAuths", "pruneTemplates"} /\ ListHolds(w)
      /\ list \in [Workers -> List] /\ list[w] \in List /\ rows \subseteq Rows
      /\ remote \in [Codes -> SUBSET (Auths \cup Templates)]
  BY DEF Inv, AccountsTyped, AssetsTyped, AssetsInv, PruneAssets
<1> DEFINE label == list[w].label
           items == list[w].items
           kind == Kind(w)
           stale == kind \ items
<1>2. PICK gone \in SUBSET Stale(w) :
        /\ rows' = rows \ gone
        /\ LET clean == list[w].clean /\ gone = Stale(w) IN
           IF At(w, "pruneAuths")
             THEN /\ GoTo(w, "templates")
                  /\ list' = [list EXCEPT ![w].clean = clean]
                  /\ UNCHANGED synced
           ELSE /\ Return(w)
                /\ list' = [list EXCEPT ![w] = NoList]
                /\ synced' = IF clean THEN synced \cup {list[w].label} ELSE synced
  BY DEF PruneAssets
<1>3. UNCHANGED <<accounts, settings, ssa, session, tokens, chosen, remote>>
  BY DEF PruneAssets
<1>4. /\ label \in Codes \cup {None}
      /\ label # None => session = label /\ label \notin synced
      /\ list[w].clean => /\ label # None /\ items = remote[label] \cap kind
                          /\ items \subseteq AssetsOf(rows, label)
      /\ (call[w].pc = "pruneTemplates" /\ list[w].clean) =>
           AssetsOf(rows, label) \cap Auths = remote[label] \cap Auths
  <2>1. label \in Codes \cup {None}
    BY <1>1 DEF List
  <2>2. /\ label # None => session = label /\ label \notin synced
        /\ list[w].clean => label # None /\ list[w].complete /\ items \subseteq AssetsOf(rows, label)
        /\ (label # None /\ list[w].complete) => items = remote[label] \cap kind
    BY <1>1 DEF ListHolds, AssetPCs, Storing, Pruning
  <2>3. (call[w].pc = "pruneTemplates" /\ list[w].clean) =>
          AssetsOf(rows, label) \cap Auths = remote[label] \cap Auths
    BY <1>1 DEF ListHolds, AssetPCs, Storing, AfterAuths
  <2>4. QED
    BY <2>1, <2>2, <2>3
<1>5. /\ \A r \in gone : r \in rows /\ r.acct = label /\ r.asset \in stale
      /\ gone = Stale(w) =>
           \A r \in rows : (r.acct = label /\ r.asset \in stale) => r \in gone
  BY <1>2 DEF Stale
<1> DEFINE clean == list[w].clean /\ gone = Stale(w)
<1>6. /\ call[w].pc = "pruneAuths" =>
           /\ GoTo(w, "templates") /\ UNCHANGED synced
           /\ list' = [list EXCEPT ![w].clean = clean]
      /\ call[w].pc = "pruneTemplates" =>
           /\ Return(w) /\ list' = [list EXCEPT ![w] = NoList]
           /\ synced' = IF clean THEN synced \cup {label} ELSE synced
  BY <1>2 DEF At
<1>7. /\ kind = (IF call[w].pc = "pruneAuths" THEN Auths ELSE Templates)
      /\ clean => list[w].clean /\ gone = Stale(w)
  BY <1>1 DEF Kind
<1> HIDE DEF label, items, kind, stale, clean
<1>8. /\ \A c : c # label => \A a : a \in AssetsOf(rows', c) <=> a \in AssetsOf(rows, c)
      /\ \A a : a \notin stale =>
           (a \in AssetsOf(rows', label) <=> a \in AssetsOf(rows, label))
      /\ gone = Stale(w) => \A a \in stale : a \notin AssetsOf(rows', label)
  <2>1. rows' = rows \ gone /\ \A r \in gone : r.acct = label /\ r.asset \in stale
    BY <1>2, <1>5
  <2>2. QED
    BY <1>5, <2>1, Pruned
<1>9. clean => AssetsOf(rows', label) \cap kind = remote[label] \cap kind
  <2> SUFFICES ASSUME clean PROVE \A a \in kind : a \in AssetsOf(rows', label) <=> a \in remote[label]
    OBVIOUS
  <2>1. items = remote[label] \cap kind /\ items \subseteq AssetsOf(rows, label)
    BY <1>4, <1>7
  <2>2. \A a \in kind \ items : a \notin AssetsOf(rows', label)
    BY <1>7, <1>8 DEF stale
  <2>3. \A a \in items : a \in AssetsOf(rows', label)
    BY <1>8, <2>1 DEF stale
  <2>4. QED
    BY <2>1, <2>2, <2>3
<1>10. rows' \subseteq Rows /\ AssetsOfRightAccount'
  BY <1>1, <1>2 DEF Inv, AssetsInv, AssetsOfRightAccount
<1>11. \A c \in synced : AssetsOf(rows', c) = remote'[c]
  <2> SUFFICES ASSUME NEW c \in synced PROVE AssetsOf(rows', c) = remote[c]
    BY <1>3
  <2>1. c # label
    BY <1>4, KdzsAccountsAssumption DEF Inv, AssetsTyped
  <2>2. AssetsOf(rows, c) = remote[c]
    BY DEF Inv, AssetsInv, MirrorsKdzs, AssetsOf
  <2>3. QED
    BY <1>8, <2>1, <2>2
<1>12. CASE call[w].pc = "pruneAuths"
  <2> DEFINE l == [list[w] EXCEPT !.clean = clean]
  <2>1. l \in List /\ l.label = label /\ l.clean = clean
    BY <1>1 DEF List, clean, label
  <2>2. list' = [list EXCEPT ![w] = l] /\ UNCHANGED synced
    BY <1>1, <1>6, <1>12
  <2> HIDE DEF l
  <2>3. call' \in [Workers -> Call] /\ call'[w].pc = "templates"
    <3>1. "templates" \in PCs
      BY DEF PCs
    <3>2. QED
      BY <1>6, <1>12, <3>1, Goes DEF Inv
  <2>4. AccountsTyped' /\ AccountsInv'
    BY <1>3, <2>3, AccountsStay DEF Inv, AssetPCs, AfterAuths
  <2>5. list'[w] = l /\ AssetsTyped'
    BY <1>1, <1>3, <1>10, <2>1, <2>2 DEF Inv, AssetsTyped
  <2>6. MirrorsKdzs'
    BY <1>11, <2>2 DEF MirrorsKdzs, AssetsOf
  <2>7. clean => label # None /\ AssetsOf(rows', label) \cap Auths = remote[label] \cap Auths
    BY <1>4, <1>7, <1>9, <1>12
  <2>8. ListHolds(w)'
    BY <1>3, <1>4, <2>1, <2>2, <2>3, <2>5, <2>7 DEF ListHolds, Storing, Pruning
  <2>9. QED
    BY <1>10, <2>4, <2>5, <2>6, <2>8, ListsHold DEF Inv, AssetsInv
<1>13. CASE call[w].pc = "pruneTemplates"
  <2>1. call' \in [Workers -> Call] /\ call'[w].pc = "idle"
    BY <1>6, <1>13, Returns DEF Inv
  <2>2. AccountsTyped' /\ AccountsInv'
    BY <1>3, <2>1, AccountsStay DEF Inv
  <2>3. NoList \in List
    BY DEF NoList, List
  <2>4. list' \in [Workers -> List] /\ synced' = IF clean THEN synced \cup {label} ELSE synced
    BY <1>1, <1>6, <1>13, <2>3
  <2>5. clean => label \in Codes
    BY <1>4, <1>7
  <2>6. AssetsTyped'
    BY <1>3, <1>10, <2>4, <2>5 DEF Inv, AssetsTyped
  <2>7. ASSUME clean PROVE AssetsOf(rows', label) = remote[label]
    <3>1. AssetsOf(rows', label) \subseteq Auths \cup Templates
      BY <1>10, HasAsset DEF Rows
    <3>2. remote[label] \subseteq Auths \cup Templates
      BY <1>1, <2>5, <2>7
    <3>3. \A a \in Templates : a \in AssetsOf(rows', label) <=> a \in remote[label]
      BY <1>7, <1>9, <1>13, <2>7
    <3>4. \A a \in Auths : a \in AssetsOf(rows', label) <=> a \in AssetsOf(rows, label)
      BY <1>7, <1>8, <1>13, PrintAssetsAssumption DEF stale
    <3>5. \A a \in Auths : a \in AssetsOf(rows, label) <=> a \in remote[label]
      BY <1>4, <1>7, <1>13, <2>7
    <3>6. QED
      BY <3>1, <3>2, <3>3, <3>4, <3>5
  <2>8. MirrorsKdzs'
    <3>1. \A c \in synced' : AssetsOf(rows', c) = remote'[c]
      BY <1>3, <1>11, <2>4, <2>7
    <3>2. QED
      BY <3>1 DEF MirrorsKdzs, AssetsOf
  <2>9. ListHolds(w)'
    BY <2>1 DEF ListHolds, AssetPCs, Storing, AfterAuths
  <2>10. QED
    BY <1>10, <2>2, <2>6, <2>8, <2>9, ListsHold DEF Inv, AssetsInv
<1>14. QED
  BY <1>1, <1>12, <1>13

LEMMA RemoteKeeps ==
  ASSUME Inv, NEW c \in Codes, NEW offer \in Offers, RemoteChanges(c, offer)
  PROVE  Inv'
<1>1. /\ Quiet /\ UNCHANGED <<accounts, settings, ssa, session, call, tokens, chosen, rows, list>>
      /\ remote' = [remote EXCEPT ![c] = offer] /\ synced' = synced \ {c}
  BY DEF RemoteChanges, BetweenRequests
<1>2. \A v \in Workers : call'[v].pc = "idle"
  BY <1>1, IdleCall DEF Quiet
<1>3. AccountsTyped' /\ ChoiceExists' /\ PasswordsKept'
  BY <1>1 DEF Inv, AccountsTyped, AccountsInv, ChoiceExists, PasswordsKept, Exists
<1>4. AccountsInv'
  BY <1>1, <1>3, QuietKeeps DEF AccountsKept
<1>5. AssetsTyped'
  BY <1>1, PrintAssetsAssumption DEF Inv, AssetsTyped
<1>6. \A d \in synced' : remote'[d] = remote[d]
  BY <1>1 DEF Inv, AssetsTyped
<1>7. AssetsOfRightAccount' /\ MirrorsKdzs'
  BY <1>1, <1>6 DEF Inv, AssetsInv, AssetsOfRightAccount, MirrorsKdzs
<1>8. \A v \in Workers : ListHolds(v)'
  BY <1>2 DEF ListHolds, AssetPCs, Storing, AfterAuths
<1>9. QED
  BY <1>3, <1>4, <1>5, <1>7, <1>8 DEF Inv, AssetsInv

-----------------------------------------------------------------------------
(* The invariant.                                                          *)

LEMMA InitHolds == Init => Inv
<1> SUFFICES ASSUME Init PROVE Inv
  OBVIOUS
<1>1. AccountsTyped
  <2>1. NoAccount \in Account /\ Idle.st \in Settings
    BY IdleCall DEF NoAccount, Account, Call
  <2>2. QED
    BY <2>1, IdleCall DEF Init, InitAccounts, AccountsTyped
<1>2. \A w \in Workers : call[w].pc = "idle"
  BY IdleCall DEF Init, InitAccounts
<1>3. AssetsTyped
  <2>1. NoList \in List
    BY DEF NoList, List
  <2>2. rows \subseteq Rows
    BY PrintAssetsAssumption DEF Init, RowOf, Rows
  <2>3. QED
    BY <2>1, <2>2, PrintAssetsAssumption DEF Init, AssetsTyped
<1>4. settings.default = None /\ settings.active = None
  BY DEF Init, InitAccounts, Idle
<1>5. ChoiceExists /\ PasswordsKept
  BY <1>4 DEF Init, InitAccounts, ChoiceExists, PasswordsKept
<1>6. \A w \in Workers : Holds(call[w]) /\ ListHolds(w)
  BY <1>2 DEF Holds, ListHolds, AssetPCs, Storing, AfterAuths
<1>7. AssetsOfRightAccount /\ MirrorsKdzs
  BY DEF Init, AssetsOfRightAccount, MirrorsKdzs, RowOf
<1>8. QED
  BY <1>1, <1>3, <1>5, <1>6, <1>7 DEF Inv, AccountsInv, AssetsInv

LEMMA NextHolds ==
  ASSUME OneWorker, Inv, [Next]_vars
  PROVE  Inv'
<1>1. CASE AccountStep /\ UNCHANGED assetVars
  <2>1. AccountsKept
    BY <1>1, AccountStepKeeps DEF Inv
  <2>2. QED
    BY <1>1, <2>1, AssetsUntouched DEF Inv, AccountsKept
<1>2. ASSUME NEW w \in Workers, Start(w, "assets", None, Blank), UNCHANGED assetVars
      PROVE  Inv'
  <2>1. AccountsKept
    BY <1>2, StartsKeep DEF Inv
  <2>2. QED
    BY <1>2, <2>1, AssetsUntouched DEF Inv, AccountsKept
<1>3. ASSUME NEW w \in Workers,
             \/ activeKdzsAccountLabel(w)
             \/ ListAssets(w) \/ PassOverAuths(w) \/ StoreAssets(w) \/ PruneAssets(w)
      PROVE  Inv'
  BY <1>3, LabelKeeps, ListKeeps, PassOverKeeps, StoreKeeps, PruneKeeps
<1>4. ASSUME NEW c \in Codes, NEW offer \in Offers, RemoteChanges(c, offer)
      PROVE  Inv'
  BY <1>4, RemoteKeeps
<1>5. CASE UNCHANGED vars
  <2>1. AccountsTyped' /\ AssetsTyped'
    BY <1>5 DEF vars, accountVars, assetVars, Inv, AccountsTyped, AssetsTyped
  <2>2. ChoiceExists' /\ PasswordsKept' /\ \A w \in Workers : Holds(call[w])'
    BY <1>5 DEF vars, accountVars, Inv, AccountsInv, ChoiceExists, PasswordsKept, Exists, Holds
  <2>3. AssetsOfRightAccount' /\ MirrorsKdzs' /\ \A w \in Workers : ListHolds(w)'
    BY <1>5 DEF vars, accountVars, assetVars, Inv, AssetsInv, AssetsOfRightAccount, MirrorsKdzs,
                ListHolds, Kind
  <2>4. QED
    BY <2>1, <2>2, <2>3 DEF Inv, AccountsInv, AssetsInv
<1>6. QED
  BY <1>1, <1>2, <1>3, <1>4, <1>5 DEF Next

LEMMA InvHolds ==
  ASSUME OneWorker
  PROVE  Spec => []Inv
<1>1. Inv /\ [Next]_vars => Inv'
  BY NextHolds
<1>2. QED
  BY <1>1, InitHolds, PTL DEF Spec

\* The default and the active account are always in the table: nothing that
\* fails, and nothing SSA exports, leaves a choice without its account.
THEOREM ChoiceInTable ==
  ASSUME OneWorker
  PROVE  Spec => []ChoiceExists
<1>1. Inv => ChoiceExists
  BY DEF Inv, AccountsInv
<1>2. QED
  BY <1>1, InvHolds, PTL

\* The password a user gave an account is not lost to an import: SSA was given
\* the same one, or the account is the user's own.
THEOREM PasswordsHold ==
  ASSUME OneWorker
  PROVE  Spec => []ChosenPasswordHolds
<1>1. Inv => ChosenPasswordHolds
  BY DEF Inv, AccountsInv, PasswordsKept, ChosenPasswordHolds
<1>2. QED
  BY <1>1, InvHolds, PTL

\* A print call is made under the account that is active here.
THEOREM PrintsUnderChosen ==
  ASSUME OneWorker
  PROVE  Spec => []PrintsUnderActive
<1>1. Inv => PrintsUnderActive
  BY DEF Inv, AccountsInv, Holds, PrintsUnderActive, At
<1>2. QED
  BY <1>1, InvHolds, PTL

\* What is stored under an account was listed under that account's session.
THEOREM AssetsLabelled ==
  ASSUME OneWorker
  PROVE  Spec => []AssetsOfRightAccount
<1>1. Inv => AssetsOfRightAccount
  BY DEF Inv, AssetsInv
<1>2. QED
  BY <1>1, InvHolds, PTL

\* After a whole synchronisation the rows of the account are what it has in kdzs.
THEOREM MirrorHolds ==
  ASSUME OneWorker
  PROVE  Spec => []MirrorsKdzs
<1>1. Inv => MirrorsKdzs
  BY DEF Inv, AssetsInv
<1>2. QED
  BY <1>1, InvHolds, PTL

\* Storing and pruning keep every asset the account still has.
LEMMA OfferedStep ==
  ASSUME Inv, [Next]_vars, NEW r \in rows, r.acct # None, r.asset \in remote[r.acct]
  PROVE  \E q \in rows' : q.acct = r.acct /\ q.asset = r.asset
<1> DEFINE c == r.acct
<1>1. SUFFICES r.asset \in AssetsOf(rows', c)
  BY HasAsset
<1>2. r.asset \in AssetsOf(rows, c)
  BY HasAsset
<1> HIDE DEF c
<1>3. CASE UNCHANGED rows
  BY <1>2, <1>3
<1>4. ASSUME NEW w \in Workers, StoreAssets(w) PROVE r.asset \in AssetsOf(rows', c)
  <2> DEFINE label == list[w].label
             from == list[w].from
  <2>1. PICK stored \in SUBSET list[w].items :
          rows' = (rows \ UNION {FindAsset(label, a) : a \in stored})
                  \cup {RowOf(label, a, from) : a \in stored}
    BY <1>4 DEF StoreAssets
  <2> HIDE DEF label, from
  <2>2. \A q : q \in rows' <=> \/ q \in rows /\ ~(q.acct = label /\ q.asset \in stored)
                               \/ \E a \in stored : q = RowOf(label, a, from)
    BY <2>1 DEF FindAsset
  <2>3. QED
    BY <1>2, <2>2, Stored
<1>5. ASSUME NEW w \in Workers, PruneAssets(w) PROVE r.asset \in AssetsOf(rows', c)
  <2>1. PICK gone \in SUBSET Stale(w) : rows' = rows \ gone /\ (~list[w].complete => gone = {})
    BY <1>5 DEF PruneAssets
  <2>2. SUFFICES r \notin gone
    BY <2>1, HasAsset DEF c
  <2>3. SUFFICES ASSUME r \in gone PROVE FALSE
    OBVIOUS
  <2>4. /\ list[w].complete /\ r.acct = list[w].label
        /\ r.asset \in Kind(w) /\ r.asset \notin list[w].items
    BY <2>1, <2>3 DEF Stale
  <2>5. list[w].items = remote[list[w].label] \cap Kind(w)
    BY <1>5, <2>4 DEF Inv, AssetsInv, ListHolds, PruneAssets, AssetPCs, Storing
  <2>6. QED
    BY <2>4, <2>5
<1>6. UNCHANGED rows \/ \E w \in Workers : StoreAssets(w) \/ PruneAssets(w)
  BY DEF Next, vars, assetVars, activeKdzsAccountLabel, ListAssets, PassOverAuths, RemoteChanges
<1>7. QED
  BY <1>3, <1>4, <1>5, <1>6

\* An asset the account still has is never deleted here.
THEOREM OfferedStays ==
  ASSUME OneWorker
  PROVE  Spec => OfferedKept
<1>1. Inv /\ [Next]_vars =>
        [\A r \in rows : r.acct # None /\ r.asset \in remote[r.acct] =>
           \E q \in rows' : q.acct = r.acct /\ q.asset = r.asset]_vars
  BY OfferedStep
<1>2. QED
  BY <1>1, InvHolds, PTL DEF Spec, OfferedKept

\* The two columns of the choice are written without touching the third.
LEMMA TokenStep ==
  ASSUME Inv, [Next]_vars
  PROVE  \/ settings'.token = settings.token /\ tokens' = tokens
         \/ tokens' = tokens + 1 /\ settings'.token = tokens'
<1>1. settings \in Settings
  BY DEF Inv, AccountsTyped
<1>2. \A x, y : [settings EXCEPT !.default = x, !.active = y].token = settings.token
  BY <1>1 DEF Settings
<1>3. ASSUME NEW w \in Workers, SaveSettings(w)
      PROVE  settings'.token = settings.token /\ tokens' = tokens
  <2>1. call[w].st = settings
    BY <1>3 DEF Inv, AccountsInv, Holds, SaveSettings, At
  <2>2. \E x, y : settings' = [call[w].st EXCEPT !.default = x, !.active = y]
    BY <1>3 DEF SaveSettings
  <2>3. tokens' = tokens
    BY <1>3 DEF SaveSettings
  <2>4. QED
    BY <1>2, <2>1, <2>2, <2>3
<1>4. ASSUME NEW w \in Workers, ResolveAccount(w) \/ AdoptFirst(w) \/ SaveChoice(w)
      PROVE  settings'.token = settings.token /\ tokens' = tokens
  <2>1. /\ tokens' = tokens
        /\ \/ UNCHANGED settings
           \/ \E x : \/ settings' = [settings EXCEPT !.default = x]
                    \/ settings' = [settings EXCEPT !.active = x]
                    \/ settings' = [settings EXCEPT !.default = x, !.active = x]
                    \/ settings' = [settings EXCEPT !.active = x, !.default = x]
    <3>1. CASE ResolveAccount(w)
      BY <3>1 DEF ResolveAccount
    <3>2. CASE AdoptFirst(w)
      BY <3>2 DEF AdoptFirst
    <3>3. CASE SaveChoice(w)
      BY <3>3 DEF SaveChoice
    <3>4. QED
      BY <1>4, <3>1, <3>2, <3>3
  <2>2. ASSUME NEW x, \/ settings' = [settings EXCEPT !.default = x]
                      \/ settings' = [settings EXCEPT !.active = x]
                      \/ settings' = [settings EXCEPT !.default = x, !.active = x]
                      \/ settings' = [settings EXCEPT !.active = x, !.default = x]
        PROVE  settings'.token = settings.token
    BY <1>1, <2>2 DEF Settings
  <2>3. QED
    BY <2>1, <2>2
<1>5. ASSUME NEW w \in Workers, NEW rotate \in BOOLEAN, IssueEnrollToken(w, rotate)
      PROVE  tokens' = tokens + 1 /\ settings'.token = tokens'
  <2>1. tokens' = tokens + 1 /\ settings' = [settings EXCEPT !.token = tokens']
    BY <1>5 DEF IssueEnrollToken
  <2>2. QED
    BY <1>1, <2>1 DEF Settings
<1>6. \/ UNCHANGED <<settings, tokens>>
      \/ \E w \in Workers : \/ SaveSettings(w) \/ ResolveAccount(w) \/ AdoptFirst(w) \/ SaveChoice(w)
                            \/ \E rotate \in BOOLEAN : IssueEnrollToken(w, rotate)
  <2>1. CASE AccountStep
    BY <2>1 DEF AccountStep, Start, Fails, ExportKdzsAccounts, ImportAccount, SwitchAfterSync,
             EnsureActiveSSASession, PrintUnderSession, InsertAccount, WriteAccount, PushAccount,
             CheckDelete, DropAccount, CheckDefault, SwitchSession, SSAEdits, SSASwitches
  <2>2. QED
    BY <2>1 DEF Next, vars, accountVars, Start, activeKdzsAccountLabel, ListAssets, PassOverAuths,
             StoreAssets, PruneAssets, RemoteChanges
<1>7. QED
  BY <1>1, <1>3, <1>4, <1>5, <1>6

\* No write of the settings row brings an earlier enrol token back or drops it.
THEOREM TokenRotates ==
  ASSUME OneWorker
  PROVE  Spec => TokenOnlyRotated
<1>1. Inv /\ [Next]_vars =>
        [settings'.token # settings.token => tokens' = tokens + 1 /\ settings'.token = tokens']_accountVars
  BY TokenStep
<1>2. QED
  BY <1>1, InvHolds, PTL DEF Spec, TokenOnlyRotated

\* What the type invariant says beyond the types the other proofs need.
Tidy ==
  /\ remote \in [Codes -> Offers]
  /\ settings.token <= tokens
  /\ \A c \in Codes : accounts[c].source = "none" => accounts[c] = NoAccount

LEMMA TidyStep ==
  ASSUME Inv, Tidy, [Next]_vars
  PROVE  Tidy'
<1>1. remote' \in [Codes -> Offers]
  BY DEF Tidy, Next, vars, assetVars, activeKdzsAccountLabel, ListAssets, PassOverAuths,
         StoreAssets, PruneAssets, RemoteChanges
<1>2. settings'.token <= tokens'
  <2>1. settings.token <= tokens /\ settings.token \in Nat /\ tokens \in Nat
    BY DEF Tidy, Inv, AccountsTyped, Settings
  <2>2. QED
    BY <2>1, TokenStep
<1>3. accounts \in [Codes -> Account]
  BY DEF Inv, AccountsTyped
<1>4. ASSUME NEW c \in Codes, NEW y, accounts' = [accounts EXCEPT ![c] = y],
             y.source = "none" => y = NoAccount
      PROVE  \A d \in Codes : accounts'[d].source = "none" => accounts'[d] = NoAccount
  BY <1>3, <1>4 DEF Tidy
<1>5. ASSUME NEW w \in Workers, NEW c \in Codes, ImportAccount(w, c)
      PROVE  \E y : accounts' = [accounts EXCEPT ![c] = y] /\ (y.source = "none" => y = NoAccount)
  <2> DEFINE given == call[w].payload[c]
             keeps == given = Blank \/ (accounts[c].source = "local" /\ accounts[c].password # Blank)
             y == IF ~Exists(c) THEN [source |-> "ssa", password |-> given]
                  ELSE IF keeps THEN accounts[c] ELSE [accounts[c] EXCEPT !.password = given]
  <2>1. accounts' = [accounts EXCEPT ![c] = y]
    BY <1>3, <1>5 DEF ImportAccount
  <2>2. y.source # "none"
    BY <1>3 DEF Exists, Account
  <2> HIDE DEF y
  <2>3. QED
    BY <2>1, <2>2
<1>6. ASSUME NEW w \in Workers, WriteAccount(w), Exists(call[w].code)
      PROVE  /\ call[w].code \in Codes
             /\ \E y : /\ accounts' = [accounts EXCEPT ![call[w].code] = y]
                       /\ y.source # "none"
  <2> DEFINE c == call[w].code
             y == [accounts[c] EXCEPT !.password = call[w].password]
  <2>1. c \in Codes
    BY <1>6 DEF Inv, AccountsInv, Holds, WriteAccount, At
  <2>2. accounts' = [accounts EXCEPT ![c] = y]
    BY <1>3, <1>6, <2>1 DEF WriteAccount
  <2>3. y.source # "none"
    BY <1>3, <1>6, <2>1 DEF Exists, Account
  <2> HIDE DEF y
  <2>4. QED
    BY <2>1, <2>2, <2>3
<1>7. ASSUME NEW w \in Workers, InsertAccount(w), ~Exists(call[w].code)
      PROVE  /\ call[w].code \in Codes
             /\ \E y : /\ accounts' = [accounts EXCEPT ![call[w].code] = y]
                       /\ y.source # "none"
  <2> DEFINE y == [source |-> "local", password |-> call[w].password]
  <2>1. call[w].code \in Codes /\ accounts' = [accounts EXCEPT ![call[w].code] = y]
    BY <1>7 DEF Inv, AccountsInv, Holds, InsertAccount, At
  <2>2. y.source # "none"
    OBVIOUS
  <2> HIDE DEF y
  <2>3. QED
    BY <2>1, <2>2
<1>8. ASSUME NEW w \in Workers, DropAccount(w)
      PROVE  /\ call[w].code \in Codes
             /\ accounts' = [accounts EXCEPT ![call[w].code] = NoAccount]
  BY <1>8 DEF Inv, AccountsInv, Holds, DropAccount, At
<1>9. \/ UNCHANGED accounts
      \/ \E w \in Workers : \/ \E c \in Codes : ImportAccount(w, c)
                            \/ WriteAccount(w) /\ Exists(call[w].code)
                            \/ InsertAccount(w) /\ ~Exists(call[w].code)
                            \/ DropAccount(w)
  <2>1. CASE AccountStep
    BY <2>1 DEF AccountStep, Start, Fails, ExportKdzsAccounts, SaveSettings, SwitchAfterSync,
             ResolveAccount, EnsureActiveSSASession, PrintUnderSession, InsertAccount, AdoptFirst,
             WriteAccount, PushAccount, CheckDelete, CheckDefault, SwitchSession, SaveChoice,
             IssueEnrollToken, SSAEdits, SSASwitches
  <2>2. QED
    BY <2>1 DEF Next, vars, accountVars, Start, activeKdzsAccountLabel, ListAssets, PassOverAuths,
             StoreAssets, PruneAssets, RemoteChanges
<1>10. \A c \in Codes : accounts'[c].source = "none" => accounts'[c] = NoAccount
  <2>1. CASE UNCHANGED accounts
    BY <2>1 DEF Tidy
  <2>2. ASSUME NEW w \in Workers, NEW c \in Codes, ImportAccount(w, c)
        PROVE  \A d \in Codes : accounts'[d].source = "none" => accounts'[d] = NoAccount
    BY <1>4, <1>5, <2>2
  <2>3. ASSUME NEW w \in Workers, WriteAccount(w), Exists(call[w].code)
        PROVE  \A d \in Codes : accounts'[d].source = "none" => accounts'[d] = NoAccount
    BY <1>4, <1>6, <2>3
  <2>4. ASSUME NEW w \in Workers, InsertAccount(w), ~Exists(call[w].code)
        PROVE  \A d \in Codes : accounts'[d].source = "none" => accounts'[d] = NoAccount
    BY <1>4, <1>7, <2>4
  <2>5. ASSUME NEW w \in Workers, DropAccount(w)
        PROVE  \A d \in Codes : accounts'[d].source = "none" => accounts'[d] = NoAccount
    BY <1>4, <1>8, <2>5
  <2>6. QED
    BY <1>9, <2>1, <2>2, <2>3, <2>4, <2>5
<1>11. QED
  BY <1>1, <1>2, <1>10 DEF Tidy

\* Type correctness.
THEOREM TypeCorrect ==
  ASSUME OneWorker
  PROVE  Spec => []TypeOK
<1>1. Init => Tidy
  BY DEF Init, InitAccounts, Tidy, Idle, NoAccount
<1>2. Inv /\ Tidy /\ [Next]_vars => Tidy'
  BY TidyStep
<1>3. Inv /\ Tidy => TypeOK
  <2> SUFFICES ASSUME Inv, Tidy PROVE TypeOK
    OBVIOUS
  <2>1. \A w \in Workers : call[w].op \in Ops \cup {"idle"} /\ call[w].st \in Settings
    BY DEF Inv, AccountsTyped, Call
  <2>2. \A w \in Workers : list[w].items \subseteq Auths \cup Templates
    BY DEF Inv, AssetsTyped, List
  <2>3. QED
    BY <2>1, <2>2 DEF Inv, Tidy, AccountsTyped, AssetsTyped, TypeOK, AccountsTypeOK
<1>4. QED
  BY <1>1, <1>2, <1>3, InvHolds, PTL DEF Spec
=============================================================================
