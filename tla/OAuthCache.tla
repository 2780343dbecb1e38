------------------------------ MODULE OAuthCache ------------------------------
(***************************************************************************)
(* The cache of SF's OAuth tokens: internal/carrier/sf/oauth.go, for one   *)
(* partner and one environment.                                            *)
(*                                                                         *)
(* The cache is looked at and written under a mutex, and the token fetched *)
(* outside it, so several callers may fetch at once and store their tokens *)
(* in any order.  The HTTP client's timeout bounds the time between SF     *)
(* issuing a token and the caller storing it.                              *)
(***************************************************************************)
EXTENDS Integers

CONSTANTS
  Callers,     \* requests that need a token
  Lives,       \* lives of tokens as SF tells them; 0: it does not say
  DefaultLife, \* what a token then lives
  Margin,      \* how much earlier the cache drops it
  LeastTTL,    \* how long the cache keeps any token
  Timeout,     \* of the HTTP client
  MaxClock     \* bound on the clock

ASSUME OAuthCacheAssumption ==
  /\ Lives \subseteq Nat /\ DefaultLife \in Nat
  /\ Margin \in Nat /\ LeastTTL \in Nat /\ Timeout \in Nat /\ MaxClock \in Nat
  /\ Timeout <= Margin
  /\ \A life \in (Lives \ {0}) \cup {DefaultLife} : life > LeastTTL + Timeout

VARIABLES
  clock,
  cache,  \* the cached token: when SF issued it, its life, when it is dropped
  fetch,  \* what each caller is doing
  handed  \* the token handed out last, and when

oauthVars == <<clock, cache, fetch, handed>>

NoToken == [issued |-> 0, life |-> 0, until |-> 0]
NotHanded == [issued |-> 0, life |-> 1, at |-> 0]
Resting == [pc |-> "idle", issued |-> 0, told |-> 0]

LifeOf(told) == IF told = 0 THEN DefaultLife ELSE told
HandOut(issued, life) == handed' = [issued |-> issued, life |-> life, at |-> clock]
Rest(c) == fetch' = [fetch EXCEPT ![c] = Resting]

OAuthInit ==
  /\ clock = 0
  /\ cache = NoToken
  /\ fetch = [c \in Callers |-> Resting]
  /\ handed = NotHanded

\* The client gives up on an answer that takes longer.
OAuthTick ==
  /\ clock < MaxClock
  /\ \A c \in Callers : fetch[c].pc = "issued" => clock < fetch[c].issued + Timeout
  /\ clock' = clock + 1
  /\ UNCHANGED <<cache, fetch, handed>>

\* GetAccessToken under the mutex.
LookUp(c) ==
  /\ fetch[c].pc = "idle"
  /\ \/ /\ clock < cache.until
        /\ HandOut(cache.issued, cache.life)
        /\ UNCHANGED fetch
     \/ /\ clock >= cache.until
        /\ fetch' = [fetch EXCEPT ![c].pc = "fetching"]
        /\ UNCHANGED handed
  /\ UNCHANGED <<clock, cache>>

\* SF issues a token.
Issue(c, told) ==
  /\ fetch[c].pc = "fetching"
  /\ fetch' = [fetch EXCEPT ![c] = [pc |-> "issued", issued |-> clock, told |-> told]]
  /\ UNCHANGED <<clock, cache, handed>>

\* No answer, or one that is no token.
FetchFails(c) ==
  /\ fetch[c].pc \in {"fetching", "issued"}
  /\ Rest(c)
  /\ UNCHANGED <<clock, cache, handed>>

\* Seeded bug: the token is kept for all its life.
KeptFull(life) == life

\* How long the cache keeps a token.
Kept(life) == IF life - Margin < LeastTTL THEN LeastTTL ELSE life - Margin

\* The answer is stored, over whatever another caller stored meanwhile.
Store(c) ==
  LET life == LifeOf(fetch[c].told) IN
  /\ fetch[c].pc = "issued"
  /\ cache' = [issued |-> fetch[c].issued, life |-> life, until |-> clock + Kept(life)]
  /\ HandOut(fetch[c].issued, life)
  /\ Rest(c)
  /\ UNCHANGED clock

OAuthNext ==
  \/ OAuthTick
  \/ \E c \in Callers : LookUp(c) \/ (\E told \in Lives : Issue(c, told)) \/ FetchFails(c) \/ Store(c)

OAuthSpec == OAuthInit /\ [][OAuthNext]_oauthVars

-----------------------------------------------------------------------------
(* Properties.                                                             *)

OAuthTypeOK ==
  /\ clock \in Nat
  /\ cache \in [issued: Nat, life: Nat, until: Nat]
  /\ fetch \in [Callers -> [pc: {"idle", "fetching", "issued"}, issued: Nat, told: Lives \cup {0}]]
  /\ handed \in [issued: Nat, life: Nat, at: Nat]

\* A token that is handed out has not expired at SF, however long its fetch
\* took and whichever of several callers stored last; and one whose life is
\* long enough for the margin lives on for what the fetch leaves of it, so that
\* the print that follows can use it.
HandedAlive ==
  /\ handed.at < handed.issued + handed.life
  /\ handed.life >= Margin + LeastTTL =>
       handed.at + (Margin - Timeout) <= handed.issued + handed.life
=============================================================================
