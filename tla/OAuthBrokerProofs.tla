-------------------------- MODULE OAuthBrokerProofs --------------------------
(***************************************************************************)
(* Proofs about OAuthBroker, for any accounts, calls, disconnects, sign-ins *)
(* and records of the first releases.                                      *)
(***************************************************************************)
EXTENDS OAuthBroker, SequenceTheorems, TLAPS

\* A call that has the refresh token at hand.
Refreshing(c) == call[c].pc \in {"request", "lock", "save", "publish"}

Current(c) == call[c].generation = generation[call[c].acc]

Active(d) == disconnect[d].pc \in {"confirm", "drain", "lock"}

\* What a disconnect takes away it has taken out of the cache, and out of date, before.
Clears(d, a) == disconnect[d].pc \in {"drain", "lock"} /\ disconnect[d].acc \in {a, None}

\* The grants that may be stored or in use; a sign-in that waits for the tail has a newer one.
Issued == IF auth.pc = "lock" THEN grants - 1 ELSE grants

\* What each flow has to show for the place where it is.
CallRole(c) ==
  /\ call[c].pc # "idle" => call[c].acc \in Accounts
  /\ Refreshing(c) => call[c].token \in Token /\ call[c].generation <= generation[call[c].acc]
  /\ call[c].pc \in {"lock", "save", "publish"} => call[c].token.version = 1

AuthRole ==
  /\ connecting <=> auth.pc # "idle"
  /\ auth.pc \in {"lock", "verify"} => auth.acc \in Accounts /\ auth.token \in Token
  /\ auth.pc \in {"inspect", "migrating", "open", "browser"} => grants < MaxGrants

MigrationRole ==
  /\ migration.pc \in {"request", "lock"} => {"token", "account"} \subseteq migration.snapshot
  /\ migration.pc = "lock" => migration.token \in Token /\ migration.token.grant = 1

DisconnectRole(d) == disconnect[d].pc = "confirm" => disconnect[d].acc \in Accounts

RoleInv == /\ \A c \in Calls : CallRole(c)
           /\ AuthRole /\ MigrationRole
           /\ \A d \in Disconnects : DisconnectRole(d)

\* Who writes, or has written and not yet left, is at the head of the tail.
HeldInv ==
  /\ \A c \in Calls : call[c].pc \in {"save", "publish"} => Holds(c)
  /\ migration.pc = "publish" => Holds("migration")

\* What is gone stays away: nobody on the way to the keychain can bring it back.
GoneInv ==
  /\ \A a \in gone : slot[a] = None
  /\ LegacyAccount \in gone => ~({"token", "account"} \subseteq legacy)
  /\ \A c \in Calls : call[c].pc = "save" => slot[call[c].acc] # None
  /\ migration.pc = "publish" => slot[LegacyAccount] # None

FlagInv == ~unguarded =>
  /\ \A d \in Disconnects : Active(d) => disconnecting /\ ~connecting
  /\ \A d, e \in Disconnects : Active(d) /\ Active(e) => d = e

\* An access token, and a refresh that may still publish one, has its credential.
LiveInv == ~unguarded =>
  /\ \A d \in Disconnects, a \in Accounts : Clears(d, a) => cache[a] = None
  /\ \A d \in Disconnects, c \in Calls : Refreshing(c) /\ Clears(d, call[c].acc) => ~Current(c)
  /\ \A a \in Accounts : cache[a] # None => slot[a] # None
  /\ \A c \in Calls : Refreshing(c) /\ Current(c) => slot[call[c].acc] # None
  /\ auth.pc = "verify" => slot[auth.acc] # None

GrantInv ==
  /\ \A a \in Accounts : slot[a] # None => slot[a].grant <= Issued
  /\ \A c \in Calls : Refreshing(c) => call[c].token.grant <= Issued
  /\ "token" \in legacy \/ migration.pc \in {"request", "lock"} => 1 <= Issued
  /\ auth.pc = "lock" => auth.token.grant = grants

\* A refresh that may still store a rotated token stores it over the one it was rotated from.
LineOf(c) ==
  /\ Refreshing(c) /\ call[c].acc \notin unfinished
  /\ Current(c) \/ call[c].pc = "save"
  => slot[call[c].acc] # None /\ slot[call[c].acc].grant = call[c].token.grant

LineInv ==
  /\ auth.pc = "verify" => \A c \in Calls : call[c].pc # "save"
  /\ ~unguarded => \A c \in Calls : LineOf(c)

IInv == TypeOK /\ RoleInv /\ HeldInv /\ GoneInv /\ FlagInv /\ LiveInv /\ GrantInv /\ LineInv

-----------------------------------------------------------------------------
(* The tail. *)

Waits(p) ==
  \/ p = "auth" /\ auth.pc = "lock"
  \/ p = "migration" /\ migration.pc \in {"lock", "publish"}
  \/ p \in Calls /\ call[p].pc \in {"lock", "save", "publish"}
  \/ p \in Disconnects /\ disconnect[p].pc = "lock"

Distinct == \A i, j \in DOMAIN tail : tail[i] = tail[j] => i = j

LEMMA TailByParty == TailIsHonest <=> Distinct /\ \A p \in Parties : p \in Queued <=> Waits(p)
BY NamesAssumption DEF TailIsHonest, Distinct, Parties, Waits

LEMMA TailByPartyNext ==
  TailIsHonest' <=> Distinct' /\ \A p \in Parties : (p \in Queued)' <=> Waits(p)'
BY NamesAssumption DEF TailIsHonest, Distinct, Parties, Waits

LEMMA TailStays ==
  ASSUME TailIsHonest, tail' = tail, \A p \in Parties : Waits(p)' <=> Waits(p)
  PROVE  TailIsHonest'
<1>1. Queued' = Queued /\ Distinct'
  BY TailByParty DEF Queued, Distinct
<1>2. \A p \in Parties : p \in Queued' <=> Waits(p)'
  BY <1>1, TailByParty
<1> QED
  BY <1>1, <1>2, TailByPartyNext

\* The one that has come last holds the tail only if nobody else waits.
LEMMA TailGrows ==
  ASSUME TailIsHonest, tail \in Seq(Parties), NEW q \in Parties, ~Waits(q), Queue(q),
         \A p \in Parties : Waits(p)' <=> Waits(p) \/ p = q
  PROVE  /\ TailIsHonest' /\ tail' \in Seq(Parties)
         /\ \A p \in Parties : Holds(p) => Holds(p)'
<1>1. tail' = Append(tail, q) /\ q \notin Queued
  BY TailByParty DEF Queue
<1>2. /\ tail' \in Seq(Parties) /\ Len(tail') = Len(tail) + 1 /\ tail'[Len(tail) + 1] = q
      /\ DOMAIN tail = 1..Len(tail) /\ DOMAIN tail' = 1..(Len(tail) + 1) /\ Len(tail) \in Nat
      /\ \A i \in 1..Len(tail) : tail'[i] = tail[i]
  BY <1>1
<1>3. Queued' = Queued \cup {q}
  BY <1>2 DEF Queued
<1>4. Distinct'
  <2>1. \A i \in DOMAIN tail : tail[i] # q
    BY <1>1 DEF Queued
  <2>2. Distinct
    BY TailByParty
  <2> QED
    BY <1>2, <2>1, <2>2 DEF Distinct
<1>5. \A p \in Parties : p \in Queued' <=> Waits(p)'
  BY <1>3, TailByParty
<1>7. \A p \in Parties : Holds(p) => Holds(p)'
  BY <1>2 DEF Holds
<1> QED
  BY <1>2, <1>4, <1>5, <1>7, TailByPartyNext

LEMMA TailShrinks ==
  ASSUME TailIsHonest, tail \in Seq(Parties), NEW q \in Parties, Holds(q), Release,
         \A p \in Parties : Waits(p)' <=> Waits(p) /\ p # q
  PROVE  TailIsHonest' /\ tail' \in Seq(Parties)
<1>1. tail' = Tail(tail) /\ tail # <<>> /\ tail[1] = q
  BY DEF Release, Holds
<1>2. /\ tail' \in Seq(Parties) /\ Len(tail) \in Nat /\ Len(tail) >= 1
      /\ DOMAIN tail = 1..Len(tail) /\ DOMAIN tail' = 1..(Len(tail) - 1)
      /\ \A i \in 1..(Len(tail) - 1) : tail'[i] = tail[i + 1]
  BY <1>1
<1>3. Distinct
  BY TailByParty
<1>4. Queued' = Queued \ {q}
  <2>1. \A i \in 1..(Len(tail) - 1) : tail[i + 1] # q
    BY <1>1, <1>2, <1>3 DEF Distinct
  <2>2. \A i \in 1..Len(tail) : tail[i] # q => i - 1 \in 1..(Len(tail) - 1) /\ tail'[i - 1] = tail[i]
    BY <1>1, <1>2
  <2>3. ASSUME NEW p \in Queued' PROVE p \in Queued \ {q}
    <3>1. PICK i \in 1..(Len(tail) - 1) : p = tail[i + 1]
      BY <1>2, <2>3 DEF Queued
    <3>2. i + 1 \in DOMAIN tail
      BY <1>2
    <3> QED
      BY <2>1, <3>1, <3>2 DEF Queued
  <2>4. ASSUME NEW p \in Queued \ {q} PROVE p \in Queued'
    <3>1. PICK i \in 1..Len(tail) : p = tail[i] /\ tail[i] # q
      BY <1>2, <2>4 DEF Queued
    <3> QED
      BY <1>2, <2>2, <3>1 DEF Queued
  <2> QED
    BY <2>3, <2>4
<1>5. Distinct'
  <2>1. ASSUME NEW i \in 1..(Len(tail) - 1), NEW j \in 1..(Len(tail) - 1), tail'[i] = tail'[j]
        PROVE  i = j
    <3>1. tail[i + 1] = tail[j + 1] /\ i + 1 \in DOMAIN tail /\ j + 1 \in DOMAIN tail
      BY <1>2, <2>1
    <3>2. i + 1 = j + 1
      BY <1>3, <3>1 DEF Distinct
    <3> QED
      BY <1>2, <3>2
  <2> QED
    BY <1>2, <2>1 DEF Distinct
<1>6. \A p \in Parties : p \in Queued' <=> Waits(p)'
  BY <1>4, TailByParty
<1> QED
  BY <1>2, <1>5, <1>6, TailByPartyNext

LEMMA HeldOnce ==
  ASSUME NEW p, NEW q, Holds(p), Holds(q) PROVE p = q
BY DEF Holds

-----------------------------------------------------------------------------
(* What most steps leave as it was, and what then holds on. *)

CallRests(c) ==
  \/ call'[c] = call[c]
  \/ call'[c].pc = "idle"
  \/ call'[c].pc \in {"awaiting", "resolved", "load"} /\ call'[c].acc \in Accounts

CallsRest == \A c \in Calls : CallRests(c)

AuthRests == auth' = auth \/ auth'.pc \notin {"lock", "verify"}

MigrationRests == migration' = migration \/ migration'.pc \in {"idle", "inspect"}

GenerationsRest == \A a \in Accounts : generation[a] <= generation'[a]

ClearsRest == \A d \in Disconnects, a \in Accounts : Clears(d, a)' => Clears(d, a)

CacheRests == \A a \in Accounts : cache'[a] \in {cache[a], None}

GuardRests == unguarded => unguarded'

LEMMA TokenFacts ==
  /\ \A t \in Token : t.grant \in Nat /\ t.version \in 0..1 /\ t # None
  /\ LegacyToken \in Token
BY LegacyAssumption, BoundsAssumption DEF Token, LegacyToken

LEMMA CallFacts ==
  ASSUME Typed
  PROVE  \A c \in Calls : /\ call[c] \in CallState /\ call[c].generation \in Nat
                          /\ call[c].acc \in Accounts \cup {None}
                          /\ call[c].token \in Token \cup {None}
BY DEF Typed, CallState

LEMMA NotCurrentAgain ==
  ASSUME Typed, RoleInv, Typed', GenerationsRest, NEW c \in Calls, Refreshing(c), call'[c] = call[c],
         Current(c)'
  PROVE  Current(c)
<1>1. /\ call[c].acc \in Accounts /\ call[c].generation <= generation[call[c].acc]
      /\ call[c].generation \in Nat
  BY CallFacts DEF RoleInv, CallRole, Refreshing
<1>2. generation[call[c].acc] \in Nat /\ generation'[call[c].acc] \in Nat
  BY <1>1 DEF Typed
<1> QED
  BY <1>1, <1>2 DEF Current, GenerationsRest

LEMMA CallRoleRests ==
  ASSUME Typed, RoleInv, Typed', CallsRest, GenerationsRest
  PROVE  \A c \in Calls : CallRole(c)'
<1> SUFFICES ASSUME NEW c \in Calls PROVE CallRole(c)'
  OBVIOUS
<1>1. CallRole(c) /\ CallRests(c)
  BY DEF RoleInv, CallsRest
<1>2. CASE call'[c] = call[c]
  <2>1. \A a \in Accounts : /\ generation[a] \in Nat /\ generation'[a] \in Nat
                            /\ generation[a] <= generation'[a]
    BY DEF Typed, GenerationsRest
  <2>2. call[c].generation \in Nat
    BY CallFacts
  <2> QED
    BY <1>1, <1>2, <2>1, <2>2 DEF CallRole, Refreshing
<1>3. CASE call'[c] # call[c]
  BY <1>1, <1>3 DEF CallRests, CallRole, Refreshing
<1> QED
  BY <1>2, <1>3

LEMMA HeldRests ==
  ASSUME HeldInv, CallsRest, MigrationRests, \A p \in Parties : Holds(p) => Holds(p)'
  PROVE  HeldInv'
BY DEF HeldInv, CallsRest, CallRests, MigrationRests, Parties

\* The one who leaves the tail has nothing written that is not published.
LEMMA HeldReleased ==
  ASSUME HeldInv, CallsRest, MigrationRests, NEW q \in Parties, Holds(q),
         q \in Calls => call'[q].pc = "idle",
         q = "migration" => migration'.pc = "idle"
  PROVE  HeldInv'
<1>1. \A c \in Calls : call'[c].pc \notin {"save", "publish"}
  BY HeldOnce DEF HeldInv, CallsRest, CallRests
<1>2. migration'.pc # "publish"
  BY HeldOnce DEF HeldInv, MigrationRests
<1> QED
  BY <1>1, <1>2 DEF HeldInv

LEMMA GoneRests ==
  ASSUME GoneInv, CallsRest, MigrationRests, slot' = slot, gone' = gone, legacy' \subseteq legacy
  PROVE  GoneInv'
BY DEF GoneInv, CallsRest, CallRests, MigrationRests

LEMMA FlagRests ==
  ASSUME FlagInv, GuardRests, connecting' => connecting, disconnecting => disconnecting',
         \A d \in Disconnects : Active(d)' => Active(d)
  PROVE  FlagInv'
BY DEF FlagInv, GuardRests

LEMMA LiveRests ==
  ASSUME Typed, RoleInv, LiveInv, Typed', CallsRest, AuthRests, GenerationsRest, ClearsRest,
         CacheRests, GuardRests, \A a \in Accounts : slot[a] # None => slot'[a] # None
  PROVE  LiveInv'
<1> SUFFICES ASSUME ~unguarded' PROVE LiveInv'
  BY DEF LiveInv
<1>1. \A c \in Calls : Refreshing(c)' => call'[c] = call[c] /\ Refreshing(c)
  BY DEF CallsRest, CallRests, Refreshing
<1>2. \A c \in Calls : Refreshing(c)' /\ Current(c)' => Current(c)
  BY <1>1, NotCurrentAgain
<1>3. \A c \in Calls : Refreshing(c) => call[c].acc \in Accounts
  BY DEF RoleInv, CallRole, Refreshing
<1>4. ~unguarded
  BY DEF GuardRests
<1>5. \A d \in Disconnects, a \in Accounts : Clears(d, a)' => cache'[a] = None
  BY <1>4 DEF LiveInv, ClearsRest, CacheRests
<1>6. \A d \in Disconnects, c \in Calls : Refreshing(c)' /\ Clears(d, call[c].acc)' => ~Current(c)'
  BY <1>1, <1>2, <1>3, <1>4 DEF LiveInv, ClearsRest
<1>7. \A a \in Accounts : cache'[a] # None => slot'[a] # None
  BY <1>4 DEF LiveInv, CacheRests
<1>8. \A c \in Calls : Refreshing(c)' /\ Current(c)' => slot'[call'[c].acc] # None
  BY <1>1, <1>2, <1>3, <1>4 DEF LiveInv
<1>9. auth'.pc = "verify" => slot'[auth'.acc] # None
  BY <1>4 DEF LiveInv, AuthRests, RoleInv, AuthRole
<1> QED
  BY <1>1, <1>5, <1>6, <1>7, <1>8, <1>9 DEF LiveInv

LEMMA GrantRests ==
  ASSUME Typed, RoleInv, GrantInv, CallsRest, AuthRests, MigrationRests, slot' = slot, grants' = grants,
         legacy' \subseteq legacy
  PROVE  GrantInv'
<1>1. \A c \in Calls : Refreshing(c)' => call'[c] = call[c] /\ Refreshing(c)
  BY DEF CallsRest, CallRests, Refreshing
<1>2. Issued \in Int /\ Issued' \in Int /\ Issued <= Issued'
  BY BoundsAssumption DEF Issued, AuthRests, Typed
<1>3. \A a \in Accounts : slot[a] # None => slot[a].grant \in Nat
  BY TokenFacts DEF Typed
<1>4. \A a \in Accounts : slot'[a] # None => slot'[a].grant <= Issued'
  BY <1>2, <1>3 DEF GrantInv
<1>5. \A c \in Calls : Refreshing(c)' => call'[c].token.grant <= Issued'
  <2>1. \A c \in Calls : Refreshing(c) => call[c].token.grant \in Nat
    BY TokenFacts DEF RoleInv, CallRole
  <2> QED
    BY <1>1, <1>2, <2>1 DEF GrantInv
<1>6. "token" \in legacy' \/ migration'.pc \in {"request", "lock"} => 1 <= Issued'
  BY <1>2 DEF GrantInv, MigrationRests
<1>7. auth'.pc = "lock" => auth'.token.grant = grants'
  BY DEF GrantInv, AuthRests
<1> QED
  BY <1>4, <1>5, <1>6, <1>7 DEF GrantInv

LEMMA LineRests ==
  ASSUME Typed, RoleInv, LineInv, Typed', CallsRest, AuthRests, GenerationsRest, GuardRests,
         slot' = slot, unfinished \subseteq unfinished'
  PROVE  LineInv'
<1>1. \A c \in Calls : Refreshing(c)' => call'[c] = call[c] /\ Refreshing(c)
  BY DEF CallsRest, CallRests, Refreshing
<1>2. \A c \in Calls : Refreshing(c)' /\ Current(c)' => Current(c)
  BY <1>1, NotCurrentAgain
<1>3. auth'.pc = "verify" => \A c \in Calls : call'[c].pc # "save"
  BY DEF LineInv, AuthRests, CallsRest, CallRests
<1>4. ~unguarded' => \A c \in Calls : LineOf(c)'
  BY <1>1, <1>2 DEF LineInv, LineOf, GuardRests
<1> QED
  BY <1>3, <1>4 DEF LineInv

Rest ==
  /\ CallsRest /\ AuthRests /\ MigrationRests /\ GenerationsRest /\ ClearsRest /\ CacheRests
  /\ GuardRests
  /\ slot' = slot /\ gone' = gone /\ unfinished \subseteq unfinished' /\ grants' = grants
  /\ legacy' \subseteq legacy

LEMMA RestKeeps ==
  ASSUME IInv, Rest, Typed', TailIsHonest', HeldInv', AuthRole',
         \A d \in Disconnects : DisconnectRole(d)', FlagInv'
  PROVE  IInv'
<1> USE DEF Rest, IInv, TypeOK
<1>1. RoleInv'
  <2>1. MigrationRole'
    BY DEF RoleInv, MigrationRole, MigrationRests
  <2> QED
    BY <2>1, CallRoleRests DEF RoleInv
<1>2. GoneInv'
  BY GoneRests
<1>3. LiveInv'
  BY LiveRests
<1>4. GrantInv'
  BY GrantRests
<1>5. LineInv'
  BY LineRests
<1> QED
  BY <1>1, <1>2, <1>3, <1>4, <1>5

-----------------------------------------------------------------------------
(* What the updates of one record do. *)

LEMMA CallTo ==
  ASSUME Typed, NEW c \in Calls, NEW x, call' = [call EXCEPT ![c] = x]
  PROVE  /\ call'[c] = x
         /\ \A o \in Calls \ {c} : call'[o] = call[o]
         /\ x \in CallState => call' \in [Calls -> CallState]
BY DEF Typed

LEMMA CallAt ==
  ASSUME NEW r \in CallState, NEW p \in {"idle", "awaiting", "resolved", "load", "request", "lock",
                                         "save", "publish"}
  PROVE  /\ [r EXCEPT !.pc = p] \in CallState
         /\ [r EXCEPT !.pc = p].pc = p /\ [r EXCEPT !.pc = p].acc = r.acc
         /\ [r EXCEPT !.pc = p].generation = r.generation /\ [r EXCEPT !.pc = p].token = r.token
BY DEF CallState

LEMMA DisconnectTo ==
  ASSUME Typed, NEW d \in Disconnects, NEW x, disconnect' = [disconnect EXCEPT ![d] = x]
  PROVE  /\ disconnect'[d] = x
         /\ \A o \in Disconnects \ {d} : disconnect'[o] = disconnect[o]
         /\ x \in DisconnectState => disconnect' \in [Disconnects -> DisconnectState]
BY DEF Typed

LEMMA DisconnectAt ==
  ASSUME NEW r \in DisconnectState, NEW p \in {"new", "asked", "confirm", "drain", "lock", "over"}
  PROVE  /\ [r EXCEPT !.pc = p] \in DisconnectState
         /\ [r EXCEPT !.pc = p].pc = p /\ [r EXCEPT !.pc = p].acc = r.acc
BY DEF DisconnectState

LEMMA AuthAt ==
  ASSUME NEW r \in AuthState, NEW p \in {"idle", "inspect", "migrating", "open", "browser", "lock",
                                         "verify", "close"}
  PROVE  /\ [r EXCEPT !.pc = p] \in AuthState
         /\ [r EXCEPT !.pc = p].pc = p /\ [r EXCEPT !.pc = p].acc = r.acc
         /\ [r EXCEPT !.pc = p].token = r.token
BY DEF AuthState

LEMMA IdleFacts ==
  /\ NoCall \in CallState /\ NoCall.pc = "idle"
  /\ NoAuth \in AuthState /\ NoAuth.pc = "idle"
  /\ NoMigration \in MigrationState /\ NoMigration.pc = "idle"
BY DEF NoCall, CallState, NoAuth, AuthState, NoMigration, MigrationState

LEMMA MigrationStarts ==
  ASSUME Typed, StartMigration
  PROVE  /\ migration' \in MigrationState
         /\ migration' = migration \/ (migration.pc = "idle" /\ migration'.pc = "inspect")
BY DEF Typed, StartMigration, NoMigration, MigrationState

\* Those who wait for the migration go on or give up.
LEMMA EndsFacts ==
  ASSUME Typed, RoleInv, NEW b \in BOOLEAN, MigrationEnds(b)
  PROVE  /\ migration' \in MigrationState /\ migration'.pc = "idle"
         /\ call' \in [Calls -> CallState] /\ CallsRest
         /\ \A c \in Calls : call'[c] = call[c]
                               \/ (call[c].pc = "awaiting" /\ call'[c].pc \in {"idle", "resolved"})
         /\ auth' \in AuthState
         /\ auth' = auth \/ (auth.pc = "migrating" /\ auth'.pc \in {"open", "close"})
<1>1. migration' \in MigrationState /\ migration'.pc = "idle"
  BY IdleFacts DEF MigrationEnds
<1>2. ASSUME NEW c \in Calls
      PROVE  /\ call'[c] \in CallState /\ CallRests(c)
             /\ call'[c] = call[c]
                  \/ (call[c].pc = "awaiting" /\ call'[c].pc \in {"idle", "resolved"})
  <2>1. call[c] \in CallState /\ (call[c].pc = "awaiting" => call[c].acc \in Accounts)
    BY CallFacts DEF RoleInv, CallRole
  <2>2. call'[c] = IF call[c].pc # "awaiting" THEN call[c]
                   ELSE IF b THEN [call[c] EXCEPT !.pc = "resolved"] ELSE NoCall
    BY DEF MigrationEnds
  <2>3. LET r == [call[c] EXCEPT !.pc = "resolved"]
        IN  r \in CallState /\ r.pc = "resolved" /\ r.acc = call[c].acc
    BY <2>1, CallAt
  <2> QED
    BY <2>1, <2>2, <2>3, IdleFacts DEF CallRests
<1>3. /\ auth' \in AuthState
      /\ auth' = auth \/ (auth.pc = "migrating" /\ auth'.pc \in {"open", "close"})
  <2>1. auth \in AuthState
    BY DEF Typed
  <2>2. \A p \in {"open", "close"} : LET r == [auth EXCEPT !.pc = p]
                                     IN  r \in AuthState /\ r.pc = p
    BY <2>1 DEF AuthState
  <2>3. auth' = auth \/ (auth.pc = "migrating"
                          /\ \E p \in {"open", "close"} : auth' = [auth EXCEPT !.pc = p])
    BY DEF MigrationEnds
  <2> QED
    BY <2>1, <2>2, <2>3
<1> QED
  BY <1>1, <1>2, <1>3 DEF CallsRest, MigrationEnds

LEMMA GenerationsAsTheyWere ==
  ASSUME Typed, generation' = generation PROVE GenerationsRest
BY DEF Typed, GenerationsRest

\* A step that has nothing to do with the tail or the keychain.
LEMMA QuietKeeps ==
  ASSUME IInv, Typed', tail' = tail, \A p \in Parties : Waits(p)' <=> Waits(p),
         CallsRest, AuthRests, MigrationRests, ClearsRest, CacheRests, GuardRests,
         UNCHANGED <<generation, slot, legacy, grants, gone, unfinished>>,
         AuthRole', \A d \in Disconnects : DisconnectRole(d)', FlagInv'
  PROVE  IInv'
<1> USE DEF IInv, TypeOK
<1>1. TailIsHonest'
  BY TailStays
<1>2. Rest
  BY GenerationsAsTheyWere DEF Rest
<1>3. HeldInv'
  BY HeldRests DEF Holds
<1> QED
  BY <1>1, <1>2, <1>3, RestKeeps

-----------------------------------------------------------------------------
(* The migration. *)

LEMMA StatusKeeps ==
  ASSUME IInv, Status PROVE IInv'
<1> USE DEF IInv, TypeOK
<1>1. UNCHANGED <<connecting, disconnecting, lifecycle, generation, cache, tail, auth, call,
                  disconnect, slot, legacy, grants, gone, unguarded, unfinished>>
  BY DEF Status, flags, history
<1>2. /\ migration' \in MigrationState
      /\ migration' = migration \/ (migration.pc = "idle" /\ migration'.pc = "inspect")
  BY MigrationStarts DEF Status
<1>3. Typed'
  BY <1>1, <1>2 DEF Typed
<1>4. \A p \in Parties : Waits(p)' <=> Waits(p)
  BY <1>1, <1>2 DEF Waits
<1>5. CallsRest /\ AuthRests /\ MigrationRests /\ ClearsRest /\ CacheRests /\ GuardRests
  BY <1>1, <1>2 DEF CallsRest, CallRests, AuthRests, MigrationRests, ClearsRest, Clears, CacheRests,
                    GuardRests
<1>6. AuthRole' /\ (\A d \in Disconnects : DisconnectRole(d)') /\ FlagInv'
  BY <1>1 DEF RoleInv, AuthRole, DisconnectRole, FlagInv, Active
<1> QED
  BY <1>1, <1>3, <1>4, <1>5, <1>6, QuietKeeps

LEMMA MigrationInspectsKeeps ==
  ASSUME IInv, MigrationInspects PROVE IInv'
<1> USE DEF IInv, TypeOK
<1>1. UNCHANGED <<connecting, disconnecting, lifecycle, generation, cache, tail, disconnect, slot,
                  legacy, grants, gone, unguarded, unfinished>>
  BY DEF MigrationInspects, flags, history
<1>2. CASE Inspect = "candidate"
  <2>1. /\ migration' = [migration EXCEPT !.pc = "request", !.snapshot = legacy]
        /\ migration.pc = "inspect" /\ call' = call /\ auth' = auth
    BY <1>2 DEF MigrationInspects
  <2>2. {"token", "account"} \subseteq legacy
    BY <1>2 DEF Inspect
  <2>3. /\ migration' \in MigrationState
        /\ migration'.pc = "request" /\ migration'.snapshot = legacy
    BY <2>1 DEF MigrationState, Typed
  <2>4. Typed'
    BY <1>1, <2>1, <2>3 DEF Typed
  <2>5. TailIsHonest'
    BY <1>1, <2>1, <2>3, TailStays DEF Waits
  <2>6. RoleInv'
    BY <1>1, <2>1, <2>2, <2>3
       DEF RoleInv, CallRole, Refreshing, AuthRole, MigrationRole, DisconnectRole
  <2>7. HeldInv'
    BY <1>1, <2>1, <2>3 DEF HeldInv, Holds
  <2>8. GoneInv' /\ FlagInv'
    BY <1>1, <2>1, <2>3 DEF GoneInv, FlagInv, Active
  <2>9. LiveInv'
    BY <1>1, <2>1 DEF LiveInv, Clears, Refreshing, Current
  <2>10. GrantInv'
    BY <1>1, <2>1, <2>2 DEF GrantInv, Issued, Refreshing
  <2>11. LineInv'
    BY <1>1, <2>1 DEF LineInv, LineOf, Refreshing, Current
  <2> QED
    BY <2>4, <2>5, <2>6, <2>7, <2>8, <2>9, <2>10, <2>11
<1>3. CASE \E b \in BOOLEAN : MigrationEnds(b)
  <2>1. PICK b \in BOOLEAN : MigrationEnds(b)
    BY <1>3
  <2>2. /\ migration' \in MigrationState /\ migration'.pc = "idle" /\ migration.pc = "inspect"
        /\ call' \in [Calls -> CallState] /\ CallsRest
        /\ \A c \in Calls : call'[c] = call[c]
                              \/ (call[c].pc = "awaiting" /\ call'[c].pc \in {"idle", "resolved"})
        /\ auth' \in AuthState
        /\ auth' = auth \/ (auth.pc = "migrating" /\ auth'.pc \in {"open", "close"})
    BY <2>1, EndsFacts DEF MigrationInspects
  <2>3. Typed'
    BY <1>1, <2>2 DEF Typed
  <2>4. \A p \in Parties : Waits(p)' <=> Waits(p)
    BY <1>1, <2>2 DEF Waits
  <2>5. AuthRests /\ MigrationRests /\ ClearsRest /\ CacheRests /\ GuardRests
    BY <1>1, <2>2 DEF AuthRests, MigrationRests, ClearsRest, Clears, CacheRests, GuardRests
  <2>6. AuthRole' /\ (\A d \in Disconnects : DisconnectRole(d)') /\ FlagInv'
    BY <1>1, <2>2 DEF RoleInv, AuthRole, DisconnectRole, FlagInv, Active
  <2> QED
    BY <1>1, <2>2, <2>3, <2>4, <2>5, <2>6, QuietKeeps
<1> QED
  BY <1>2, <1>3 DEF MigrationInspects

LEMMA MigrationVerifiedKeeps ==
  ASSUME IInv, MigrationVerified PROVE IInv'
<1> USE DEF IInv, TypeOK
<1>1. UNCHANGED <<connecting, disconnecting, lifecycle, generation, cache, auth, call, disconnect,
                  slot, legacy, grants, gone, unguarded, unfinished>>
  BY DEF MigrationVerified, flags, history
<1>2. /\ migration.pc = "request" /\ migration' \in MigrationState
      /\ migration'.pc = "lock" /\ migration'.snapshot = migration.snapshot
      /\ migration'.token \in Token /\ migration'.token.grant = 1
  <2>1. PICK v \in 0..1 :
          migration' = [migration EXCEPT !.pc = "lock", !.token = [LegacyToken EXCEPT !.version = v]]
    BY DEF MigrationVerified
  <2>2. LET t == [LegacyToken EXCEPT !.version = v] IN t \in Token /\ t.grant = 1
    BY BoundsAssumption DEF LegacyToken, Token
  <2> QED
    BY <2>1, <2>2 DEF MigrationVerified, Typed, MigrationState
<1>3. /\ TailIsHonest' /\ tail' \in Seq(Parties)
      /\ \A p \in Parties : Holds(p) => Holds(p)'
  <2>1. \A p \in Parties : Waits(p)' <=> Waits(p) \/ p = "migration"
    BY <1>1, <1>2 DEF Waits
  <2>2. ~Waits("migration") /\ "migration" \in Parties
    BY <1>2, NamesAssumption DEF Waits, Parties
  <2>3. Queue("migration") /\ tail \in Seq(Parties)
    BY DEF MigrationVerified, Typed
  <2> QED
    BY <2>1, <2>2, <2>3, TailGrows
<1>4. Typed'
  BY <1>1, <1>2, <1>3 DEF Typed
<1>5. RoleInv'
  BY <1>1, <1>2 DEF RoleInv, CallRole, Refreshing, AuthRole, MigrationRole, DisconnectRole
<1>6. HeldInv'
  BY <1>1, <1>2, <1>3 DEF HeldInv, Parties
<1>7. GoneInv' /\ FlagInv'
  BY <1>1, <1>2 DEF GoneInv, FlagInv, Active
<1>8. LiveInv'
  BY <1>1 DEF LiveInv, Clears, Refreshing, Current
<1>9. GrantInv'
  BY <1>1, <1>2 DEF GrantInv, Issued, Refreshing
<1>10. LineInv'
  BY <1>1 DEF LineInv, LineOf, Refreshing, Current
<1> QED
  BY <1>3, <1>4, <1>5, <1>6, <1>7, <1>8, <1>9, <1>10

LEMMA MigrationRefusedKeeps ==
  ASSUME IInv, MigrationRefused PROVE IInv'
<1> USE DEF IInv, TypeOK
<1>1. UNCHANGED <<connecting, disconnecting, lifecycle, generation, cache, tail, disconnect, slot,
                  legacy, grants, gone, unguarded, unfinished>>
  BY DEF MigrationRefused, flags, history
<1>2. /\ migration' \in MigrationState /\ migration'.pc = "idle" /\ migration.pc = "request"
      /\ call' \in [Calls -> CallState] /\ CallsRest
      /\ \A c \in Calls : call'[c] = call[c]
                            \/ (call[c].pc = "awaiting" /\ call'[c].pc \in {"idle", "resolved"})
      /\ auth' \in AuthState
      /\ auth' = auth \/ (auth.pc = "migrating" /\ auth'.pc \in {"open", "close"})
  BY EndsFacts DEF MigrationRefused
<1>3. Typed'
  BY <1>1, <1>2 DEF Typed
<1>4. \A p \in Parties : Waits(p)' <=> Waits(p)
  BY <1>1, <1>2 DEF Waits
<1>5. AuthRests /\ MigrationRests /\ ClearsRest /\ CacheRests /\ GuardRests
  BY <1>1, <1>2 DEF AuthRests, MigrationRests, ClearsRest, Clears, CacheRests, GuardRests
<1>6. AuthRole' /\ (\A d \in Disconnects : DisconnectRole(d)') /\ FlagInv'
  BY <1>1, <1>2 DEF RoleInv, AuthRole, DisconnectRole, FlagInv, Active
<1> QED
  BY <1>1, <1>2, <1>3, <1>4, <1>5, <1>6, QuietKeeps

\* It writes a token of the first grant, and only where there is none but the one it comes from.
LEMMA StoresFacts ==
  ASSUME IInv, Holds("migration"), migration.pc = "lock", MigrationStores
  PROVE  /\ slot' \in [Accounts -> Token \cup {None}]
         /\ \A a \in Accounts \ {LegacyAccount} : slot'[a] = slot[a]
         /\ slot'[LegacyAccount] # None /\ LegacyAccount \notin gone
         /\ \/ slot'[LegacyAccount] = slot[LegacyAccount] /\ slot[LegacyAccount] # None
            \/ /\ slot'[LegacyAccount].grant = 1
               /\ slot[LegacyAccount] = None \/ slot[LegacyAccount] = LegacyToken
<1>1. migration.token \in Token /\ migration.token.grant = 1 /\ {"token", "account"} \subseteq legacy
  BY DEF IInv, RoleInv, MigrationRole, MigrationStores
<1>2. /\ slot \in [Accounts -> Token \cup {None}]
      /\ slot' = [slot EXCEPT ![LegacyAccount] = IF slot[LegacyAccount] # None
                                                    /\ slot[LegacyAccount] # LegacyToken
                                                 THEN slot[LegacyAccount] ELSE migration.token]
  BY DEF IInv, TypeOK, Typed, MigrationStores
<1>3. LegacyAccount \notin gone
  BY <1>1 DEF IInv, GoneInv
<1> QED
  BY <1>1, <1>2, <1>3, TokenFacts, LegacyAssumption

\* With a new token stored under an account that no refresh of its own may still write.
LEMMA LegacyStored ==
  ASSUME IInv, Typed', Holds("migration"), migration.pc = "lock", MigrationStores,
         CallsRest, AuthRests, GuardRests, ClearsRest,
         UNCHANGED <<generation, cache, grants, gone, unfinished>>, legacy' \subseteq legacy,
         migration'.pc \in {"idle", "publish"}
  PROVE  GoneInv' /\ LiveInv' /\ GrantInv' /\ LineInv'
<1> USE DEF IInv, TypeOK
<1>1. /\ \A a \in Accounts \ {LegacyAccount} : slot'[a] = slot[a]
      /\ slot'[LegacyAccount] # None /\ LegacyAccount \notin gone
      /\ \/ slot'[LegacyAccount] = slot[LegacyAccount] /\ slot[LegacyAccount] # None
         \/ /\ slot'[LegacyAccount].grant = 1
            /\ slot[LegacyAccount] = None \/ slot[LegacyAccount] = LegacyToken
  BY StoresFacts
<1>2. \A c \in Calls : Refreshing(c)' => /\ call'[c] = call[c] /\ Refreshing(c)
                                         /\ call[c].acc \in Accounts
  BY DEF CallsRest, CallRests, Refreshing, RoleInv, CallRole
<1>3. \A c \in Calls : call[c].pc # "save"
  BY HeldOnce, NamesAssumption DEF HeldInv
<1>4. GenerationsRest
  BY GenerationsAsTheyWere
<1>5. \A a \in Accounts : slot[a] # None => slot'[a] # None
  BY <1>1
<1>6. GoneInv'
  BY <1>1, <1>2, <1>3 DEF GoneInv, Refreshing, Typed
<1>7. LiveInv'
  BY <1>4, <1>5, LiveRests DEF CacheRests
<1>8. GrantInv'
  <2>1. Issued \in Int /\ Issued' \in Int /\ Issued <= Issued' /\ 1 <= Issued
    BY BoundsAssumption DEF Issued, AuthRests, Typed, GrantInv
  <2>2. \A a \in Accounts : slot[a] # None => slot[a].grant \in Nat
    BY TokenFacts DEF Typed
  <2>3. \A a \in Accounts : slot'[a] # None => slot'[a].grant <= Issued'
    BY <1>1, <2>1, <2>2 DEF GrantInv
  <2>4. \A c \in Calls : Refreshing(c)' => call'[c].token.grant <= Issued'
    <3>1. \A c \in Calls : Refreshing(c) => call[c].token.grant \in Nat
      BY TokenFacts DEF RoleInv, CallRole
    <3> QED
      BY <1>2, <2>1, <3>1 DEF GrantInv
  <2> QED
    BY <2>1, <2>3, <2>4 DEF GrantInv, AuthRests
<1>9. LineInv'
  <2>1. auth'.pc = "verify" => \A c \in Calls : call'[c].pc # "save"
    BY <1>2, <1>3 DEF Refreshing
  <2>2. ASSUME ~unguarded', NEW c \in Calls PROVE LineOf(c)'
    <3> SUFFICES ASSUME Refreshing(c)', call'[c].acc \notin unfinished', Current(c)'
                 PROVE  slot'[call'[c].acc] # None /\ slot'[call'[c].acc].grant = call'[c].token.grant
      BY <1>2, <1>3 DEF LineOf
    <3>1. Refreshing(c) /\ Current(c) /\ call'[c] = call[c]
      BY <1>2 DEF Current
    <3>2. slot[call[c].acc] # None /\ slot[call[c].acc].grant = call[c].token.grant
      BY <2>2, <3>1 DEF LineInv, LineOf, GuardRests
    <3>3. LegacyToken.grant = 1
      BY DEF LegacyToken
    <3> QED
      BY <1>1, <1>2, <3>1, <3>2, <3>3
  <2> QED
    BY <2>1, <2>2 DEF LineInv
<1> QED
  BY <1>6, <1>7, <1>8, <1>9

LEMMA MigrationSavesKeeps ==
  ASSUME IInv, MigrationSaves PROVE IInv'
<1> USE DEF IInv, TypeOK
<1>1. /\ UNCHANGED <<connecting, disconnecting, lifecycle, generation, cache, tail, auth, call,
                     disconnect, grants, gone, unguarded, unfinished>>
      /\ migration.pc = "lock" /\ Holds("migration") /\ MigrationStores
  BY DEF MigrationSaves, flags, history
<1>2. legacy' \subseteq legacy /\ migration' \in MigrationState /\ migration'.pc = "publish"
  BY DEF MigrationSaves, ClearLegacy, Typed, MigrationState
<1>3. Typed'
  BY <1>1, <1>2, StoresFacts DEF Typed
<1>4. TailIsHonest'
  BY <1>1, <1>2, TailStays DEF Waits
<1>5. RoleInv'
  BY <1>1, <1>2 DEF RoleInv, CallRole, Refreshing, AuthRole, MigrationRole, DisconnectRole
<1>6. HeldInv' /\ FlagInv'
  BY <1>1 DEF HeldInv, Holds, FlagInv, Active
<1>7. GoneInv' /\ LiveInv' /\ GrantInv' /\ LineInv'
  BY <1>1, <1>2, <1>3, LegacyStored
     DEF CallsRest, CallRests, AuthRests, GuardRests, ClearsRest, Clears
<1> QED
  BY <1>3, <1>4, <1>5, <1>6, <1>7

\* The end of a migration that holds the tail.
LEMMA MigrationLeaves ==
  ASSUME IInv, Holds("migration"), migration.pc \in {"lock", "publish"}, Release,
         NEW b \in BOOLEAN, MigrationEnds(b), UNCHANGED disconnect
  PROVE  /\ migration' \in MigrationState /\ migration'.pc = "idle"
         /\ call' \in [Calls -> CallState] /\ CallsRest
         /\ auth' \in AuthState
         /\ auth' = auth \/ (auth.pc = "migrating" /\ auth'.pc \in {"open", "close"})
         /\ TailIsHonest' /\ tail' \in Seq(Parties) /\ HeldInv'
<1> USE DEF IInv, TypeOK
<1>1. /\ migration' \in MigrationState /\ migration'.pc = "idle"
      /\ call' \in [Calls -> CallState] /\ CallsRest
      /\ \A c \in Calls : call'[c] = call[c]
                            \/ (call[c].pc = "awaiting" /\ call'[c].pc \in {"idle", "resolved"})
      /\ auth' \in AuthState
      /\ auth' = auth \/ (auth.pc = "migrating" /\ auth'.pc \in {"open", "close"})
  BY EndsFacts
<1>2. "migration" \in Parties /\ tail \in Seq(Parties)
  BY DEF Parties, Typed
<1>3. \A p \in Parties : Waits(p)' <=> Waits(p) /\ p # "migration"
  BY <1>1, NamesAssumption DEF Waits
<1>4. TailIsHonest' /\ tail' \in Seq(Parties)
  BY <1>2, <1>3, TailShrinks
<1>5. HeldInv'
  BY <1>1, <1>2, HeldReleased, NamesAssumption DEF MigrationRests
<1> QED
  BY <1>1, <1>4, <1>5

LEMMA MigrationThrowsKeeps ==
  ASSUME IInv, MigrationThrows PROVE IInv'
<1> USE DEF IInv, TypeOK
<1>1. /\ UNCHANGED <<connecting, disconnecting, lifecycle, generation, cache, disconnect, legacy,
                     grants, gone, unguarded, unfinished>>
      /\ migration.pc \in {"lock", "publish"} /\ Holds("migration") /\ Release
      /\ MigrationEnds(FALSE)
      /\ slot' = slot \/ (migration.pc = "lock" /\ MigrationStores)
  BY DEF MigrationThrows, flags, history
<1>2. /\ migration' \in MigrationState /\ migration'.pc = "idle"
      /\ call' \in [Calls -> CallState] /\ CallsRest
      /\ auth' \in AuthState
      /\ auth' = auth \/ (auth.pc = "migrating" /\ auth'.pc \in {"open", "close"})
      /\ TailIsHonest' /\ tail' \in Seq(Parties) /\ HeldInv'
  BY <1>1, MigrationLeaves
<1>3. slot' \in [Accounts -> Token \cup {None}]
  BY <1>1, StoresFacts DEF Typed
<1>4. Typed'
  BY <1>1, <1>2, <1>3 DEF Typed
<1>5. AuthRests /\ MigrationRests /\ ClearsRest /\ CacheRests /\ GuardRests
  BY <1>1, <1>2 DEF AuthRests, MigrationRests, ClearsRest, Clears, CacheRests, GuardRests
<1>6. AuthRole' /\ (\A d \in Disconnects : DisconnectRole(d)') /\ FlagInv'
  BY <1>1, <1>2 DEF RoleInv, AuthRole, DisconnectRole, FlagInv, Active
<1>7. CASE slot' = slot
  BY <1>1, <1>2, <1>4, <1>5, <1>6, <1>7, GenerationsAsTheyWere, RestKeeps DEF Rest
<1>8. CASE migration.pc = "lock" /\ MigrationStores
  <2>1. RoleInv'
    BY <1>1, <1>2, <1>4, <1>6, CallRoleRests, GenerationsAsTheyWere DEF RoleInv, MigrationRole
  <2>2. GoneInv' /\ LiveInv' /\ GrantInv' /\ LineInv'
    BY <1>1, <1>2, <1>4, <1>5, <1>8, LegacyStored
  <2> QED
    BY <1>2, <1>4, <1>6, <2>1, <2>2
<1> QED
  BY <1>1, <1>7, <1>8

LEMMA MigrationPublishesKeeps ==
  ASSUME IInv, MigrationPublishes PROVE IInv'
<1> USE DEF IInv, TypeOK
<1>1. /\ UNCHANGED <<connecting, disconnecting, lifecycle, generation, disconnect, slot, legacy,
                     grants, gone, unguarded, unfinished>>
      /\ migration.pc = "publish" /\ Release
      /\ MigrationEnds(MigrationLives) /\ MigrationLives \in BOOLEAN
      /\ cache' = IF MigrationLives THEN [cache EXCEPT ![LegacyAccount] = LegacyToken.grant] ELSE cache
  BY DEF MigrationPublishes, flags, history, MigrationLives
<1>2. Holds("migration") /\ slot[LegacyAccount] # None
  BY <1>1 DEF HeldInv, GoneInv
<1>3. /\ migration' \in MigrationState /\ migration'.pc = "idle"
      /\ call' \in [Calls -> CallState] /\ CallsRest
      /\ auth' \in AuthState
      /\ auth' = auth \/ (auth.pc = "migrating" /\ auth'.pc \in {"open", "close"})
      /\ TailIsHonest' /\ tail' \in Seq(Parties) /\ HeldInv'
  BY <1>1, <1>2, MigrationLeaves
<1>4. cache' \in [Accounts -> 1..MaxGrants \cup {None}]
  <2>1. LegacyToken.grant \in 1..MaxGrants
    BY BoundsAssumption DEF LegacyToken
  <2> QED
    BY <1>1, <2>1 DEF Typed
<1>5. Typed'
  BY <1>1, <1>3, <1>4 DEF Typed
<1>6. AuthRests /\ MigrationRests /\ ClearsRest /\ GuardRests /\ GenerationsRest
  BY <1>1, <1>3, GenerationsAsTheyWere DEF AuthRests, MigrationRests, ClearsRest, Clears, GuardRests
<1>7. AuthRole' /\ (\A d \in Disconnects : DisconnectRole(d)') /\ FlagInv'
  BY <1>1, <1>3 DEF RoleInv, AuthRole, DisconnectRole, FlagInv, Active
<1>8. RoleInv'
  BY <1>3, <1>5, <1>6, <1>7, CallRoleRests DEF RoleInv, MigrationRole
<1>9. GoneInv' /\ GrantInv' /\ LineInv'
  BY <1>1, <1>3, <1>5, <1>6, GoneRests, GrantRests, LineRests
<1>10. LiveInv'
  <2>1. CASE ~MigrationLives
    BY <1>1, <1>3, <1>5, <1>6, <2>1, LiveRests DEF CacheRests
  <2>2. CASE MigrationLives
    <3> SUFFICES ASSUME ~unguarded' PROVE LiveInv'
      BY DEF LiveInv
    <3>1. \A d \in Disconnects : ~Active(d)
      BY <1>1, <2>2 DEF MigrationLives, FlagInv
    <3>2. \A d \in Disconnects, a \in Accounts : ~Clears(d, a)'
      BY <1>1, <3>1 DEF Clears, Active
    <3>3. \A a \in Accounts : cache'[a] # None => slot'[a] # None
      BY <1>1, <1>2 DEF LiveInv, Typed
    <3>4. \A c \in Calls : Refreshing(c)' => /\ call'[c] = call[c] /\ Refreshing(c)
                                             /\ call[c].acc \in Accounts
      BY <1>3 DEF CallsRest, CallRests, Refreshing, RoleInv, CallRole
    <3>5. \A c \in Calls : Refreshing(c)' /\ Current(c)' => slot'[call'[c].acc] # None
      BY <1>1, <3>4 DEF LiveInv, Current
    <3>6. auth'.pc = "verify" => slot'[auth'.acc] # None
      BY <1>1, <1>3 DEF LiveInv
    <3> QED
      BY <3>2, <3>3, <3>4, <3>5, <3>6 DEF LiveInv
  <2> QED
    BY <2>1, <2>2
<1> QED
  BY <1>3, <1>5, <1>7, <1>8, <1>9, <1>10

-----------------------------------------------------------------------------
(* add and reconnect. *)

LEMMA AuthorizeStartsKeeps ==
  ASSUME IInv, NEW w \in Accounts \cup {None}, AuthorizeStarts(w) PROVE IInv'
<1> USE DEF IInv, TypeOK
<1>1. /\ UNCHANGED <<disconnecting, lifecycle, generation, cache, tail, migration, call, disconnect,
                     slot, legacy, grants, gone, unguarded, unfinished>>
      /\ ~connecting /\ ~disconnecting /\ grants < MaxGrants /\ connecting' = TRUE
  BY DEF AuthorizeStarts, history
<1>2. auth' \in AuthState /\ auth'.pc = "inspect" /\ auth.pc = "idle"
  BY <1>1 DEF AuthorizeStarts, NoAuth, AuthState, RoleInv, AuthRole
<1>3. Typed'
  BY <1>1, <1>2 DEF Typed
<1>4. \A p \in Parties : Waits(p)' <=> Waits(p)
  BY <1>1, <1>2 DEF Waits
<1>5. CallsRest /\ AuthRests /\ MigrationRests /\ ClearsRest /\ CacheRests /\ GuardRests
  BY <1>1, <1>2 DEF CallsRest, CallRests, AuthRests, MigrationRests, ClearsRest, Clears, CacheRests,
                    GuardRests
<1>6. AuthRole' /\ \A d \in Disconnects : DisconnectRole(d)'
  BY <1>1, <1>2 DEF RoleInv, AuthRole, DisconnectRole
<1>7. FlagInv'
  BY <1>1 DEF FlagInv, Active
<1> QED
  BY <1>1, <1>3, <1>4, <1>5, <1>6, <1>7, QuietKeeps

LEMMA AuthorizeInspectsKeeps ==
  ASSUME IInv, AuthorizeInspects PROVE IInv'
<1> USE DEF IInv, TypeOK
<1>1. /\ UNCHANGED <<connecting, disconnecting, lifecycle, generation, cache, tail, call, disconnect,
                     slot, legacy, grants, gone, unguarded, unfinished>>
      /\ auth.pc = "inspect"
  BY DEF AuthorizeInspects, flags, history
<1>2. auth' \in AuthState /\ auth'.pc \in {"migrating", "open", "close"}
  BY DEF AuthorizeInspects, Typed, AuthState
<1>3. /\ migration' \in MigrationState
      /\ migration' = migration \/ (migration.pc = "idle" /\ migration'.pc = "inspect")
  BY MigrationStarts DEF AuthorizeInspects, Typed
<1>4. Typed'
  BY <1>1, <1>2, <1>3 DEF Typed
<1>5. \A p \in Parties : Waits(p)' <=> Waits(p)
  BY <1>1, <1>2, <1>3 DEF Waits
<1>6. CallsRest /\ AuthRests /\ MigrationRests /\ ClearsRest /\ CacheRests /\ GuardRests
  BY <1>1, <1>2, <1>3 DEF CallsRest, CallRests, AuthRests, MigrationRests, ClearsRest, Clears,
                          CacheRests, GuardRests
<1>7. AuthRole' /\ (\A d \in Disconnects : DisconnectRole(d)') /\ FlagInv'
  BY <1>1, <1>2 DEF RoleInv, AuthRole, DisconnectRole, FlagInv, Active
<1> QED
  BY <1>1, <1>4, <1>5, <1>6, <1>7, QuietKeeps

LEMMA AuthorizeGoesOnKeeps ==
  ASSUME IInv, AuthorizeOpens \/ AuthorizeFails PROVE IInv'
<1> USE DEF IInv, TypeOK
<1>1. /\ UNCHANGED <<connecting, disconnecting, lifecycle, generation, cache, tail, migration, call,
                     disconnect, slot, legacy, grants, gone, unguarded, unfinished>>
      /\ auth.pc \in {"inspect", "open", "browser", "verify"}
  BY DEF AuthorizeOpens, AuthorizeFails, flags, history
<1>2. /\ auth' \in AuthState
      /\ auth'.pc \in {"browser", "close"} /\ (auth'.pc = "browser" => auth.pc = "open")
  BY DEF AuthorizeOpens, AuthorizeFails, Typed, AuthState
<1>3. Typed'
  BY <1>1, <1>2 DEF Typed
<1>4. \A p \in Parties : Waits(p)' <=> Waits(p)
  BY <1>1, <1>2 DEF Waits
<1>5. CallsRest /\ AuthRests /\ MigrationRests /\ ClearsRest /\ CacheRests /\ GuardRests
  BY <1>1, <1>2 DEF CallsRest, CallRests, AuthRests, MigrationRests, ClearsRest, Clears, CacheRests,
                    GuardRests
<1>6. AuthRole' /\ (\A d \in Disconnects : DisconnectRole(d)') /\ FlagInv'
  BY <1>1, <1>2 DEF RoleInv, AuthRole, DisconnectRole, FlagInv, Active
<1> QED
  BY <1>1, <1>3, <1>4, <1>5, <1>6, QuietKeeps

LEMMA AuthorizeClosesKeeps ==
  ASSUME IInv, AuthorizeCloses PROVE IInv'
<1> USE DEF IInv, TypeOK
<1>1. /\ UNCHANGED <<disconnecting, lifecycle, generation, cache, tail, migration, call, disconnect,
                     slot, legacy, grants, gone, unguarded, unfinished>>
      /\ auth.pc = "close" /\ connecting' = FALSE
  BY DEF AuthorizeCloses, history
<1>2. auth' \in AuthState /\ auth'.pc = "idle"
  BY IdleFacts DEF AuthorizeCloses
<1>3. Typed'
  BY <1>1, <1>2 DEF Typed
<1>4. \A p \in Parties : Waits(p)' <=> Waits(p)
  BY <1>1, <1>2 DEF Waits
<1>5. CallsRest /\ AuthRests /\ MigrationRests /\ ClearsRest /\ CacheRests /\ GuardRests
  BY <1>1, <1>2 DEF CallsRest, CallRests, AuthRests, MigrationRests, ClearsRest, Clears, CacheRests,
                    GuardRests
<1>6. AuthRole' /\ \A d \in Disconnects : DisconnectRole(d)'
  BY <1>1, <1>2 DEF RoleInv, AuthRole, DisconnectRole
<1>7. FlagInv'
  BY <1>1 DEF FlagInv, Active
<1> QED
  BY <1>1, <1>3, <1>4, <1>5, <1>6, <1>7, QuietKeeps

\* The new grant is ahead of all that are stored or in use.
LEMMA SignsInKeeps ==
  ASSUME IInv, NEW a \in Accounts, SignsIn(a) PROVE IInv'
<1> USE DEF IInv, TypeOK
<1>1. /\ UNCHANGED <<connecting, disconnecting, lifecycle, generation, cache, migration, call,
                     disconnect, slot, legacy, gone, unguarded, unfinished>>
      /\ auth.pc = "browser" /\ grants' = grants + 1
  BY DEF SignsIn, flags, history
<1>2. grants \in Nat /\ grants' \in 1..MaxGrants
  BY <1>1, BoundsAssumption DEF Typed, RoleInv, AuthRole
<1>3. \/ auth' \in AuthState /\ auth'.pc = "close" /\ tail' = tail
      \/ /\ auth' \in AuthState /\ auth'.pc = "lock" /\ auth'.acc \in Accounts
         /\ auth'.token \in Token /\ auth'.token.grant = grants' /\ Queue("auth")
  <2>1. CASE auth' = [auth EXCEPT !.pc = "close"] /\ UNCHANGED tail
    BY <2>1, AuthAt DEF Typed
  <2>2. CASE /\ auth' = [pc |-> "lock", want |-> None, acc |-> a,
                         token |-> [grant |-> grants + 1, version |-> 0],
                         snapshot |-> IF Inspect = "reconnect" THEN legacy ELSE {}]
             /\ Queue("auth")
    <3>1. [grant |-> grants + 1, version |-> 0] \in Token
      BY <1>1, <1>2 DEF Token
    <3> QED
      BY <1>1, <2>2, <3>1 DEF AuthState, Typed
  <2> QED
    BY <2>1, <2>2 DEF SignsIn
<1>4. TailIsHonest' /\ tail' \in Seq(Parties) /\ \A p \in Parties : Holds(p) => Holds(p)'
  <2>1. CASE auth'.pc = "close" /\ tail' = tail
    <3>1. \A p \in Parties : Waits(p)' <=> Waits(p)
      BY <1>1, <2>1 DEF Waits
    <3> QED
      BY <2>1, <3>1, TailStays DEF Typed, Holds
  <2>2. CASE auth'.pc = "lock" /\ Queue("auth")
    <3>1. \A p \in Parties : Waits(p)' <=> Waits(p) \/ p = "auth"
      BY <1>1, <2>2 DEF Waits
    <3>2. ~Waits("auth") /\ "auth" \in Parties /\ tail \in Seq(Parties)
      BY <1>1, NamesAssumption DEF Waits, Parties, Typed
    <3> QED
      BY <2>2, <3>1, <3>2, TailGrows
  <2> QED
    BY <1>3, <2>1, <2>2
<1>5. Typed'
  BY <1>1, <1>2, <1>3, <1>4 DEF Typed
<1>6. RoleInv'
  BY <1>1, <1>3 DEF RoleInv, CallRole, Refreshing, AuthRole, MigrationRole, DisconnectRole
<1>7. HeldInv'
  BY <1>1, <1>4 DEF HeldInv, Parties
<1>8. GoneInv' /\ FlagInv'
  BY <1>1 DEF GoneInv, FlagInv, Active
<1>9. LiveInv'
  BY <1>1, <1>3 DEF LiveInv, Clears, Refreshing, Current
<1>10. GrantInv'
  <2>1. Issued = grants /\ Issued' \in Int /\ grants <= Issued'
    BY <1>1, <1>2, <1>3 DEF Issued
  <2>2. \A b \in Accounts : slot[b] # None => slot[b].grant \in Nat
    BY TokenFacts DEF Typed
  <2>3. \A c \in Calls : Refreshing(c) => call[c].token.grant \in Nat
    BY TokenFacts DEF RoleInv, CallRole
  <2>4. \A b \in Accounts : slot'[b] # None => slot'[b].grant <= Issued'
    BY <1>1, <1>2, <2>1, <2>2 DEF GrantInv
  <2>5. \A c \in Calls : Refreshing(c)' => call'[c].token.grant <= Issued'
    BY <1>1, <1>2, <2>1, <2>3 DEF GrantInv, Refreshing
  <2>6. "token" \in legacy' \/ migration'.pc \in {"request", "lock"} => 1 <= Issued'
    BY <1>1, <1>2, <2>1 DEF GrantInv
  <2> QED
    BY <1>3, <2>4, <2>5, <2>6 DEF GrantInv
<1>11. LineInv'
  BY <1>1, <1>3 DEF LineInv, LineOf, Refreshing, Current
<1> QED
  BY <1>4, <1>5, <1>6, <1>7, <1>8, <1>9, <1>10, <1>11

\* The sign-in has written the newest grant under its account, and is unfinished.
LEMMA SignInStored ==
  ASSUME IInv, Typed', Holds("auth"), auth.pc = "lock", AuthorizeStores,
         auth'.pc \in {"verify", "close"}, auth'.acc = auth.acc,
         UNCHANGED <<connecting, disconnecting, generation, cache, migration, call, disconnect, grants,
                     unguarded>>,
         legacy' \subseteq legacy
  PROVE  GoneInv' /\ LiveInv' /\ GrantInv' /\ LineInv'
<1> USE DEF IInv, TypeOK
<1>1. /\ auth.acc \in Accounts /\ auth.token \in Token /\ auth.token # None
      /\ auth.token.grant = grants
  BY TokenFacts DEF RoleInv, AuthRole, GrantInv
<1>2. /\ slot'[auth.acc] = auth.token /\ \A a \in Accounts \ {auth.acc} : slot'[a] = slot[a]
      /\ gone' = gone \ {auth.acc} /\ unfinished' = unfinished \cup {auth.acc}
  BY <1>1 DEF AuthorizeStores, Typed
<1>3. /\ \A c \in Calls : call[c].pc # "save"
      /\ migration.pc # "publish"
  BY HeldOnce, NamesAssumption DEF HeldInv
<1>4. \A c \in Calls : Refreshing(c) => call[c].acc \in Accounts /\ call[c].token \in Token
  BY DEF RoleInv, CallRole, Refreshing
<1>5. \A a \in Accounts : slot[a] # None => slot'[a] # None
  BY <1>1, <1>2
<1>6. GoneInv'
  BY <1>2, <1>3 DEF GoneInv, Typed
<1>7. LiveInv'
  BY <1>1, <1>2, <1>4, <1>5 DEF LiveInv, Refreshing, Current, Clears
<1>8. GrantInv'
  <2>1. Issued = grants - 1 /\ Issued' = grants /\ grants \in Nat
    BY BoundsAssumption DEF Issued, Typed
  <2>2. \A a \in Accounts : slot[a] # None => slot[a].grant \in Nat
    BY TokenFacts DEF Typed
  <2>3. \A a \in Accounts : slot'[a] # None => slot'[a].grant <= Issued'
    BY <1>1, <1>2, <2>1, <2>2 DEF GrantInv
  <2>4. \A c \in Calls : Refreshing(c)' => call'[c].token.grant <= Issued'
    BY <1>4, <2>1, TokenFacts DEF GrantInv, Refreshing
  <2> QED
    BY <2>1, <2>3, <2>4 DEF GrantInv
<1>9. LineInv'
  BY <1>2, <1>3, <1>4 DEF LineInv, LineOf, Refreshing, Current
<1> QED
  BY <1>6, <1>7, <1>8, <1>9

\* It leaves the tail, whether it has stored anything or not.
LEMMA SignInLeaves ==
  ASSUME IInv, Holds("auth"), auth.pc = "lock", auth'.pc # "lock", Release,
         UNCHANGED <<migration, call, disconnect>>
  PROVE  TailIsHonest' /\ tail' \in Seq(Parties) /\ HeldInv'
<1> USE DEF IInv, TypeOK
<1>1. "auth" \in Parties /\ tail \in Seq(Parties)
  BY DEF Parties, Typed
<1>2. \A p \in Parties : Waits(p)' <=> Waits(p) /\ p # "auth"
  BY NamesAssumption DEF Waits
<1>3. TailIsHonest' /\ tail' \in Seq(Parties)
  BY <1>1, <1>2, TailShrinks
<1>4. HeldInv'
  BY <1>1, HeldReleased, NamesAssumption DEF CallsRest, CallRests, MigrationRests
<1> QED
  BY <1>3, <1>4

LEMMA AuthorizeSavesKeeps ==
  ASSUME IInv, AuthorizeSaves PROVE IInv'
<1> USE DEF IInv, TypeOK
<1>1. /\ UNCHANGED <<connecting, disconnecting, lifecycle, generation, cache, migration, call,
                     disconnect, grants, unguarded>>
      /\ auth.pc = "lock" /\ Holds("auth") /\ Release /\ AuthorizeStores /\ legacy' \subseteq legacy
  BY DEF AuthorizeSaves, ClearLegacy, flags
<1>2. /\ auth' \in AuthState /\ auth'.pc = "verify" /\ auth'.acc = auth.acc
      /\ auth'.token = auth.token /\ auth.acc \in Accounts /\ auth.token \in Token
  BY <1>1, AuthAt DEF AuthorizeSaves, Typed, RoleInv, AuthRole
<1>3. TailIsHonest' /\ tail' \in Seq(Parties) /\ HeldInv'
  BY <1>1, <1>2, SignInLeaves
<1>4. Typed'
  BY <1>1, <1>2, <1>3 DEF Typed, AuthorizeStores
<1>5. RoleInv' /\ FlagInv'
  BY <1>1, <1>2
     DEF RoleInv, CallRole, Refreshing, AuthRole, MigrationRole, DisconnectRole, FlagInv, Active
<1>6. GoneInv' /\ LiveInv' /\ GrantInv' /\ LineInv'
  BY <1>1, <1>2, <1>4, SignInStored
<1> QED
  BY <1>3, <1>4, <1>5, <1>6

LEMMA AuthorizeThrowsKeeps ==
  ASSUME IInv, AuthorizeThrows PROVE IInv'
<1> USE DEF IInv, TypeOK
<1>1. /\ UNCHANGED <<connecting, disconnecting, lifecycle, generation, cache, migration, call,
                     disconnect, legacy, grants, unguarded>>
      /\ auth.pc = "lock" /\ Holds("auth") /\ Release
      /\ AuthorizeStores \/ UNCHANGED <<slot, gone, unfinished>>
  BY DEF AuthorizeThrows, flags
<1>2. /\ auth' \in AuthState /\ auth'.pc = "close" /\ auth'.acc = auth.acc
      /\ auth.acc \in Accounts /\ auth.token \in Token
  BY <1>1, AuthAt DEF AuthorizeThrows, Typed, RoleInv, AuthRole
<1>3. TailIsHonest' /\ tail' \in Seq(Parties) /\ HeldInv'
  BY <1>1, <1>2, SignInLeaves
<1>4. Typed'
  BY <1>1, <1>2, <1>3 DEF Typed, AuthorizeStores
<1>5. RoleInv' /\ FlagInv'
  BY <1>1, <1>2
     DEF RoleInv, CallRole, Refreshing, AuthRole, MigrationRole, DisconnectRole, FlagInv, Active
<1>6. CASE AuthorizeStores
  BY <1>1, <1>2, <1>3, <1>4, <1>5, <1>6, SignInStored
<1>7. CASE UNCHANGED <<slot, gone, unfinished>>
  <2>1. CallsRest /\ AuthRests /\ MigrationRests /\ ClearsRest /\ CacheRests /\ GuardRests
    BY <1>1, <1>2 DEF CallsRest, CallRests, AuthRests, MigrationRests, ClearsRest, Clears, CacheRests,
                      GuardRests
  <2> QED
    BY <1>1, <1>3, <1>4, <1>5, <1>7, <2>1, GenerationsAsTheyWere, RestKeeps DEF Rest, RoleInv
<1> QED
  BY <1>1, <1>6, <1>7

LEMMA Bumped ==
  ASSUME Typed, NEW S, Bump(S)
  PROVE  /\ lifecycle' \in Nat /\ generation' \in [Accounts -> Nat] /\ GenerationsRest
         /\ \A a \in Accounts : a \in S => generation[a] < generation'[a]
<1>1. \A a \in Accounts : generation[a] \in Nat
  BY DEF Typed
<1>2. generation' = [a \in Accounts |-> generation[a] + IF a \in S THEN 1 ELSE 0]
  BY DEF Bump
<1> QED
  BY <1>1, <1>2 DEF Bump, Typed, GenerationsRest

\* From now on no refresh from before it can be the current one.
LEMMA AuthorizePublishesKeeps ==
  ASSUME IInv, AuthorizePublishes PROVE IInv'
<1> USE DEF IInv, TypeOK
<1>1. /\ UNCHANGED <<connecting, disconnecting, tail, migration, call, disconnect, slot, legacy,
                     grants, gone, unguarded>>
      /\ auth.pc = "verify" /\ Bump({auth.acc})
      /\ cache' = [cache EXCEPT ![auth.acc] = auth.token.grant]
      /\ unfinished' = unfinished \ {auth.acc}
  BY DEF AuthorizePublishes, flags
<1>2. /\ auth' \in AuthState /\ auth'.pc = "close"
      /\ auth.acc \in Accounts /\ auth.token \in Token
  BY <1>1, AuthAt DEF AuthorizePublishes, Typed, RoleInv, AuthRole
<1>3. /\ lifecycle' \in Nat /\ generation' \in [Accounts -> Nat] /\ GenerationsRest
      /\ generation[auth.acc] < generation'[auth.acc]
  BY <1>1, <1>2, Bumped
<1>4. auth.token.grant \in 1..MaxGrants
  BY <1>2 DEF Token
<1>5. Typed'
  BY <1>1, <1>2, <1>3, <1>4 DEF Typed
<1>6. TailIsHonest' /\ HeldInv'
  BY <1>1, <1>2, TailStays DEF Waits, HeldInv, Holds
<1>7. CallsRest /\ AuthRests /\ MigrationRests /\ ClearsRest /\ GuardRests
  BY <1>1, <1>2 DEF CallsRest, CallRests, AuthRests, MigrationRests, ClearsRest, Clears, GuardRests
<1>8. RoleInv' /\ FlagInv'
  <2>1. \A c \in Calls : CallRole(c)'
    BY <1>3, <1>5, <1>7, CallRoleRests
  <2> QED
    BY <1>1, <1>2, <2>1 DEF RoleInv, AuthRole, MigrationRole, DisconnectRole, FlagInv, Active
<1>9. GoneInv' /\ GrantInv'
  BY <1>1, <1>7, GoneRests, GrantRests
<1>10. \A c \in Calls : Refreshing(c) => /\ call[c].acc \in Accounts
                                         /\ Current(c)' => Current(c) /\ call[c].acc # auth.acc
  <2>1. \A c \in Calls : Refreshing(c) => /\ call[c].acc \in Accounts
                                          /\ call[c].generation <= generation[call[c].acc]
    BY DEF RoleInv, CallRole, Refreshing
  <2>2. \A c \in Calls : call[c].generation \in Nat
    BY CallFacts
  <2>3. \A a \in Accounts : generation[a] \in Nat /\ generation'[a] \in Nat
    BY <1>3 DEF Typed
  <2>4. \A c \in Calls : Refreshing(c) /\ Current(c)' => call[c].acc # auth.acc
    BY <1>1, <1>2, <1>3, <2>1, <2>2, <2>3 DEF Current
  <2> QED
    BY <1>1, <1>3, <1>5, <2>1, <2>4, NotCurrentAgain
<1>11. LiveInv'
  <2> SUFFICES ASSUME ~unguarded' PROVE LiveInv'
    BY DEF LiveInv
  <2>1. slot[auth.acc] # None /\ ~unguarded
    BY <1>1 DEF LiveInv
  <2>2. connecting
    BY <1>1 DEF RoleInv, AuthRole
  <2>3. \A d \in Disconnects, a \in Accounts : ~Clears(d, a)'
    BY <1>1, <2>1, <2>2 DEF FlagInv, Clears, Active
  <2>4. \A a \in Accounts : cache'[a] # None => slot'[a] # None
    BY <1>1, <1>2, <2>1 DEF LiveInv, Typed
  <2>5. \A c \in Calls : Refreshing(c)' /\ Current(c)' => slot'[call'[c].acc] # None
    BY <1>1, <1>10, <2>1 DEF LiveInv, Refreshing
  <2> QED
    BY <1>1, <1>2, <1>10, <2>3, <2>4, <2>5 DEF LiveInv, Refreshing
<1>12. LineInv'
  BY <1>1, <1>2, <1>10 DEF LineInv, LineOf, Refreshing
<1> QED
  BY <1>5, <1>6, <1>8, <1>9, <1>11, <1>12

-----------------------------------------------------------------------------
(* disconnect and clearLegacyCredentials. *)

\* Those that run while the flag is down are gone: whoever puts it up is the only one.
LEMMA NoneActive ==
  ASSUME FlagInv, ~unguarded, connecting \/ ~disconnecting
  PROVE  \A d \in Disconnects : ~Active(d)
BY DEF FlagInv

LEMMA DisconnectRefusedKeeps ==
  ASSUME IInv, DisconnectRefused PROVE IInv'
<1> USE DEF IInv, TypeOK
<1>1. /\ UNCHANGED <<connecting, lifecycle, generation, cache, tail, auth, migration, call,
                     disconnect, slot, legacy, grants, gone, unfinished>>
      /\ connecting \/ disconnecting
      /\ disconnecting' = FALSE /\ unguarded' = (unguarded \/ disconnecting)
  BY DEF DisconnectRefused
<1>2. Typed'
  BY <1>1 DEF Typed
<1>3. \A p \in Parties : Waits(p)' <=> Waits(p)
  BY <1>1 DEF Waits
<1>4. CallsRest /\ AuthRests /\ MigrationRests /\ ClearsRest /\ CacheRests /\ GuardRests
  BY <1>1 DEF CallsRest, CallRests, AuthRests, MigrationRests, ClearsRest, Clears, CacheRests,
              GuardRests
<1>5. AuthRole' /\ \A d \in Disconnects : DisconnectRole(d)'
  BY <1>1 DEF RoleInv, AuthRole, DisconnectRole
<1>6. FlagInv'
  BY <1>1 DEF FlagInv, Active
<1> QED
  BY <1>1, <1>2, <1>3, <1>4, <1>5, <1>6, QuietKeeps

LEMMA ClearLegacyAsksKeeps ==
  ASSUME IInv, NEW d \in Disconnects, ClearLegacyAsks(d) PROVE IInv'
<1> USE DEF IInv, TypeOK
<1>1. /\ UNCHANGED <<connecting, disconnecting, lifecycle, generation, cache, tail, auth, migration,
                     call, slot, legacy, grants, gone, unguarded, unfinished>>
      /\ disconnect[d].pc = "new"
  BY DEF ClearLegacyAsks, flags, history
<1>2. /\ disconnect' \in [Disconnects -> DisconnectState] /\ disconnect'[d].pc = "asked"
      /\ \A e \in Disconnects \ {d} : disconnect'[e] = disconnect[e]
  BY DisconnectTo, DisconnectAt DEF ClearLegacyAsks, Typed
<1>3. Typed'
  BY <1>1, <1>2 DEF Typed
<1>4. \A p \in Parties : Waits(p)' <=> Waits(p)
  BY <1>1, <1>2 DEF Waits
<1>5. CallsRest /\ AuthRests /\ MigrationRests /\ ClearsRest /\ CacheRests /\ GuardRests
  BY <1>1, <1>2 DEF CallsRest, CallRests, AuthRests, MigrationRests, ClearsRest, Clears, CacheRests,
                    GuardRests
<1>6. AuthRole' /\ (\A e \in Disconnects : DisconnectRole(e)') /\ FlagInv'
  BY <1>1, <1>2 DEF RoleInv, AuthRole, DisconnectRole, FlagInv, Active
<1> QED
  BY <1>1, <1>3, <1>4, <1>5, <1>6, QuietKeeps

LEMMA DisconnectStartsKeeps ==
  ASSUME IInv, NEW d \in Disconnects, NEW a \in Accounts, DisconnectStarts(d, a) PROVE IInv'
<1> USE DEF IInv, TypeOK
<1>1. /\ UNCHANGED <<connecting, lifecycle, generation, cache, tail, auth, migration, call, slot,
                     legacy, grants, gone, unguarded, unfinished>>
      /\ disconnect[d].pc = "new" /\ ~connecting /\ ~disconnecting /\ disconnecting' = TRUE
  BY DEF DisconnectStarts, history
<1>2. /\ disconnect' \in [Disconnects -> DisconnectState]
      /\ disconnect'[d].pc = "confirm" /\ disconnect'[d].acc = a
      /\ \A e \in Disconnects \ {d} : disconnect'[e] = disconnect[e]
  BY DisconnectTo DEF DisconnectStarts, DisconnectState
<1>3. Typed'
  BY <1>1, <1>2 DEF Typed
<1>4. \A p \in Parties : Waits(p)' <=> Waits(p)
  BY <1>1, <1>2 DEF Waits
<1>5. CallsRest /\ AuthRests /\ MigrationRests /\ ClearsRest /\ CacheRests /\ GuardRests
  BY <1>1, <1>2 DEF CallsRest, CallRests, AuthRests, MigrationRests, ClearsRest, Clears, CacheRests,
                    GuardRests
<1>6. AuthRole' /\ \A e \in Disconnects : DisconnectRole(e)'
  BY <1>1, <1>2 DEF RoleInv, AuthRole, DisconnectRole
<1>7. FlagInv'
  BY <1>1, <1>2, NoneActive DEF FlagInv, Active
<1> QED
  BY <1>1, <1>3, <1>4, <1>5, <1>6, <1>7, QuietKeeps

LEMMA DisconnectDrainedKeeps ==
  ASSUME IInv, NEW d \in Disconnects, DisconnectDrained(d) PROVE IInv'
<1> USE DEF IInv, TypeOK
<1>1. /\ UNCHANGED <<connecting, disconnecting, lifecycle, generation, cache, auth, migration,
                     call, slot, legacy, grants, gone, unguarded, unfinished>>
      /\ disconnect[d].pc = "drain" /\ Queue(d)
  BY DEF DisconnectDrained, flags, history
<1>2. /\ disconnect' \in [Disconnects -> DisconnectState]
      /\ disconnect'[d].pc = "lock" /\ disconnect'[d].acc = disconnect[d].acc
      /\ \A e \in Disconnects \ {d} : disconnect'[e] = disconnect[e]
  BY DisconnectTo, DisconnectAt DEF DisconnectDrained, Typed
<1>3. TailIsHonest' /\ tail' \in Seq(Parties) /\ \A p \in Parties : Holds(p) => Holds(p)'
  <2>1. \A p \in Parties : Waits(p)' <=> Waits(p) \/ p = d
    BY <1>1, <1>2, NamesAssumption DEF Waits
  <2>2. ~Waits(d) /\ d \in Parties /\ tail \in Seq(Parties)
    BY <1>1, NamesAssumption DEF Waits, Parties, Typed
  <2> QED
    BY <1>1, <2>1, <2>2, TailGrows
<1>4. Typed'
  BY <1>1, <1>2, <1>3 DEF Typed
<1>5. CallsRest /\ AuthRests /\ MigrationRests /\ ClearsRest /\ CacheRests /\ GuardRests
  BY <1>1, <1>2 DEF CallsRest, CallRests, AuthRests, MigrationRests, ClearsRest, Clears, CacheRests,
                    GuardRests
<1>6. AuthRole' /\ (\A e \in Disconnects : DisconnectRole(e)') /\ FlagInv'
  BY <1>1, <1>2 DEF RoleInv, AuthRole, DisconnectRole, FlagInv, Active
<1>7. Rest /\ HeldInv'
  BY <1>1, <1>3, <1>5, GenerationsAsTheyWere, HeldRests DEF Rest
<1> QED
  BY <1>3, <1>4, <1>6, <1>7, RestKeeps

LEMMA EndFacts ==
  ASSUME Typed, FlagInv, NEW d \in Disconnects, Active(d), DisconnectEnds(d), connecting' = connecting,
         unguarded' = unguarded
  PROVE  /\ disconnect' \in [Disconnects -> DisconnectState] /\ disconnect'[d].pc = "over"
         /\ \A e \in Disconnects \ {d} : disconnect'[e] = disconnect[e]
         /\ disconnecting' = FALSE /\ FlagInv'
<1>1. /\ disconnect' \in [Disconnects -> DisconnectState] /\ disconnect'[d].pc = "over"
      /\ \A e \in Disconnects \ {d} : disconnect'[e] = disconnect[e]
      /\ disconnecting' = FALSE
  BY DisconnectTo DEF DisconnectEnds, DisconnectState
<1>2. FlagInv'
  BY <1>1 DEF FlagInv, Active
<1> QED
  BY <1>1, <1>2

LEMMA DisconnectFailsKeeps ==
  ASSUME IInv, NEW d \in Disconnects, DisconnectFails(d) PROVE IInv'
<1> USE DEF IInv, TypeOK
<1>1. /\ UNCHANGED <<connecting, lifecycle, generation, cache, tail, auth, migration,
                     call, slot, legacy, grants, gone, unguarded, unfinished>>
      /\ disconnect[d].pc \in {"confirm", "drain"} /\ DisconnectEnds(d) /\ Active(d)
  BY DEF DisconnectFails, history, Active
<1>2. /\ disconnect' \in [Disconnects -> DisconnectState] /\ disconnect'[d].pc = "over"
      /\ \A e \in Disconnects \ {d} : disconnect'[e] = disconnect[e]
      /\ disconnecting' = FALSE /\ FlagInv'
  BY <1>1, EndFacts
<1>3. Typed'
  BY <1>1, <1>2 DEF Typed
<1>4. \A p \in Parties : Waits(p)' <=> Waits(p)
  BY <1>1, <1>2 DEF Waits
<1>5. CallsRest /\ AuthRests /\ MigrationRests /\ ClearsRest /\ CacheRests /\ GuardRests
  BY <1>1, <1>2 DEF CallsRest, CallRests, AuthRests, MigrationRests, ClearsRest, Clears, CacheRests,
                    GuardRests
<1>6. AuthRole' /\ \A e \in Disconnects : DisconnectRole(e)'
  BY <1>1, <1>2 DEF RoleInv, AuthRole, DisconnectRole
<1> QED
  BY <1>1, <1>2, <1>3, <1>4, <1>5, <1>6, QuietKeeps

\* A step that puts the generations of some accounts up, empties their cache, and nothing else; one
\* that clears more than before clears these, or what has neither token nor current refresh.
LEMMA OutOfDate ==
  ASSUME IInv, Typed', NEW S, Bump(S), FlagInv',
         UNCHANGED <<connecting, tail, auth, migration, call, slot, legacy, grants, gone, unguarded,
                     unfinished>>,
         \A a \in Accounts : cache'[a] = IF a \in S THEN None ELSE cache[a],
         \A d \in Disconnects : DisconnectRole(d)',
         \A d \in Disconnects : disconnect'[d].pc = "lock" <=> disconnect[d].pc = "lock",
         \A d \in Disconnects, a \in Accounts :
           Clears(d, a)' => Clears(d, a) \/ a \in S \/ slot[a] = None
  PROVE  IInv'
<1> USE DEF IInv, TypeOK
<1>1. GenerationsRest /\ \A a \in S \cap Accounts : generation[a] < generation'[a]
  BY Bumped
<1>2. CallsRest /\ AuthRests /\ MigrationRests /\ CacheRests /\ GuardRests
  BY DEF CallsRest, CallRests, AuthRests, MigrationRests, CacheRests, GuardRests
<1>3. TailIsHonest' /\ HeldInv'
  BY TailStays DEF Waits, HeldInv, Holds
<1>4. RoleInv'
  <2>1. \A c \in Calls : CallRole(c)'
    BY <1>1, <1>2, CallRoleRests
  <2> QED
    BY <2>1 DEF RoleInv, AuthRole, MigrationRole
<1>5. GoneInv' /\ GrantInv' /\ LineInv'
  BY <1>1, <1>2, GoneRests, GrantRests, LineRests
<1>6. LiveInv'
  <2> SUFFICES ASSUME ~unguarded' PROVE LiveInv'
    BY DEF LiveInv
  <2>1. \A c \in Calls : Refreshing(c) => /\ call[c].acc \in Accounts
                                          /\ call[c].generation <= generation[call[c].acc]
    BY DEF RoleInv, CallRole, Refreshing
  <2>2. \A c \in Calls : Refreshing(c) /\ Current(c)' => Current(c) /\ call[c].acc \notin S
    <3>1. \A c \in Calls : call[c].generation \in Nat
      BY CallFacts
    <3>2. \A a \in Accounts : generation[a] \in Nat /\ generation'[a] \in Nat
      BY DEF Typed
    <3>3. \A c \in Calls : Refreshing(c) /\ Current(c)' => call[c].acc \notin S
      BY <1>1, <2>1, <3>1, <3>2 DEF Current
    <3> QED
      BY <1>1, <3>3, NotCurrentAgain
  <2>3. \A d \in Disconnects, a \in Accounts : Clears(d, a)' => cache'[a] = None
    BY DEF LiveInv
  <2>4. \A d \in Disconnects, c \in Calls :
          Refreshing(c)' /\ Clears(d, call[c].acc)' => ~Current(c)'
    BY <2>1, <2>2 DEF LiveInv, Refreshing
  <2>5. \A a \in Accounts : cache'[a] # None => slot'[a] # None
    BY DEF LiveInv
  <2>6. \A c \in Calls : Refreshing(c)' /\ Current(c)' => slot'[call'[c].acc] # None
    BY <2>2 DEF LiveInv, Refreshing
  <2>7. auth'.pc = "verify" => slot'[auth'.acc] # None
    BY DEF LiveInv
  <2> QED
    BY <2>3, <2>4, <2>5, <2>6, <2>7 DEF LiveInv
<1> QED
  BY <1>3, <1>4, <1>5, <1>6

LEMMA DisconnectConfirmedKeeps ==
  ASSUME IInv, NEW d \in Disconnects, DisconnectConfirmed(d) PROVE IInv'
<1> USE DEF IInv, TypeOK
<1> DEFINE a == disconnect[d].acc
<1>1. /\ UNCHANGED <<connecting, disconnecting, tail, auth, migration, call, slot, legacy, grants,
                     gone, unguarded, unfinished>>
      /\ disconnect[d].pc = "confirm" /\ Bump({a}) /\ cache' = [cache EXCEPT ![a] = None]
      /\ a \in Accounts
  BY DEF DisconnectConfirmed, flags, history, RoleInv, DisconnectRole
<1>2. /\ disconnect' \in [Disconnects -> DisconnectState]
      /\ disconnect'[d].pc = "drain" /\ disconnect'[d].acc = a
      /\ \A e \in Disconnects \ {d} : disconnect'[e] = disconnect[e]
  BY DisconnectTo, DisconnectAt DEF DisconnectConfirmed, Typed
<1>3. lifecycle' \in Nat /\ generation' \in [Accounts -> Nat]
  BY <1>1, Bumped
<1>4. Typed'
  BY <1>1, <1>2, <1>3 DEF Typed
<1>5. FlagInv' /\ \A e \in Disconnects : DisconnectRole(e)'
  BY <1>1, <1>2 DEF FlagInv, Active, RoleInv, DisconnectRole
<1>6. \A b \in Accounts : cache'[b] = IF b \in {a} THEN None ELSE cache[b]
  BY <1>1 DEF Typed
<1>7. \A e \in Disconnects, b \in Accounts : Clears(e, b)' => Clears(e, b) \/ b \in {a}
  BY <1>1, <1>2, LegacyAssumption DEF Clears
<1> QED
  BY <1>1, <1>2, <1>4, <1>5, <1>6, <1>7, OutOfDate

LEMMA ClearLegacyStartsKeeps ==
  ASSUME IInv, NEW d \in Disconnects, ClearLegacyStarts(d) PROVE IInv'
<1> USE DEF IInv, TypeOK
<1>1. /\ UNCHANGED <<connecting, tail, auth, migration, call, slot, legacy, grants, gone, unguarded,
                     unfinished>>
      /\ ~connecting /\ ~disconnecting /\ disconnect[d].pc = "asked"
  BY DEF ClearLegacyStarts, history
<1>2. CASE /\ disconnecting' = TRUE /\ Bump(Connected)
           /\ cache' = [a \in Accounts |-> IF a \in Connected THEN None ELSE cache[a]]
           /\ disconnect' = [disconnect EXCEPT ![d].pc = "drain"]
  <2>1. /\ disconnect' \in [Disconnects -> DisconnectState] /\ disconnect'[d].pc = "drain"
        /\ \A e \in Disconnects \ {d} : disconnect'[e] = disconnect[e]
    BY <1>2, DisconnectTo, DisconnectAt DEF Typed
  <2>2. lifecycle' \in Nat /\ generation' \in [Accounts -> Nat]
    BY <1>2, Bumped
  <2>3. cache' \in [Accounts -> 1..MaxGrants \cup {None}]
    BY <1>2 DEF Typed
  <2>4. Typed'
    BY <1>1, <1>2, <2>1, <2>2, <2>3 DEF Typed
  <2>5. FlagInv' /\ \A e \in Disconnects : DisconnectRole(e)'
    BY <1>1, <1>2, <2>1, NoneActive DEF FlagInv, Active, RoleInv, DisconnectRole
  <2>6. \A e \in Disconnects, a \in Accounts :
          Clears(e, a)' => Clears(e, a) \/ a \in Connected \/ slot[a] = None
    BY <2>1 DEF Clears, Connected
  <2>7. \A a \in Accounts : cache'[a] = IF a \in Connected THEN None ELSE cache[a]
    BY <1>2
  <2>8. \A e \in Disconnects : disconnect'[e].pc = "lock" <=> disconnect[e].pc = "lock"
    BY <1>1, <2>1
  <2> QED
    BY <1>1, <1>2, <2>4, <2>5, <2>6, <2>7, <2>8, OutOfDate
<1>3. CASE /\ UNCHANGED <<lifecycle, generation, cache>>
           /\ \/ /\ disconnecting' = TRUE
                 /\ \E a \in Accounts :
                      disconnect' = [disconnect EXCEPT ![d] = [pc |-> "confirm", acc |-> a]]
              \/ DisconnectEnds(d)
  <2>1. /\ disconnect' \in [Disconnects -> DisconnectState]
        /\ \/ /\ disconnect'[d].pc = "confirm" /\ disconnect'[d].acc \in Accounts
              /\ disconnecting' = TRUE
           \/ disconnect'[d].pc = "over" /\ disconnecting' = FALSE
        /\ \A e \in Disconnects \ {d} : disconnect'[e] = disconnect[e]
    <3>1. CASE /\ disconnecting' = TRUE
               /\ \E a \in Accounts :
                    disconnect' = [disconnect EXCEPT ![d] = [pc |-> "confirm", acc |-> a]]
      <4>1. PICK a \in Accounts : disconnect' = [disconnect EXCEPT ![d] = [pc |-> "confirm", acc |-> a]]
        BY <3>1
      <4>2. LET r == [pc |-> "confirm", acc |-> a]
            IN  r \in DisconnectState /\ r.pc = "confirm" /\ r.acc = a
        BY DEF DisconnectState
      <4> QED
        BY <3>1, <4>1, <4>2, DisconnectTo
    <3>2. CASE DisconnectEnds(d)
      BY <3>2, DisconnectTo DEF DisconnectEnds, DisconnectState
    <3> QED
      BY <1>3, <3>1, <3>2
  <2>2. Typed'
    BY <1>1, <1>3, <2>1 DEF Typed
  <2>3. \A p \in Parties : Waits(p)' <=> Waits(p)
    BY <1>1, <2>1 DEF Waits
  <2>4. CallsRest /\ AuthRests /\ MigrationRests /\ ClearsRest /\ CacheRests /\ GuardRests
    BY <1>1, <1>3, <2>1 DEF CallsRest, CallRests, AuthRests, MigrationRests, ClearsRest, Clears,
                            CacheRests, GuardRests
  <2>5. AuthRole' /\ \A e \in Disconnects : DisconnectRole(e)'
    BY <1>1, <2>1 DEF RoleInv, AuthRole, DisconnectRole
  <2>6. FlagInv'
    BY <1>1, <2>1, NoneActive DEF FlagInv, Active
  <2> QED
    BY <1>1, <1>3, <2>2, <2>3, <2>4, <2>5, <2>6, QuietKeeps
<1> QED
  BY <1>2, <1>3 DEF ClearLegacyStarts

\* What it deletes has no token and no current refresh left.
LEMMA SlotsCleared ==
  ASSUME IInv, NEW d \in Disconnects, disconnect[d].pc = "lock", Holds(d), DisconnectEnds(d), Release,
         UNCHANGED <<connecting, lifecycle, generation, cache, auth, migration, call, grants,
                     unguarded, unfinished>>,
         slot' \in [Accounts -> Token \cup {None}],
         \A a \in Accounts : slot'[a] = slot[a] \/ (slot'[a] = None /\ Clears(d, a)),
         legacy' \subseteq legacy, gone' \subseteq Accounts, \A a \in gone' : slot'[a] = None,
         LegacyAccount \in gone' => ~({"token", "account"} \subseteq legacy')
  PROVE  IInv'
<1> USE DEF IInv, TypeOK
<1>1. /\ disconnect' \in [Disconnects -> DisconnectState] /\ disconnect'[d].pc = "over"
      /\ \A e \in Disconnects \ {d} : disconnect'[e] = disconnect[e]
      /\ disconnecting' = FALSE /\ FlagInv'
  BY EndFacts DEF Active
<1>2. d \in Parties /\ tail \in Seq(Parties)
  BY DEF Parties, Typed
<1>3. TailIsHonest' /\ tail' \in Seq(Parties)
  <2>1. \A p \in Parties : Waits(p)' <=> Waits(p) /\ p # d
    BY <1>1, NamesAssumption DEF Waits
  <2> QED
    BY <1>2, <2>1, TailShrinks
<1>4. HeldInv'
  BY <1>2, HeldReleased, NamesAssumption DEF CallsRest, CallRests, MigrationRests
<1>5. Typed'
  BY <1>1, <1>3 DEF Typed
<1>6. RoleInv'
  BY <1>1 DEF RoleInv, CallRole, Refreshing, AuthRole, MigrationRole, DisconnectRole
<1>7. (\A c \in Calls : call[c].pc # "save") /\ migration.pc # "publish"
  BY HeldOnce, NamesAssumption DEF HeldInv
<1>8. GoneInv'
  BY <1>7 DEF GoneInv
<1>9. \A c \in Calls : Refreshing(c) => call[c].acc \in Accounts /\ call[c].token \in Token
  BY DEF RoleInv, CallRole, Refreshing
<1>10. ASSUME ~unguarded
       PROVE  /\ \A e \in Disconnects, a \in Accounts : ~Clears(e, a)'
              /\ \A a \in Accounts : cache[a] # None => slot'[a] = slot[a]
              /\ \A c \in Calls : Refreshing(c) /\ Current(c) => slot'[call[c].acc] = slot[call[c].acc]
              /\ auth.pc # "verify"
  <2>1. Active(d)
    BY DEF Active
  <2>2. /\ \A e \in Disconnects : Active(e) => e = d
        /\ ~connecting
    BY <1>10, <2>1 DEF FlagInv
  <2>3. \A e \in Disconnects, a \in Accounts : ~Clears(e, a)'
    BY <1>1, <2>2 DEF Clears, Active
  <2> QED
    BY <1>9, <1>10, <2>2, <2>3 DEF LiveInv, RoleInv, AuthRole
<1>11. LiveInv'
  <2> SUFFICES ASSUME ~unguarded PROVE LiveInv'
    BY DEF LiveInv
  <2>1. \A e \in Disconnects, c \in Calls : ~(Refreshing(c)' /\ Clears(e, call[c].acc)')
    BY <1>9, <1>10 DEF Refreshing
  <2>2. \A c \in Calls : Refreshing(c)' /\ Current(c)' => slot'[call[c].acc] # None
    BY <1>10 DEF LiveInv, Refreshing, Current
  <2> QED
    BY <1>10, <2>1, <2>2 DEF LiveInv
<1>12. GrantInv'
  BY DEF GrantInv, Issued, Refreshing
<1>13. LineInv'
  BY <1>7, <1>10 DEF LineInv, LineOf, Refreshing, Current
<1> QED
  BY <1>1, <1>3, <1>4, <1>5, <1>6, <1>8, <1>11, <1>12, <1>13

LEMMA DisconnectClearsKeeps ==
  ASSUME IInv, NEW d \in Disconnects, DisconnectClears(d) PROVE IInv'
<1> DEFINE cleared == IF disconnect[d].acc = None THEN Accounts ELSE {disconnect[d].acc}
<1>1. /\ UNCHANGED <<connecting, lifecycle, generation, cache, auth, migration, call, grants,
                     unguarded, unfinished>>
      /\ disconnect[d].pc = "lock" /\ Holds(d) /\ DisconnectEnds(d) /\ Release
      /\ slot' = [a \in Accounts |-> IF a \in cleared THEN None ELSE slot[a]]
      /\ legacy' = IF disconnect[d].acc = None THEN {} ELSE legacy
      /\ gone' = gone \cup {a \in cleared : a = LegacyAccount
                                              => ~({"token", "account"} \subseteq legacy')}
  BY DEF DisconnectClears
<1>2. slot \in [Accounts -> Token \cup {None}] /\ gone \subseteq Accounts /\ cleared \subseteq Accounts
  BY <1>1 DEF IInv, TypeOK, Typed, DisconnectState
<1>3. slot' \in [Accounts -> Token \cup {None}] /\ gone' \subseteq Accounts
  BY <1>1, <1>2
<1>4. \A a \in Accounts : slot'[a] = slot[a] \/ (slot'[a] = None /\ Clears(d, a))
  BY <1>1 DEF Clears
<1>5. /\ legacy' \subseteq legacy /\ \A a \in gone' : slot'[a] = None
      /\ LegacyAccount \in gone' => ~({"token", "account"} \subseteq legacy')
  BY <1>1, <1>2 DEF IInv, GoneInv
<1> QED
  BY <1>1, <1>3, <1>4, <1>5, SlotsCleared

LEMMA DisconnectThrowsKeeps ==
  ASSUME IInv, NEW d \in Disconnects, DisconnectThrows(d) PROVE IInv'
<1>1. /\ UNCHANGED <<connecting, lifecycle, generation, cache, auth, migration, call, grants,
                     gone, unguarded, unfinished>>
      /\ disconnect[d].pc = "lock" /\ Holds(d) /\ DisconnectEnds(d) /\ Release
      /\ legacy' \subseteq legacy
  BY DEF DisconnectThrows, ClearLegacy, history
<1>2. PICK lost \in SUBSET (IF disconnect[d].acc = None THEN Accounts ELSE {disconnect[d].acc}) :
        slot' = [a \in Accounts |-> IF a \in lost THEN None ELSE slot[a]]
  BY DEF DisconnectThrows
<1>3. slot \in [Accounts -> Token \cup {None}] /\ gone \subseteq Accounts
  BY DEF IInv, TypeOK, Typed
<1>4. slot' \in [Accounts -> Token \cup {None}]
  BY <1>2, <1>3
<1>5. \A a \in Accounts : slot'[a] = slot[a] \/ (slot'[a] = None /\ Clears(d, a))
  BY <1>1, <1>2 DEF Clears
<1>6. /\ \A a \in gone' : slot'[a] = None
      /\ LegacyAccount \in gone' => ~({"token", "account"} \subseteq legacy')
  BY <1>1, <1>2, <1>3 DEF IInv, GoneInv
<1> QED
  BY <1>1, <1>3, <1>4, <1>5, <1>6, SlotsCleared

-----------------------------------------------------------------------------
(* accessToken. *)

LEMMA ReturnFacts ==
  ASSUME Typed, NEW c \in Calls, CallReturns(c)
  PROVE  /\ call' \in [Calls -> CallState] /\ call'[c].pc = "idle" /\ CallsRest
         /\ \A o \in Calls \ {c} : call'[o] = call[o]
<1>1. /\ call' \in [Calls -> CallState] /\ call'[c].pc = "idle"
      /\ \A o \in Calls \ {c} : call'[o] = call[o]
  BY CallTo, IdleFacts DEF CallReturns
<1> QED
  BY <1>1 DEF CallsRest, CallRests

\* A call that has no refresh token at hand, before the step and after it.
LEMMA CallQuietKeeps ==
  ASSUME IInv, NEW c \in Calls,
         call' \in [Calls -> CallState], \A o \in Calls \ {c} : call'[o] = call[o],
         CallRests(c), ~(call[c].pc \in {"lock", "save", "publish"}),
         ~(call'[c].pc \in {"lock", "save", "publish"}),
         migration' \in MigrationState,
         migration' = migration \/ (migration.pc = "idle" /\ migration'.pc = "inspect"),
         UNCHANGED <<connecting, disconnecting, lifecycle, generation, cache, tail, auth, disconnect,
                     slot, legacy, grants, gone, unguarded, unfinished>>
  PROVE  IInv'
<1> USE DEF IInv, TypeOK
<1>1. Typed'
  BY DEF Typed
<1>2. \A p \in Parties : Waits(p)' <=> Waits(p)
  BY DEF Waits
<1>3. CallsRest /\ AuthRests /\ MigrationRests /\ ClearsRest /\ CacheRests /\ GuardRests
  BY DEF CallsRest, CallRests, AuthRests, MigrationRests, ClearsRest, Clears, CacheRests, GuardRests
<1>4. AuthRole' /\ (\A d \in Disconnects : DisconnectRole(d)') /\ FlagInv'
  BY DEF RoleInv, AuthRole, DisconnectRole, FlagInv, Active
<1> QED
  BY <1>1, <1>2, <1>3, <1>4, QuietKeeps

LEMMA CallAsksKeeps ==
  ASSUME IInv, NEW c \in Calls, NEW a \in Accounts, CallAsks(c, a) PROVE IInv'
<1> USE DEF IInv, TypeOK
<1>1. /\ UNCHANGED <<connecting, disconnecting, lifecycle, generation, cache, tail, auth, disconnect,
                     slot, legacy, grants, gone, unguarded, unfinished>>
      /\ call[c].pc = "idle"
      /\ call' = [call EXCEPT ![c] = [NoCall EXCEPT !.pc = "awaiting", !.acc = a]]
  BY DEF CallAsks, flags, history
<1>2. /\ migration' \in MigrationState
      /\ migration' = migration \/ (migration.pc = "idle" /\ migration'.pc = "inspect")
  BY MigrationStarts DEF CallAsks
<1>3. LET r == [NoCall EXCEPT !.pc = "awaiting", !.acc = a]
      IN  r \in CallState /\ r.pc = "awaiting" /\ r.acc = a
  BY DEF NoCall, CallState
<1>4. /\ call' \in [Calls -> CallState] /\ call'[c].pc = "awaiting" /\ call'[c].acc = a
      /\ \A o \in Calls \ {c} : call'[o] = call[o]
  BY <1>1, <1>3, CallTo
<1> QED
  BY <1>1, <1>2, <1>4, CallQuietKeeps DEF CallRests

LEMMA CallResolvesKeeps ==
  ASSUME IInv, NEW c \in Calls, CallResolves(c) PROVE IInv'
<1> USE DEF IInv, TypeOK
<1>1. /\ UNCHANGED <<connecting, disconnecting, lifecycle, generation, cache, tail, auth, migration,
                     disconnect, slot, legacy, grants, gone, unguarded, unfinished>>
      /\ call[c].pc = "resolved" /\ migration \in MigrationState
  BY DEF CallResolves, flags, history, Typed
<1>2. CASE CallReturns(c)
  BY <1>1, <1>2, ReturnFacts, CallQuietKeeps DEF CallRests
<1>3. CASE call' = [call EXCEPT ![c].pc = "load", ![c].generation = generation[call[c].acc]]
  <2>1. call[c] \in CallState /\ call[c].acc \in Accounts
    BY <1>1, CallFacts DEF RoleInv, CallRole
  <2>2. generation[call[c].acc] \in Nat
    BY <2>1 DEF Typed
  <2>3. LET r == [call[c] EXCEPT !.pc = "load", !.generation = generation[call[c].acc]]
        IN  r \in CallState /\ r.pc = "load" /\ r.acc = call[c].acc /\ call' = [call EXCEPT ![c] = r]
    BY <1>3, <2>1, <2>2 DEF CallState, Typed
  <2>4. /\ call' \in [Calls -> CallState] /\ call'[c].pc = "load" /\ call'[c].acc \in Accounts
        /\ \A o \in Calls \ {c} : call'[o] = call[o]
    BY <2>1, <2>3, CallTo
  <2> QED
    BY <1>1, <2>4, CallQuietKeeps DEF CallRests
<1> QED
  BY <1>2, <1>3 DEF CallResolves

LEMMA CallRefusedKeeps ==
  ASSUME IInv, NEW c \in Calls, CallRefused(c) PROVE IInv'
<1>1. /\ UNCHANGED <<connecting, disconnecting, lifecycle, generation, cache, tail, auth, migration,
                     disconnect, slot, legacy, grants, gone, unguarded, unfinished>>
      /\ call[c].pc \in {"load", "request"} /\ CallReturns(c)
  BY DEF CallRefused, flags, history
<1>2. Typed /\ migration \in MigrationState
  BY DEF IInv, TypeOK, Typed
<1> QED
  BY <1>1, <1>2, ReturnFacts, CallQuietKeeps DEF CallRests

\* A call that goes on with the refresh token at hand.
LEMMA CallGoesOn ==
  ASSUME IInv, NEW c \in Calls,
         call' \in [Calls -> CallState], \A o \in Calls \ {c} : call'[o] = call[o],
         UNCHANGED <<connecting, disconnecting, lifecycle, generation, cache, auth, migration,
                     disconnect, slot, legacy, grants, gone, unguarded, unfinished>>,
         tail' \in Seq(Parties), TailIsHonest', HeldInv', CallRole(c)',
         call'[c].pc \in {"request", "lock", "save"}, call'[c].token.grant <= Issued,
         call'[c].pc = "save" => slot[call'[c].acc] # None /\ auth.pc # "verify",
         ~unguarded => /\ \A d \in Disconnects : Clears(d, call'[c].acc) => ~Current(c)'
                       /\ Current(c)' => slot[call'[c].acc] # None
                       /\ LineOf(c)'
  PROVE  IInv'
<1> USE DEF IInv, TypeOK
<1>1. Typed'
  BY DEF Typed
<1>2. RoleInv'
  BY DEF RoleInv, CallRole, Refreshing, AuthRole, MigrationRole, DisconnectRole
<1>3. GoneInv' /\ FlagInv'
  BY DEF GoneInv, FlagInv, Active
<1>4. LiveInv'
  <2> SUFFICES ASSUME ~unguarded PROVE LiveInv'
    BY DEF LiveInv
  <2>1. \A d \in Disconnects, o \in Calls : Refreshing(o)' /\ Clears(d, call[o].acc)' => ~Current(o)'
    BY DEF LiveInv, Refreshing, Current, Clears
  <2>2. \A o \in Calls : Refreshing(o)' /\ Current(o)' => slot'[call'[o].acc] # None
    BY DEF LiveInv, Refreshing, Current
  <2> QED
    BY <2>1, <2>2 DEF LiveInv, Clears
<1>5. GrantInv'
  BY DEF GrantInv, Issued, Refreshing
<1>6. LineInv'
  BY DEF LineInv, LineOf, Refreshing, Current
<1> QED
  BY <1>1, <1>2, <1>3, <1>4, <1>5, <1>6

\* While a call may go on nobody disconnects: what is about to be cleared is out of date.
LEMMA LivesFacts ==
  ASSUME IInv, NEW c \in Calls, CallLives(c)
  PROVE  /\ Current(c) /\ ~connecting /\ auth.pc # "verify"
         /\ ~unguarded => \A d \in Disconnects, a \in Accounts \cup {None} : ~Clears(d, a)
<1>1. Current(c) /\ ~connecting /\ ~disconnecting
  BY DEF CallLives, Current
<1>2. ~unguarded => \A d \in Disconnects : ~Active(d)
  BY <1>1, NoneActive DEF IInv
<1> QED
  BY <1>1, <1>2 DEF Clears, Active, IInv, RoleInv, AuthRole

LEMMA CallLoadsKeeps ==
  ASSUME IInv, NEW c \in Calls, CallLoads(c) PROVE IInv'
<1> USE DEF IInv, TypeOK
<1>1. /\ UNCHANGED <<connecting, disconnecting, lifecycle, generation, cache, tail, auth, migration,
                     disconnect, slot, legacy, grants, gone, unguarded, unfinished>>
      /\ call[c].pc = "load"
  BY DEF CallLoads, flags, history
<1>2. CASE CallReturns(c)
  <2>1. migration \in MigrationState
    BY DEF Typed
  <2> QED
    BY <1>1, <1>2, <2>1, ReturnFacts, CallQuietKeeps DEF CallRests
<1>3. CASE /\ CallLives(c) /\ slot[call[c].acc] # None
           /\ call' = [call EXCEPT ![c].pc = "request", ![c].token = slot[call[c].acc]]
  <2> DEFINE a == call[c].acc
  <2>1. call[c] \in CallState /\ a \in Accounts /\ call[c].generation = generation[a]
    BY <1>1, <1>3, CallFacts DEF RoleInv, CallRole, CallLives
  <2>2. slot[a] \in Token /\ generation[a] \in Nat
    BY <1>3, <2>1 DEF Typed
  <2>3. LET r == [call[c] EXCEPT !.pc = "request", !.token = slot[a]]
        IN  /\ r \in CallState /\ r.pc = "request" /\ r.acc = a /\ r.token = slot[a]
            /\ r.generation = generation[a] /\ call' = [call EXCEPT ![c] = r]
    BY <1>3, <2>1, <2>2 DEF CallState, Typed
  <2>4. /\ call' \in [Calls -> CallState] /\ \A o \in Calls \ {c} : call'[o] = call[o]
        /\ call'[c].pc = "request" /\ call'[c].acc = a /\ call'[c].token = slot[a]
        /\ call'[c].generation = generation[a]
    BY <2>3, CallTo
  <2>5. tail' \in Seq(Parties)
    BY <1>1 DEF Typed
  <2>6. TailIsHonest'
    BY <1>1, <2>4, TailStays DEF Waits
  <2>7. HeldInv'
    BY <1>1, <2>4 DEF HeldInv, Holds
  <2>8. CallRole(c)'
    BY <1>1, <2>1, <2>2, <2>4 DEF CallRole, Refreshing
  <2>9. call'[c].token.grant <= Issued
    BY <1>3, <2>1, <2>4 DEF GrantInv
  <2>10. ~unguarded => /\ \A d \in Disconnects : Clears(d, a) => ~Current(c)'
                       /\ Current(c)' => slot[a] # None
                       /\ LineOf(c)'
    BY <1>1, <1>3, <2>1, <2>4, LivesFacts DEF LineOf
  <2> QED
    BY <1>1, <2>4, <2>5, <2>6, <2>7, <2>8, <2>9, <2>10, CallGoesOn
<1> QED
  BY <1>2, <1>3 DEF CallLoads

\* A refresh that is still the current one has the token of a stored credential to publish.
LEMMA CachePublished ==
  ASSUME IInv, Typed', NEW c \in Calls, Refreshing(c), CallLives(c),
         cache' = [cache EXCEPT ![call[c].acc] = call[c].token.grant], CallReturns(c),
         UNCHANGED <<generation, auth, disconnect, slot, unguarded>>
  PROVE  LiveInv'
<1> USE DEF IInv, TypeOK
<1> SUFFICES ASSUME ~unguarded PROVE LiveInv'
  BY DEF LiveInv
<1>1. call'[c].pc = "idle" /\ \A o \in Calls \ {c} : call'[o] = call[o]
  BY ReturnFacts
<1>2. \A o \in Calls : Refreshing(o) => call[o].acc \in Accounts
  BY DEF RoleInv, CallRole, Refreshing
<1>3. slot[call[c].acc] # None /\ \A d \in Disconnects, a \in Accounts : ~Clears(d, a)
  BY LivesFacts DEF LiveInv
<1>4. \A d \in Disconnects, a \in Accounts : ~Clears(d, a)'
  BY <1>3 DEF Clears
<1>5. \A a \in Accounts : cache'[a] # None => slot'[a] # None
  BY <1>2, <1>3 DEF LiveInv, Typed
<1>6. \A o \in Calls : Refreshing(o)' => call'[o] = call[o] /\ Refreshing(o)
  BY <1>1 DEF Refreshing
<1>7. \A o \in Calls : Refreshing(o)' /\ Current(o)' => slot'[call'[o].acc] # None
  BY <1>6 DEF LiveInv, Current
<1>8. \A d \in Disconnects, o \in Calls : ~(Refreshing(o)' /\ Clears(d, call[o].acc)')
  BY <1>2, <1>4, <1>6
<1> QED
  BY <1>4, <1>5, <1>7, <1>8 DEF LiveInv

LEMMA CachedType ==
  ASSUME Typed, RoleInv, NEW c \in Calls, Refreshing(c)
  PROVE  [cache EXCEPT ![call[c].acc] = call[c].token.grant] \in [Accounts -> 1..MaxGrants \cup {None}]
<1>1. call[c].token.grant \in 1..MaxGrants
  BY DEF RoleInv, CallRole, Token
<1> QED
  BY <1>1 DEF Typed

LEMMA CallAnsweredKeeps ==
  ASSUME IInv, NEW c \in Calls, CallAnswered(c) PROVE IInv'
<1> USE DEF IInv, TypeOK
<1>1. /\ UNCHANGED <<connecting, disconnecting, lifecycle, generation, auth, migration, disconnect,
                     slot, legacy, grants, gone, unguarded, unfinished>>
      /\ call[c].pc = "request" /\ CallLives(c) /\ Refreshing(c)
  BY DEF CallAnswered, flags, history, Refreshing
<1>2. CASE /\ cache' = [cache EXCEPT ![call[c].acc] = call[c].token.grant]
           /\ CallReturns(c) /\ UNCHANGED tail
  <2>1. /\ call' \in [Calls -> CallState] /\ call'[c].pc = "idle" /\ CallsRest
        /\ \A o \in Calls \ {c} : call'[o] = call[o]
    BY <1>2, ReturnFacts
  <2>2. Typed'
    BY <1>1, <1>2, <2>1, CachedType DEF Typed
  <2>3. TailIsHonest'
    BY <1>1, <1>2, <2>1, TailStays DEF Waits
  <2>4. /\ AuthRests /\ MigrationRests /\ GuardRests /\ GenerationsRest
        /\ \A p \in Parties : Holds(p) => Holds(p)'
    BY <1>1, <1>2, GenerationsAsTheyWere DEF AuthRests, MigrationRests, GuardRests, Holds
  <2>5. RoleInv'
    BY <1>1, <2>1, <2>2, <2>4, CallRoleRests DEF RoleInv, AuthRole, MigrationRole, DisconnectRole
  <2>6. HeldInv' /\ GoneInv' /\ GrantInv' /\ LineInv'
    BY <1>1, <2>1, <2>2, <2>4, HeldRests, GoneRests, GrantRests, LineRests
  <2>7. FlagInv'
    BY <1>1 DEF FlagInv, Active
  <2>8. LiveInv'
    BY <1>1, <1>2, <2>2, CachePublished
  <2> QED
    BY <2>2, <2>3, <2>5, <2>6, <2>7, <2>8
<1>3. CASE /\ call' = [call EXCEPT ![c].pc = "lock", ![c].token.version = 1]
           /\ Queue(c) /\ UNCHANGED cache
  <2> DEFINE a == call[c].acc
  <2>1. call[c] \in CallState /\ a \in Accounts /\ call[c].token \in Token
    BY <1>1, CallFacts DEF RoleInv, CallRole
  <2>2. LET t == [call[c].token EXCEPT !.version = 1]
        IN  t \in Token /\ t.grant = call[c].token.grant /\ t.version = 1
    BY <2>1 DEF Token
  <2>3. LET r == [call[c] EXCEPT !.pc = "lock", !.token = [call[c].token EXCEPT !.version = 1]]
        IN  /\ r \in CallState /\ r.pc = "lock" /\ r.acc = a /\ r.generation = call[c].generation
            /\ r.token = [call[c].token EXCEPT !.version = 1]
            /\ call' = [call EXCEPT ![c] = r]
    BY <1>3, <2>1, <2>2 DEF CallState, Typed
  <2>4. /\ call' \in [Calls -> CallState] /\ \A o \in Calls \ {c} : call'[o] = call[o]
        /\ call'[c].pc = "lock" /\ call'[c].acc = a /\ call'[c].generation = call[c].generation
        /\ call'[c].token \in Token /\ call'[c].token.grant = call[c].token.grant
        /\ call'[c].token.version = 1
    BY <2>2, <2>3, CallTo
  <2>5. TailIsHonest' /\ tail' \in Seq(Parties) /\ \A p \in Parties : Holds(p) => Holds(p)'
    <3>1. \A p \in Parties : Waits(p)' <=> Waits(p) \/ p = c
      BY <1>1, <2>4, NamesAssumption DEF Waits
    <3>2. ~Waits(c) /\ c \in Parties /\ tail \in Seq(Parties)
      BY <1>1, NamesAssumption DEF Waits, Parties, Typed
    <3> QED
      BY <1>3, <3>1, <3>2, TailGrows
  <2>6. HeldInv'
    BY <1>1, <2>4, <2>5 DEF HeldInv, Parties
  <2>7. CallRole(c)'
    BY <1>1, <2>1, <2>4 DEF CallRole, Refreshing, RoleInv
  <2>8. call'[c].token.grant <= Issued
    BY <1>1, <2>4 DEF GrantInv
  <2>9. ~unguarded => /\ \A d \in Disconnects : Clears(d, a) => ~Current(c)'
                      /\ Current(c)' => slot[a] # None
                      /\ LineOf(c)'
    BY <1>1, <2>1, <2>4, LivesFacts DEF LiveInv, LineInv, LineOf
  <2> QED
    BY <1>1, <1>3, <2>4, <2>5, <2>6, <2>7, <2>8, <2>9, CallGoesOn
<1> QED
  BY <1>2, <1>3 DEF CallAnswered

LEMMA CallEntersKeeps ==
  ASSUME IInv, NEW c \in Calls, CallEnters(c) PROVE IInv'
<1> USE DEF IInv, TypeOK
<1> DEFINE a == call[c].acc
<1>1. /\ UNCHANGED <<connecting, disconnecting, lifecycle, generation, cache, tail, auth, migration,
                     disconnect, slot, legacy, grants, gone, unguarded, unfinished>>
      /\ call[c].pc = "lock" /\ Holds(c) /\ CallLives(c) /\ slot[a] # None /\ Refreshing(c)
  BY DEF CallEnters, flags, history, Refreshing
<1>2. /\ call' \in [Calls -> CallState] /\ \A o \in Calls \ {c} : call'[o] = call[o]
      /\ call'[c].pc = "save" /\ call'[c].acc = a /\ call'[c].generation = call[c].generation
      /\ call'[c].token = call[c].token
  <2>1. call[c] \in CallState
    BY CallFacts
  <2>2. LET r == [call[c] EXCEPT !.pc = "save"]
        IN  /\ r \in CallState /\ r.pc = "save" /\ r.acc = a /\ r.generation = call[c].generation
            /\ r.token = call[c].token /\ call' = [call EXCEPT ![c] = r]
    BY <2>1, CallAt DEF CallEnters, Typed
  <2> QED
    BY <2>2, CallTo
<1>3. TailIsHonest' /\ tail' \in Seq(Parties)
  BY <1>1, <1>2, TailStays DEF Waits, Typed
<1>4. HeldInv'
  BY <1>1, <1>2 DEF HeldInv, Holds
<1>5. CallRole(c)'
  BY <1>1, <1>2 DEF CallRole, Refreshing, RoleInv
<1>6. call'[c].token.grant <= Issued
  BY <1>1, <1>2 DEF GrantInv
<1>7. auth.pc # "verify"
  BY <1>1, LivesFacts
<1>8. ~unguarded => /\ \A d \in Disconnects : Clears(d, a) => ~Current(c)'
                    /\ Current(c)' => slot[a] # None
                    /\ LineOf(c)'
  BY <1>1, <1>2, LivesFacts DEF LiveInv, LineInv, LineOf, RoleInv, CallRole
<1> QED
  BY <1>1, <1>2, <1>3, <1>4, <1>5, <1>6, <1>7, <1>8, CallGoesOn

\* It writes over the token it has rotated, and is still alone with the tail.
LEMMA SavesFacts ==
  ASSUME IInv, NEW c \in Calls, CallSaves(c)
  PROVE  /\ call[c].acc \in Accounts /\ call[c].token \in Token /\ call[c].token.version = 1
         /\ slot[call[c].acc] # None
         /\ slot' \in [Accounts -> Token \cup {None}] /\ slot'[call[c].acc] = call[c].token
         /\ \A a \in Accounts \ {call[c].acc} : slot'[a] = slot[a]
         /\ ~unguarded /\ call[c].acc \notin unfinished
              => slot[call[c].acc].grant = call[c].token.grant
<1>1. /\ call[c].pc = "save" /\ slot' = [slot EXCEPT ![call[c].acc] = call[c].token]
      /\ Refreshing(c)
  BY DEF CallSaves, Refreshing
<1>2. /\ call[c].acc \in Accounts /\ call[c].token \in Token /\ call[c].token.version = 1
      /\ slot[call[c].acc] # None
  BY <1>1 DEF IInv, RoleInv, CallRole, GoneInv
<1>3. ~unguarded /\ call[c].acc \notin unfinished => slot[call[c].acc].grant = call[c].token.grant
  BY <1>1 DEF IInv, LineInv, LineOf
<1> QED
  BY <1>1, <1>2, <1>3 DEF IInv, TypeOK, Typed

LEMMA CallSavesKeeps ==
  ASSUME IInv, NEW c \in Calls, CallSaves(c) PROVE IInv'
<1> USE DEF IInv, TypeOK
<1> DEFINE a == call[c].acc
<1>1. /\ UNCHANGED <<connecting, disconnecting, lifecycle, generation, cache, tail, auth, migration,
                     disconnect, legacy, grants, gone, unguarded, unfinished>>
      /\ call[c].pc = "save" /\ Refreshing(c)
  BY DEF CallSaves, flags, history, Refreshing
<1>2. /\ a \in Accounts /\ call[c].token \in Token /\ call[c].token # None /\ slot[a] # None
      /\ slot' \in [Accounts -> Token \cup {None}] /\ slot'[a] = call[c].token
      /\ \A b \in Accounts \ {a} : slot'[b] = slot[b]
      /\ ~unguarded /\ a \notin unfinished => slot[a].grant = call[c].token.grant
  BY SavesFacts, TokenFacts
<1>3. /\ call' \in [Calls -> CallState] /\ \A o \in Calls \ {c} : call'[o] = call[o]
      /\ call'[c].pc = "publish" /\ call'[c].acc = a /\ call'[c].generation = call[c].generation
      /\ call'[c].token = call[c].token
  <2>1. call[c] \in CallState
    BY CallFacts
  <2>2. LET r == [call[c] EXCEPT !.pc = "publish"]
        IN  /\ r \in CallState /\ r.pc = "publish" /\ r.acc = a /\ r.generation = call[c].generation
            /\ r.token = call[c].token /\ call' = [call EXCEPT ![c] = r]
    BY <2>1, CallAt DEF CallSaves, Typed
  <2> QED
    BY <2>2, CallTo
<1>4. Typed'
  BY <1>1, <1>2, <1>3 DEF Typed
<1>5. TailIsHonest'
  BY <1>1, <1>3, TailStays DEF Waits
<1>6. RoleInv'
  BY <1>1, <1>3 DEF RoleInv, CallRole, Refreshing, AuthRole, MigrationRole, DisconnectRole
<1>7. HeldInv' /\ FlagInv'
  BY <1>1, <1>3 DEF HeldInv, Holds, FlagInv, Active
<1>8. (\A o \in Calls \ {c} : call[o].pc # "save") /\ migration.pc # "publish"
  BY <1>1, HeldOnce, NamesAssumption DEF HeldInv
<1>9. GoneInv'
  BY <1>1, <1>2, <1>3, <1>8 DEF GoneInv, Typed
<1>10. \A b \in Accounts : slot[b] # None => slot'[b] # None
  BY <1>2
<1>11. \A o \in Calls : Refreshing(o)' => /\ Refreshing(o) /\ call[o].acc \in Accounts
                                          /\ call'[o].acc = call[o].acc /\ Current(o)' = Current(o)
                                          /\ call'[o].token = call[o].token
  BY <1>1, <1>3 DEF Refreshing, Current, RoleInv, CallRole
<1>12. LiveInv'
  <2> SUFFICES ASSUME ~unguarded PROVE LiveInv'
    BY <1>1 DEF LiveInv
  <2>1. \A d \in Disconnects, o \in Calls : Refreshing(o)' /\ Clears(d, call[o].acc)' => ~Current(o)'
    BY <1>1, <1>11 DEF LiveInv, Clears
  <2>2. \A o \in Calls : Refreshing(o)' /\ Current(o)' => slot'[call'[o].acc] # None
    BY <1>10, <1>11 DEF LiveInv
  <2>3. auth'.pc = "verify" => slot'[auth'.acc] # None
    BY <1>1, <1>10 DEF LiveInv, RoleInv, AuthRole
  <2> QED
    BY <1>1, <1>10, <2>1, <2>2, <2>3 DEF LiveInv, Clears
<1>13. GrantInv'
  <2>1. call[c].token.grant <= Issued /\ Issued' = Issued
    BY <1>1 DEF GrantInv, Issued
  <2> QED
    BY <1>1, <1>2, <1>11, <2>1 DEF GrantInv
<1>14. LineInv'
  <2>1. auth'.pc = "verify" => \A o \in Calls : call'[o].pc # "save"
    BY <1>1, <1>3, <1>8
  <2>2. ASSUME ~unguarded, NEW o \in Calls PROVE LineOf(o)'
    <3> SUFFICES ASSUME Refreshing(o)', call'[o].acc \notin unfinished,
                        Current(o)' \/ call'[o].pc = "save"
                 PROVE  slot'[call'[o].acc] # None /\ slot'[call'[o].acc].grant = call'[o].token.grant
      BY <1>1 DEF LineOf
    <3>1. CASE o = c
      BY <1>2, <1>3, <3>1
    <3>2. CASE o # c
      <4>1. slot[call[o].acc] # None /\ slot[call[o].acc].grant = call[o].token.grant
        BY <1>3, <1>8, <1>11, <2>2, <3>2 DEF LineInv, LineOf
      <4> QED
        BY <1>2, <1>11, <2>2, <4>1
    <3> QED
      BY <3>1, <3>2
  <2> QED
    BY <1>1, <2>1, <2>2 DEF LineInv
<1> QED
  BY <1>4, <1>5, <1>6, <1>7, <1>9, <1>12, <1>13, <1>14

LEMMA CallLeaves ==
  ASSUME IInv, NEW c \in Calls, Holds(c), call[c].pc \in {"lock", "save", "publish"}, CallReturns(c),
         Release, UNCHANGED <<auth, migration, disconnect>>
  PROVE  TailIsHonest' /\ tail' \in Seq(Parties) /\ HeldInv'
<1> USE DEF IInv, TypeOK
<1>1. c \in Parties /\ tail \in Seq(Parties)
  BY DEF Parties, Typed
<1>2. /\ call'[c].pc = "idle" /\ CallsRest /\ \A o \in Calls \ {c} : call'[o] = call[o]
  BY ReturnFacts
<1>3. TailIsHonest' /\ tail' \in Seq(Parties)
  <2>1. \A p \in Parties : Waits(p)' <=> Waits(p) /\ p # c
    BY <1>2, NamesAssumption DEF Waits
  <2> QED
    BY <1>1, <2>1, TailShrinks
<1>4. HeldInv'
  BY <1>1, <1>2, HeldReleased, NamesAssumption DEF MigrationRests
<1> QED
  BY <1>3, <1>4

LEMMA CallThrowsKeeps ==
  ASSUME IInv, NEW c \in Calls, CallThrows(c) PROVE IInv'
<1> USE DEF IInv, TypeOK
<1>1. /\ UNCHANGED <<connecting, disconnecting, lifecycle, generation, cache, auth, migration,
                     disconnect, slot, legacy, grants, gone, unguarded, unfinished>>
      /\ call[c].pc \in {"lock", "save"} /\ Holds(c) /\ CallReturns(c) /\ Release
  BY DEF CallThrows, flags, history
<1>2. call' \in [Calls -> CallState] /\ CallsRest
  BY <1>1, ReturnFacts
<1>3. TailIsHonest' /\ tail' \in Seq(Parties) /\ HeldInv'
  BY <1>1, CallLeaves
<1>4. Typed'
  BY <1>1, <1>2, <1>3 DEF Typed
<1>5. Rest
  BY <1>1, <1>2, GenerationsAsTheyWere
     DEF Rest, AuthRests, MigrationRests, ClearsRest, Clears, CacheRests, GuardRests
<1>6. AuthRole' /\ (\A d \in Disconnects : DisconnectRole(d)') /\ FlagInv'
  BY <1>1 DEF RoleInv, AuthRole, DisconnectRole, FlagInv, Active
<1> QED
  BY <1>3, <1>4, <1>5, <1>6, RestKeeps

LEMMA CallPublishesKeeps ==
  ASSUME IInv, NEW c \in Calls, CallPublishes(c) PROVE IInv'
<1> USE DEF IInv, TypeOK
<1>1. /\ UNCHANGED <<connecting, disconnecting, lifecycle, generation, auth, migration, disconnect,
                     slot, legacy, grants, gone, unguarded, unfinished>>
      /\ call[c].pc = "publish" /\ Refreshing(c) /\ CallReturns(c) /\ Release
      /\ cache' = IF CallLives(c) THEN [cache EXCEPT ![call[c].acc] = call[c].token.grant] ELSE cache
  BY DEF CallPublishes, flags, history, Refreshing
<1>2. call' \in [Calls -> CallState] /\ CallsRest
  BY <1>1, ReturnFacts
<1>3. TailIsHonest' /\ tail' \in Seq(Parties) /\ HeldInv'
  BY <1>1, CallLeaves DEF HeldInv
<1>4. Typed'
  BY <1>1, <1>2, <1>3, CachedType DEF Typed
<1>5. /\ AuthRests /\ MigrationRests /\ GuardRests /\ GenerationsRest /\ ClearsRest
  BY <1>1, GenerationsAsTheyWere DEF AuthRests, MigrationRests, GuardRests, ClearsRest, Clears
<1>6. RoleInv' /\ FlagInv'
  BY <1>1, <1>2, <1>4, <1>5, CallRoleRests
     DEF RoleInv, AuthRole, MigrationRole, DisconnectRole, FlagInv, Active
<1>7. GoneInv' /\ GrantInv' /\ LineInv'
  BY <1>1, <1>2, <1>4, <1>5, GoneRests, GrantRests, LineRests
<1>8. LiveInv'
  <2>1. CASE CallLives(c)
    BY <1>1, <1>4, <2>1, CachePublished
  <2>2. CASE ~CallLives(c)
    BY <1>1, <1>2, <1>4, <1>5, <2>2, LiveRests DEF CacheRests
  <2> QED
    BY <2>1, <2>2
<1> QED
  BY <1>3, <1>4, <1>6, <1>7, <1>8

LEMMA ExpiresKeeps ==
  ASSUME IInv, NEW a \in Accounts, Expires(a) PROVE IInv'
<1> USE DEF IInv, TypeOK
<1>1. /\ UNCHANGED <<connecting, disconnecting, lifecycle, generation, tail, auth, migration, call,
                     disconnect, slot, legacy, grants, gone, unguarded, unfinished>>
      /\ cache' = [cache EXCEPT ![a] = None]
  BY DEF Expires, flags, history
<1>2. Typed'
  BY <1>1 DEF Typed
<1>3. \A p \in Parties : Waits(p)' <=> Waits(p)
  BY <1>1 DEF Waits
<1>4. CallsRest /\ AuthRests /\ MigrationRests /\ ClearsRest /\ CacheRests /\ GuardRests
  BY <1>1 DEF CallsRest, CallRests, AuthRests, MigrationRests, ClearsRest, Clears, CacheRests,
              GuardRests, Typed
<1>5. AuthRole' /\ (\A d \in Disconnects : DisconnectRole(d)') /\ FlagInv'
  BY <1>1 DEF RoleInv, AuthRole, DisconnectRole, FlagInv, Active
<1> QED
  BY <1>1, <1>2, <1>3, <1>4, <1>5, QuietKeeps

-----------------------------------------------------------------------------
(* The theorems. *)

LEMMA InitIInv == Init => IInv
<1> SUFFICES ASSUME Init PROVE IInv
  OBVIOUS
<1> USE DEF Init
<1>1. Typed
  <2>1. /\ auth \in AuthState /\ migration \in MigrationState /\ call \in [Calls -> CallState]
        /\ tail \in Seq(Parties)
    BY IdleFacts
  <2>2. disconnect \in [Disconnects -> DisconnectState]
    BY DEF DisconnectState
  <2>3. grants \in 0..MaxGrants /\ legacy \in SUBSET Records
    BY RecordsAssumption, BoundsAssumption
  <2> QED
    BY <2>1, <2>2, <2>3 DEF Typed
<1>2. TailIsHonest
  BY IdleFacts DEF TailIsHonest, Queued
<1>3. RoleInv /\ HeldInv
  BY IdleFacts DEF RoleInv, CallRole, Refreshing, AuthRole, MigrationRole, DisconnectRole, HeldInv
<1>4. GoneInv /\ FlagInv
  BY IdleFacts DEF GoneInv, FlagInv, Active
<1>5. LiveInv
  BY IdleFacts DEF LiveInv, Refreshing, Clears
<1>6. GrantInv
  BY IdleFacts DEF GrantInv, Refreshing, Issued
<1>7. LineInv
  BY IdleFacts DEF LineInv, LineOf, Refreshing
<1> QED
  BY <1>1, <1>2, <1>3, <1>4, <1>5, <1>6, <1>7 DEF IInv, TypeOK

LEMMA StutterKeeps == IInv /\ UNCHANGED vars => IInv'
BY DEF vars, IInv, TypeOK, Typed, TailIsHonest, Queued, RoleInv, CallRole, Refreshing, AuthRole,
       MigrationRole, DisconnectRole, HeldInv, Holds, GoneInv, FlagInv, Active, LiveInv, Clears,
       Current, GrantInv, Issued, LineInv, LineOf

LEMMA StepIInv == IInv /\ [Next]_vars => IInv'
<1> SUFFICES ASSUME IInv, [Next]_vars PROVE IInv'
  OBVIOUS
<1>1. CASE UNCHANGED vars
  BY <1>1, StutterKeeps
<1>2. CASE Status \/ MigrationStep
  BY <1>2, StatusKeeps, MigrationInspectsKeeps, MigrationVerifiedKeeps, MigrationRefusedKeeps,
     MigrationSavesKeeps, MigrationThrowsKeeps, MigrationPublishesKeeps DEF MigrationStep
<1>3. CASE (\E want \in Accounts \cup {None} : AuthorizeStarts(want)) \/ AuthorizeStep
  BY <1>3, AuthorizeStartsKeeps, AuthorizeInspectsKeeps, AuthorizeGoesOnKeeps, SignsInKeeps,
     AuthorizeSavesKeeps, AuthorizePublishesKeeps, AuthorizeThrowsKeeps, AuthorizeClosesKeeps
     DEF AuthorizeStep
<1>4. CASE DisconnectRefused
  BY <1>4, DisconnectRefusedKeeps
<1>5. ASSUME NEW d \in Disconnects,
             \/ ClearLegacyAsks(d) \/ ClearLegacyStarts(d) \/ DisconnectStep(d)
             \/ \E a \in Accounts : DisconnectStarts(d, a)
      PROVE  IInv'
  BY <1>5, ClearLegacyAsksKeeps, ClearLegacyStartsKeeps, DisconnectStartsKeeps,
     DisconnectConfirmedKeeps, DisconnectDrainedKeeps, DisconnectFailsKeeps, DisconnectClearsKeeps,
     DisconnectThrowsKeeps DEF DisconnectStep
<1>6. ASSUME NEW c \in Calls, CallStep(c) \/ \E a \in Accounts : CallAsks(c, a)
      PROVE  IInv'
  BY <1>6, CallAsksKeeps, CallResolvesKeeps, CallLoadsKeeps, CallAnsweredKeeps, CallRefusedKeeps,
     CallEntersKeeps, CallSavesKeeps, CallPublishesKeeps, CallThrowsKeeps DEF CallStep
<1>7. ASSUME NEW a \in Accounts, Expires(a) PROVE IInv'
  BY <1>7, ExpiresKeeps
<1> QED
  BY <1>1, <1>2, <1>3, <1>4, <1>5, <1>6, <1>7 DEF Next

LEMMA Invariant == Spec => []IInv
BY InitIInv, StepIInv, PTL DEF Spec

\* Every flow's record, the keychain and the cache keep their types, and in the tail of credential
\* mutations wait those, each once, whose promise is not settled.
THEOREM BrokerTyped == Spec => []TypeOK
<1>1. IInv => TypeOK
  BY DEF IInv
<1> QED
  BY <1>1, Invariant, PTL

\* A disconnected account stays away until it is signed in again, whatever was on its way, and no
\* access token outlives its credential while no refused disconnect has taken a flag away.
THEOREM DisconnectedStaysAway == Spec => []DisconnectSticks
<1>1. IInv => DisconnectSticks
  BY DEF IInv, GoneInv, LiveInv, DisconnectSticks
<1> QED
  BY <1>1, Invariant, PTL

-----------------------------------------------------------------------------
(* No older token over a newer one. *)

NoOlder(a) ==
  slot[a] # None /\ slot'[a] # None =>
    \/ slot'[a].grant > slot[a].grant
    \/ slot'[a].grant = slot[a].grant /\ slot'[a].version >= slot[a].version

LEMMA SameIsNoOlder ==
  ASSUME Typed, \A a \in Accounts : slot'[a] \in {slot[a], None}
  PROVE  \A a \in Accounts : NoOlder(a)
<1>1. \A a \in Accounts : slot[a] # None => slot[a].grant \in Nat /\ slot[a].version \in 0..1
  BY TokenFacts DEF Typed
<1> QED
  BY <1>1 DEF NoOlder

LEMMA StoringIsNewer ==
  ASSUME IInv, MigrationSaves \/ MigrationThrows \/ AuthorizeSaves \/ AuthorizeThrows
  PROVE  \A a \in Accounts : NoOlder(a)
<1>1. Typed /\ \A a \in Accounts : slot[a] # None => /\ slot[a].grant \in Nat
                                                     /\ slot[a].version \in 0..1
  BY TokenFacts DEF IInv, TypeOK, Typed
<1>2. CASE MigrationStores /\ migration.pc = "lock" /\ Holds("migration")
  <2>1. /\ \A a \in Accounts \ {LegacyAccount} : slot'[a] = slot[a]
        /\ \/ slot'[LegacyAccount] = slot[LegacyAccount]
           \/ /\ slot'[LegacyAccount].grant = 1
              /\ slot[LegacyAccount] = None \/ slot[LegacyAccount] = LegacyToken
        /\ slot' \in [Accounts -> Token \cup {None}]
    BY <1>2, StoresFacts
  <2>2. slot'[LegacyAccount] # None => slot'[LegacyAccount].version \in 0..1
    BY <2>1, TokenFacts, LegacyAssumption
  <2>3. LegacyToken.grant = 1 /\ LegacyToken.version = 0
    BY DEF LegacyToken
  <2> QED
    BY <1>1, <2>1, <2>2, <2>3 DEF NoOlder
<1>3. CASE AuthorizeStores /\ auth.pc = "lock"
  <2>1. /\ slot'[auth.acc] = auth.token /\ auth.token.grant = grants
        /\ \A a \in Accounts \ {auth.acc} : slot'[a] = slot[a]
    BY <1>3 DEF AuthorizeStores, IInv, TypeOK, Typed, GrantInv, RoleInv, AuthRole
  <2>2. \A a \in Accounts : slot[a] # None => slot[a].grant <= grants - 1
    BY <1>3 DEF IInv, GrantInv, Issued
  <2>3. grants \in Nat
    BY BoundsAssumption DEF IInv, TypeOK, Typed
  <2> QED
    BY <1>1, <2>1, <2>2, <2>3 DEF NoOlder
<1>4. CASE UNCHANGED slot
  BY <1>1, <1>4, SameIsNoOlder
<1> QED
  BY <1>2, <1>3, <1>4 DEF MigrationSaves, MigrationThrows, AuthorizeSaves, AuthorizeThrows

LEMMA RotationIsNewer ==
  ASSUME IInv, ~unguarded, NEW c \in Calls, CallSaves(c)
  PROVE  \A a \in Accounts \ unfinished : NoOlder(a)
<1>1. \A a \in Accounts : slot[a] # None => slot[a].grant \in Nat /\ slot[a].version \in 0..1
  BY TokenFacts DEF IInv, TypeOK, Typed
<1>2. /\ call[c].acc \in Accounts /\ call[c].token \in Token /\ call[c].token.version = 1
      /\ slot'[call[c].acc] = call[c].token
      /\ \A a \in Accounts \ {call[c].acc} : slot'[a] = slot[a]
      /\ call[c].acc \notin unfinished => slot[call[c].acc].grant = call[c].token.grant
  BY SavesFacts
<1> QED
  BY <1>1, <1>2 DEF NoOlder

LEMMA StepNoOlder ==
  ASSUME IInv, [Next]_vars, ~unguarded PROVE \A a \in Accounts \ unfinished : NoOlder(a)
<1>1. Typed
  BY DEF IInv, TypeOK
<1>2. CASE MigrationSaves \/ MigrationThrows \/ AuthorizeSaves \/ AuthorizeThrows
  BY <1>2, StoringIsNewer
<1>3. CASE \E c \in Calls : CallSaves(c)
  BY <1>3, RotationIsNewer
<1>4. CASE \E d \in Disconnects : DisconnectClears(d) \/ DisconnectThrows(d)
  <2>1. \A a \in Accounts : slot'[a] \in {slot[a], None}
    BY <1>4 DEF DisconnectClears, DisconnectThrows
  <2> QED
    BY <1>1, <2>1, SameIsNoOlder
<1>5. CASE UNCHANGED slot
  BY <1>1, <1>5, SameIsNoOlder
<1>6. \/ MigrationSaves \/ MigrationThrows \/ AuthorizeSaves \/ AuthorizeThrows
      \/ \E c \in Calls : CallSaves(c)
      \/ \E d \in Disconnects : DisconnectClears(d) \/ DisconnectThrows(d)
      \/ UNCHANGED slot
  <2>1. CASE UNCHANGED vars
    BY <2>1 DEF vars
  <2>2. CASE Status \/ MigrationStep
    BY <2>2 DEF MigrationStep, Status, MigrationInspects, MigrationVerified, MigrationRefused,
                MigrationPublishes
  <2>3. CASE (\E want \in Accounts \cup {None} : AuthorizeStarts(want)) \/ AuthorizeStep
    <3>1. ASSUME NEW want \in Accounts \cup {None}, AuthorizeStarts(want) PROVE UNCHANGED slot
      BY <3>1 DEF AuthorizeStarts
    <3>2. AuthorizeInspects \/ AuthorizeOpens \/ AuthorizeFails => UNCHANGED slot
      BY DEF AuthorizeInspects, AuthorizeOpens, AuthorizeFails
    <3>3. ASSUME NEW a \in Accounts, SignsIn(a) PROVE UNCHANGED slot
      BY <3>3 DEF SignsIn
    <3>4. AuthorizePublishes \/ AuthorizeCloses => UNCHANGED slot
      BY DEF AuthorizePublishes, AuthorizeCloses
    <3> QED
      BY <2>3, <3>1, <3>2, <3>3, <3>4 DEF AuthorizeStep
  <2>4. CASE DisconnectRefused \/ \E a \in Accounts : Expires(a)
    BY <2>4 DEF DisconnectRefused, Expires
  <2>5. ASSUME NEW d \in Disconnects,
               \/ ClearLegacyAsks(d) \/ ClearLegacyStarts(d) \/ DisconnectStep(d)
               \/ \E a \in Accounts : DisconnectStarts(d, a)
        PROVE  DisconnectClears(d) \/ DisconnectThrows(d) \/ UNCHANGED slot
    BY <2>5 DEF ClearLegacyAsks, ClearLegacyStarts, DisconnectStarts, DisconnectStep,
                DisconnectConfirmed, DisconnectDrained, DisconnectFails
  <2>6. ASSUME NEW c \in Calls, CallStep(c) \/ \E a \in Accounts : CallAsks(c, a)
        PROVE  CallSaves(c) \/ UNCHANGED slot
    <3>1. ASSUME NEW a \in Accounts, CallAsks(c, a) PROVE UNCHANGED slot
      BY <3>1 DEF CallAsks
    <3>2. CallResolves(c) \/ CallLoads(c) \/ CallRefused(c) \/ CallEnters(c) => UNCHANGED slot
      BY DEF CallResolves, CallLoads, CallRefused, CallEnters
    <3>3. CallAnswered(c) => UNCHANGED slot
      BY DEF CallAnswered
    <3>4. CallPublishes(c) \/ CallThrows(c) => UNCHANGED slot
      BY DEF CallPublishes, CallThrows
    <3> QED
      BY <2>6, <3>1, <3>2, <3>3, <3>4 DEF CallStep
  <2> QED
    BY <2>1, <2>2, <2>3, <2>4, <2>5, <2>6 DEF Next
<1> QED
  BY <1>2, <1>3, <1>4, <1>5, <1>6

\* Whatever sign-ins, migrations and refreshes overlap, a stored refresh token is only replaced by
\* one of a later grant, or by a rotation of its own.
THEOREM TokensNeverRegress == Spec => NeverRegresses
<1>1. IInv /\ [Next]_vars =>
        [\A a \in Accounts \ unfinished :
           ~unguarded /\ slot[a] # None /\ slot'[a] # None =>
             \/ slot'[a].grant > slot[a].grant
             \/ slot'[a].grant = slot[a].grant /\ slot'[a].version >= slot[a].version]_vars
  BY StepNoOlder DEF NoOlder
<1> QED
  BY <1>1, Invariant, PTL DEF Spec, NeverRegresses
=============================================================================
