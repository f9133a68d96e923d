------------------------------ MODULE OAuthBroker ------------------------------
(***************************************************************************)
(* The Google OAuth broker and the token store behind it: one browser flow *)
(* at a time, disconnects, access-token refreshes and the migration of the *)
(* credentials of the first releases, as they interleave at their awaits.  *)
(*                                                                         *)
(* What guards them is two flags, a generation per account, one for the    *)
(* lifecycle, and the tail of credential mutations, a lock handed on in    *)
(* order.  A refresh token is the grant it came with and how often Google  *)
(* has rotated it; an access token is the grant it was minted from.        *)
(***************************************************************************)
EXTENDS Naturals, Sequences, FiniteSets

CONSTANTS
  Accounts,        \* the Google subjects that may be signed in
  LegacyAccount,   \* the one the first releases' records belong to
  Calls,           \* calls of accessToken that may be open at once
  Disconnects,     \* the disconnects, refused ones not counted
  MaxGrants,       \* how often the user signs in
  AccountLimit,    \* GOOGLE_ACCOUNT_LIMIT
  MaxKept,         \* how many of the old records a cleanup fails to delete
  InitialRecords,  \* which records of the first releases there may be
  None

Records == {"client", "token", "account"}
Token   == [grant : 1..MaxGrants, version : 0..1]

ASSUME LegacyAssumption == LegacyAccount \in Accounts /\ None \notin Accounts \cup Token
ASSUME BoundsAssumption == MaxGrants \in Nat \ {0} /\ AccountLimit \in Nat /\ MaxKept \in Nat
ASSUME RecordsAssumption == InitialRecords \subseteq SUBSET Records

\* Whoever waits in the tail is known by its name there.
ASSUME NamesAssumption == /\ Calls \cap Disconnects = {}
                          /\ {"auth", "migration"} \cap (Calls \cup Disconnects) = {}

VARIABLES
  connecting, disconnecting,   \* the two flags
  lifecycle,                   \* #lifecycleGeneration
  generation,                  \* #accountGenerations
  cache,                       \* #accessTokens
  tail,                        \* #credentialMutationTail: who holds it, who waits
  auth,                        \* #authorize, if one runs
  migration,                   \* #legacyMigrationInFlight
  call,                        \* the calls of accessToken
  disconnect,                  \* the calls of disconnect
  slot,                        \* keychain: the refresh token of each account
  legacy,                      \* keychain: the records of the first releases
  grants,                      \* Google: grants given so far
  gone,                        \* history: accounts disconnected since their last sign-in
  unguarded,                   \* history: a disconnect went on without its flag
  unfinished                   \* history: accounts whose sign-in failed after it was stored

vars == <<connecting, disconnecting, lifecycle, generation, cache, tail, auth, migration, call,
          disconnect, slot, legacy, grants, gone, unguarded, unfinished>>

flags   == <<connecting, disconnecting>>
history == <<gone, unguarded, unfinished>>

\* The credential of the first releases came with a grant of its own.
LegacyToken == [grant |-> 1, version |-> 0]

NoAuth == [pc |-> "idle", want |-> None, acc |-> None, token |-> None, snapshot |-> {}]
NoMigration == [pc |-> "idle", lifecycle |-> 0, snapshot |-> {}, token |-> None]
NoCall == [pc |-> "idle", acc |-> None, generation |-> 0, token |-> None]

AuthState ==
  [pc : {"idle", "inspect", "migrating", "open", "browser", "lock", "verify", "close"},
   want : Accounts \cup {None}, acc : Accounts \cup {None},
   token : Token \cup {None}, snapshot : SUBSET Records]

MigrationState ==
  [pc : {"idle", "inspect", "request", "lock", "publish"},
   lifecycle : Nat, snapshot : SUBSET Records, token : Token \cup {None}]

CallState ==
  [pc : {"idle", "awaiting", "resolved", "load", "request", "lock", "save", "publish"},
   acc : Accounts \cup {None}, generation : Nat, token : Token \cup {None}]

DisconnectState ==
  [pc : {"new", "asked", "confirm", "drain", "lock", "over"}, acc : Accounts \cup {None}]

Parties == {"auth", "migration"} \cup Calls \cup Disconnects

Typed ==
  /\ connecting \in BOOLEAN /\ disconnecting \in BOOLEAN
  /\ lifecycle \in Nat /\ generation \in [Accounts -> Nat]
  /\ cache \in [Accounts -> 1..MaxGrants \cup {None}]
  /\ tail \in Seq(Parties)
  /\ auth \in AuthState /\ migration \in MigrationState
  /\ call \in [Calls -> CallState] /\ disconnect \in [Disconnects -> DisconnectState]
  /\ slot \in [Accounts -> Token \cup {None}]
  /\ legacy \in SUBSET Records
  /\ grants \in 0..MaxGrants
  /\ gone \in SUBSET Accounts /\ unguarded \in BOOLEAN /\ unfinished \in SUBSET Accounts

Queued == {tail[i] : i \in DOMAIN tail}

\* In the tail are those, and only those, whose promise is not settled, each of them once.
TailIsHonest ==
  /\ \A i, j \in DOMAIN tail : tail[i] = tail[j] => i = j
  /\ "auth" \in Queued <=> auth.pc = "lock"
  /\ "migration" \in Queued <=> migration.pc \in {"lock", "publish"}
  /\ \A c \in Calls : c \in Queued <=> call[c].pc \in {"lock", "save", "publish"}
  /\ \A d \in Disconnects : d \in Queued <=> disconnect[d].pc = "lock"

TypeOK == Typed /\ TailIsHonest

Connected == {a \in Accounts : slot[a] # None}

-----------------------------------------------------------------------------
(* The tail of credential mutations.                                       *)

Queue(p) == tail' = Append(tail, p)

\* Mutant: nobody waits for the one before.
HoldsAtOnce(p) == \E i \in DOMAIN tail : tail[i] = p

Holds(p) == tail # <<>> /\ Head(tail) = p

\* Mutant: an operation that throws keeps its place at the head.
NeverReleased == tail' = tail

Release == tail' = Tail(tail)

\* inspectLegacy, for records the packaged client can read.
Inspect ==
  CASE legacy = {}                      -> "not-needed"
    [] {"token", "account"} \subseteq legacy -> "candidate"
    [] "account" \in legacy /\ "token" \notin legacy -> "reconnect"
    [] OTHER                            -> "disconnect"

\* #clearLegacy: each record is deleted or not.
ClearLegacy == /\ legacy' \in SUBSET legacy
               /\ Cardinality(legacy') <= MaxKept

-----------------------------------------------------------------------------
(* migrateLegacyGoogleCredentials: one for all that wait for it.           *)

StartMigration ==
  migration' = IF migration.pc = "idle"
               THEN [NoMigration EXCEPT !.pc = "inspect", !.lifecycle = lifecycle]
               ELSE migration

\* Everyone who waits learns how it ended.
MigrationEnds(succeeded) ==
  /\ migration' = NoMigration
  /\ call' = [c \in Calls |->
               IF call[c].pc # "awaiting" THEN call[c]
               ELSE IF succeeded THEN [call[c] EXCEPT !.pc = "resolved"] ELSE NoCall]
  /\ auth' = IF auth.pc # "migrating" THEN auth
             ELSE [auth EXCEPT !.pc = IF succeeded THEN "open" ELSE "close"]

Status ==
  /\ migration.pc = "idle" /\ legacy # {}
  /\ StartMigration
  /\ UNCHANGED <<flags, lifecycle, generation, cache, tail, auth, call, disconnect, slot, legacy,
                 grants, history>>

\* A marker left behind by a deferred cleanup does not stand in the way.
MigrationInspects ==
  /\ migration.pc = "inspect"
  /\ IF Inspect = "candidate"
     THEN /\ migration' = [migration EXCEPT !.pc = "request", !.snapshot = legacy]
          /\ UNCHANGED <<call, auth>>
     ELSE MigrationEnds(Inspect = "not-needed" \/ (legacy = {"client"} /\ Connected # {}))
  /\ UNCHANGED <<flags, lifecycle, generation, cache, tail, disconnect, slot, legacy, grants,
                 history>>

\* The refresh and the identity that proves it; Google may rotate the token.
MigrationVerified ==
  /\ migration.pc = "request"
  /\ \E v \in 0..1 :
       migration' = [migration EXCEPT !.pc = "lock", !.token = [LegacyToken EXCEPT !.version = v]]
  /\ Queue("migration")
  /\ UNCHANGED <<flags, lifecycle, generation, cache, auth, call, disconnect, slot, legacy, grants,
                 history>>

MigrationRefused ==
  /\ migration.pc = "request"
  /\ MigrationEnds(FALSE)
  /\ UNCHANGED <<flags, lifecycle, generation, cache, tail, disconnect, slot, legacy, grants,
                 history>>

\* #assertMigrationLifecycle.
MigrationLives == ~disconnecting /\ migration.lifecycle = lifecycle

\* completeLegacyMigration keeps a token that is newer than the legacy one.
MigrationStores ==
  /\ MigrationLives /\ legacy = migration.snapshot
  /\ slot' = [slot EXCEPT ![LegacyAccount] =
                IF @ # None /\ @ # LegacyToken THEN @ ELSE migration.token]

MigrationSaves ==
  /\ migration.pc = "lock" /\ Holds("migration")
  /\ MigrationStores
  /\ ClearLegacy
  /\ migration' = [migration EXCEPT !.pc = "publish"]
  /\ UNCHANGED <<flags, lifecycle, generation, cache, tail, auth, call, disconnect, grants, history>>

\* A step inside the tail throws, the save with or without effect.
MigrationThrows ==
  /\ migration.pc \in {"lock", "publish"} /\ Holds("migration")
  /\ \/ UNCHANGED slot
     \/ migration.pc = "lock" /\ MigrationStores
  /\ MigrationEnds(FALSE)
  /\ Release
  /\ UNCHANGED <<flags, lifecycle, generation, cache, disconnect, legacy, grants, history>>

\* The lifecycle is looked at again before the access token is kept.
MigrationPublishes ==
  /\ migration.pc = "publish"
  /\ MigrationEnds(MigrationLives)
  /\ cache' = IF MigrationLives THEN [cache EXCEPT ![LegacyAccount] = LegacyToken.grant] ELSE cache
  /\ Release
  /\ UNCHANGED <<flags, lifecycle, generation, disconnect, slot, legacy, grants, history>>

-----------------------------------------------------------------------------
(* add and reconnect.                                                      *)

\* The look that a reconnect begins with may be an old one.
AuthorizeStarts(want) ==
  /\ ~connecting /\ ~disconnecting /\ grants < MaxGrants
  /\ want \in {None} \cup Connected \cup gone
  /\ connecting' = TRUE
  /\ auth' = [NoAuth EXCEPT !.pc = "inspect", !.want = want]
  /\ UNCHANGED <<disconnecting, lifecycle, generation, cache, tail, migration, call, disconnect,
                 slot, legacy, grants, history>>

AuthorizeInspects ==
  /\ auth.pc = "inspect"
  /\ \/ /\ Inspect = "candidate"
        /\ auth' = [auth EXCEPT !.pc = "migrating"]
        /\ StartMigration
     \/ /\ Inspect # "candidate"
        /\ auth' = [auth EXCEPT !.pc = IF Inspect = "disconnect" THEN "close" ELSE "open"]
        /\ UNCHANGED migration
  /\ UNCHANGED <<flags, lifecycle, generation, cache, tail, call, disconnect, slot, legacy, grants,
                 history>>

AuthorizeOpens ==
  /\ auth.pc = "open"
  /\ auth' = [auth EXCEPT !.pc = IF auth.want = None /\ Cardinality(Connected) >= AccountLimit
                                  THEN "close" ELSE "browser"]
  /\ UNCHANGED <<flags, lifecycle, generation, cache, tail, migration, call, disconnect, slot,
                 legacy, grants, history>>

\* The user signs in as whom they like; code and identity come back. Another account than the one
\* asked for, or than the old records name, is turned away.
SignsIn(a) ==
  /\ auth.pc = "browser"
  /\ grants' = grants + 1
  /\ IF \/ Inspect = "disconnect"
        \/ auth.want \notin {None, a}
        \/ Inspect = "reconnect" /\ a # LegacyAccount
     THEN auth' = [auth EXCEPT !.pc = "close"] /\ UNCHANGED tail
     ELSE /\ auth' = [pc |-> "lock", want |-> None, acc |-> a,
                      token |-> [grant |-> grants + 1, version |-> 0],
                      snapshot |-> IF Inspect = "reconnect" THEN legacy ELSE {}]
          /\ Queue("auth")
  /\ UNCHANGED <<flags, lifecycle, generation, cache, migration, call, disconnect, slot, legacy,
                 history>>

\* Stored: until it is published, refreshes from before it do not know.
AuthorizeStores ==
  /\ auth.snapshot \in {{}, legacy}
  /\ slot' = [slot EXCEPT ![auth.acc] = auth.token]
  /\ gone' = gone \ {auth.acc} /\ unfinished' = unfinished \cup {auth.acc}

AuthorizeSaves ==
  /\ auth.pc = "lock" /\ Holds("auth")
  /\ AuthorizeStores
  /\ ClearLegacy
  /\ auth' = [auth EXCEPT !.pc = "verify"]
  /\ Release
  /\ UNCHANGED <<flags, lifecycle, generation, cache, migration, call, disconnect, grants, unguarded>>

\* The generations that refreshes and migrations in flight compare with theirs.
Bump(accounts) ==
  /\ lifecycle' = lifecycle + 1
  /\ generation' = [a \in Accounts |-> generation[a] + IF a \in accounts THEN 1 ELSE 0]

AuthorizePublishes ==
  /\ auth.pc = "verify"
  /\ Bump({auth.acc})
  /\ cache' = [cache EXCEPT ![auth.acc] = auth.token.grant]
  /\ auth' = [auth EXCEPT !.pc = "close"]
  /\ unfinished' = unfinished \ {auth.acc}
  /\ UNCHANGED <<flags, tail, migration, call, disconnect, slot, legacy, grants, gone, unguarded>>

\* The keychain, the network, the browser, the deadline of the callback, or the user.
AuthorizeFails ==
  /\ \/ auth.pc \in {"inspect", "open", "browser"}
     \/ auth.pc = "verify" /\ legacy # {}
  /\ auth' = [auth EXCEPT !.pc = "close"]
  /\ UNCHANGED <<flags, lifecycle, generation, cache, tail, migration, call, disconnect, slot,
                 legacy, grants, history>>

\* A step inside the tail throws, the save with or without effect.
AuthorizeThrows ==
  /\ auth.pc = "lock" /\ Holds("auth")
  /\ AuthorizeStores \/ UNCHANGED <<slot, gone, unfinished>>
  /\ auth' = [auth EXCEPT !.pc = "close"]
  /\ Release
  /\ UNCHANGED <<flags, lifecycle, generation, cache, migration, call, disconnect, legacy, grants,
                 unguarded>>

AuthorizeCloses ==
  /\ auth.pc = "close"
  /\ connecting' = FALSE
  /\ auth' = NoAuth
  /\ UNCHANGED <<disconnecting, lifecycle, generation, cache, tail, migration, call, disconnect,
                 slot, legacy, grants, history>>

-----------------------------------------------------------------------------
(* disconnect of an account, and clearLegacyCredentials (acc = None).      *)

\* requiresLegacyCredentialRecovery, well before the disconnect it allows.
ClearLegacyAsks(d) ==
  /\ disconnect[d].pc = "new"
  /\ Connected = {} /\ legacy # {}
  /\ disconnect' = [disconnect EXCEPT ![d].pc = "asked"]
  /\ UNCHANGED <<flags, lifecycle, generation, cache, tail, auth, migration, call, slot, legacy,
                 grants, history>>

DisconnectEnds(d) ==
  /\ disconnect' = [disconnect EXCEPT ![d] = [pc |-> "over", acc |-> None]]
  /\ disconnecting' = FALSE

DisconnectStarts(d, a) ==
  /\ ~connecting /\ ~disconnecting
  /\ disconnect[d].pc = "new"
  /\ a \in Connected
  /\ disconnecting' = TRUE
  /\ disconnect' = [disconnect EXCEPT ![d] = [pc |-> "confirm", acc |-> a]]
  /\ UNCHANGED <<connecting, lifecycle, generation, cache, tail, auth, migration, call, slot,
                 legacy, grants, history>>

\* The old records if there still are any, else the only account that there may be by now.
ClearLegacyStarts(d) ==
  /\ ~connecting /\ ~disconnecting
  /\ disconnect[d].pc = "asked"
  /\ \/ /\ legacy # {}
        /\ disconnecting' = TRUE
        /\ Bump(Connected)
        /\ cache' = [a \in Accounts |-> IF a \in Connected THEN None ELSE cache[a]]
        /\ disconnect' = [disconnect EXCEPT ![d].pc = "drain"]
     \/ /\ legacy = {}
        /\ disconnecting' = TRUE
        /\ \E a \in Accounts :
             /\ Connected = {a}
             /\ disconnect' = [disconnect EXCEPT ![d] = [pc |-> "confirm", acc |-> a]]
        /\ UNCHANGED <<lifecycle, generation, cache>>
     \/ /\ legacy = {} /\ Cardinality(Connected) # 1
        /\ DisconnectEnds(d)
        /\ UNCHANGED <<lifecycle, generation, cache>>
  /\ UNCHANGED <<connecting, tail, auth, migration, call, slot, legacy, grants, history>>

\* One that is turned away leaves through the same finally as one that ran.
DisconnectRefused ==
  /\ connecting \/ disconnecting
  /\ disconnecting' = FALSE
  /\ unguarded' = (unguarded \/ disconnecting)
  /\ UNCHANGED <<connecting, lifecycle, generation, cache, tail, auth, migration, call, disconnect,
                 slot, legacy, grants, gone, unfinished>>

\* The operations that wait are counted, and the user confirms.
DisconnectConfirmed(d) ==
  /\ disconnect[d].pc = "confirm"
  /\ Bump({disconnect[d].acc})
  /\ cache' = [cache EXCEPT ![disconnect[d].acc] = None]
  /\ disconnect' = [disconnect EXCEPT ![d].pc = "drain"]
  /\ UNCHANGED <<flags, tail, auth, migration, call, slot, legacy, grants, history>>

DisconnectDrained(d) ==
  /\ disconnect[d].pc = "drain"
  /\ disconnect' = [disconnect EXCEPT ![d].pc = "lock"]
  /\ Queue(d)
  /\ UNCHANGED <<flags, lifecycle, generation, cache, auth, migration, call, slot, legacy, grants,
                 history>>

\* Cancelled, or the count or stopSynchronization throws.
DisconnectFails(d) ==
  /\ disconnect[d].pc \in {"confirm", "drain"}
  /\ DisconnectEnds(d)
  /\ UNCHANGED <<connecting, lifecycle, generation, cache, tail, auth, migration, call, slot,
                 legacy, grants, history>>

\* clear: the account's slot, or every record. Old records that are whole bring it back.
DisconnectClears(d) ==
  /\ disconnect[d].pc = "lock" /\ Holds(d)
  /\ LET cleared == IF disconnect[d].acc = None THEN Accounts ELSE {disconnect[d].acc}
     IN  /\ slot' = [a \in Accounts |-> IF a \in cleared THEN None ELSE slot[a]]
         /\ legacy' = IF disconnect[d].acc = None THEN {} ELSE legacy
         /\ gone' = gone \cup {a \in cleared :
                                a = LegacyAccount => ~({"token", "account"} \subseteq legacy')}
  /\ DisconnectEnds(d)
  /\ Release
  /\ UNCHANGED <<connecting, lifecycle, generation, cache, auth, migration, call, grants,
                 unguarded, unfinished>>

\* A record cannot be read or deleted; others may be deleted by then.
DisconnectThrows(d) ==
  /\ disconnect[d].pc = "lock" /\ Holds(d)
  /\ \E lost \in SUBSET (IF disconnect[d].acc = None THEN Accounts ELSE {disconnect[d].acc}) :
       slot' = [a \in Accounts |-> IF a \in lost THEN None ELSE slot[a]]
  /\ IF disconnect[d].acc = None THEN ClearLegacy ELSE UNCHANGED legacy
  /\ DisconnectEnds(d)
  /\ Release
  /\ UNCHANGED <<connecting, lifecycle, generation, cache, auth, migration, call, grants, history>>

-----------------------------------------------------------------------------
(* accessToken and the refresh it starts or joins.                         *)

CallAsks(c, a) ==
  /\ call[c].pc = "idle"
  /\ ~connecting /\ ~disconnecting
  /\ StartMigration
  /\ call' = [call EXCEPT ![c] = [NoCall EXCEPT !.pc = "awaiting", !.acc = a]]
  /\ UNCHANGED <<flags, lifecycle, generation, cache, tail, auth, disconnect, slot, legacy, grants,
                 history>>

CallReturns(c) == call' = [call EXCEPT ![c] = NoCall]

\* #refreshInFlight has a refresh of this generation.
InFlight(c) == \E o \in Calls \ {c} :
                 /\ call[o].pc \in {"load", "request", "lock", "save", "publish"}
                 /\ call[o].acc = call[c].acc
                 /\ call[o].generation = generation[call[c].acc]

CallResolves(c) ==
  /\ call[c].pc = "resolved"
  /\ IF cache[call[c].acc] # None \/ InFlight(c) THEN CallReturns(c)
     ELSE call' = [call EXCEPT ![c].pc = "load", ![c].generation = generation[call[c].acc]]
  /\ UNCHANGED <<flags, lifecycle, generation, cache, tail, auth, migration, disconnect, slot,
                 legacy, grants, history>>

\* Mutant: only the flags are looked at.
CallLivesByFlags(c) == ~connecting /\ ~disconnecting

\* #assertTokenLifecycle.
CallLives(c) == /\ ~connecting /\ ~disconnecting
                /\ call[c].generation = generation[call[c].acc]

CallLoads(c) ==
  /\ call[c].pc = "load"
  /\ IF CallLives(c) /\ slot[call[c].acc] # None /\ cache[call[c].acc] = None
     THEN call' = [call EXCEPT ![c].pc = "request", ![c].token = slot[call[c].acc]]
     ELSE CallReturns(c)
  /\ UNCHANGED <<flags, lifecycle, generation, cache, tail, auth, migration, disconnect, slot,
                 legacy, grants, history>>

\* Google sends an access token, and a new refresh token if it has rotated it.
CallAnswered(c) ==
  /\ call[c].pc = "request" /\ CallLives(c)
  /\ \/ /\ cache' = [cache EXCEPT ![call[c].acc] = call[c].token.grant]
        /\ CallReturns(c)
        /\ UNCHANGED tail
     \/ /\ call[c].token.version = 0
        /\ call' = [call EXCEPT ![c].pc = "lock", ![c].token.version = 1]
        /\ Queue(c)
        /\ UNCHANGED cache
  /\ UNCHANGED <<flags, lifecycle, generation, auth, migration, disconnect, slot, legacy, grants,
                 history>>

\* The request fails, or its answer comes too late to be of use.
CallRefused(c) ==
  /\ call[c].pc \in {"load", "request"}
  /\ CallReturns(c)
  /\ UNCHANGED <<flags, lifecycle, generation, cache, tail, auth, migration, disconnect, slot,
                 legacy, grants, history>>

CallEnters(c) ==
  /\ call[c].pc = "lock" /\ Holds(c)
  /\ CallLives(c) /\ slot[call[c].acc] # None
  /\ call' = [call EXCEPT ![c].pc = "save"]
  /\ UNCHANGED <<flags, lifecycle, generation, cache, tail, auth, migration, disconnect, slot,
                 legacy, grants, history>>

CallSaves(c) ==
  /\ call[c].pc = "save"
  /\ slot' = [slot EXCEPT ![call[c].acc] = call[c].token]
  /\ call' = [call EXCEPT ![c].pc = "publish"]
  /\ UNCHANGED <<flags, lifecycle, generation, cache, tail, auth, migration, disconnect, legacy,
                 grants, history>>

CallPublishes(c) ==
  /\ call[c].pc = "publish"
  /\ cache' = IF CallLives(c) THEN [cache EXCEPT ![call[c].acc] = call[c].token.grant] ELSE cache
  /\ CallReturns(c)
  /\ Release
  /\ UNCHANGED <<flags, lifecycle, generation, auth, migration, disconnect, slot, legacy, grants,
                 history>>

CallThrows(c) ==
  /\ call[c].pc \in {"lock", "save"} /\ Holds(c)
  /\ CallReturns(c)
  /\ Release
  /\ UNCHANGED <<flags, lifecycle, generation, cache, auth, migration, disconnect, slot, legacy,
                 grants, history>>

\* An access token runs out.
Expires(a) ==
  /\ cache[a] # None
  /\ cache' = [cache EXCEPT ![a] = None]
  /\ UNCHANGED <<flags, lifecycle, generation, tail, auth, migration, call, disconnect, slot,
                 legacy, grants, history>>

-----------------------------------------------------------------------------
Init ==
  /\ connecting = FALSE /\ disconnecting = FALSE
  /\ lifecycle = 0 /\ generation = [a \in Accounts |-> 0]
  /\ cache = [a \in Accounts |-> None]
  /\ tail = <<>>
  /\ auth = NoAuth /\ migration = NoMigration
  /\ call = [c \in Calls |-> NoCall]
  /\ disconnect = [d \in Disconnects |-> [pc |-> "new", acc |-> None]]
  /\ legacy \in InitialRecords
  /\ slot = [a \in Accounts |-> None]
  /\ grants = IF "token" \in legacy THEN 1 ELSE 0
  /\ gone = {} /\ unguarded = FALSE /\ unfinished = {}

MigrationStep == \/ MigrationInspects \/ MigrationVerified \/ MigrationRefused \/ MigrationSaves
                 \/ MigrationThrows \/ MigrationPublishes

AuthorizeStep == \/ AuthorizeInspects \/ AuthorizeOpens \/ (\E a \in Accounts : SignsIn(a))
                 \/ AuthorizeSaves \/ AuthorizePublishes \/ AuthorizeFails \/ AuthorizeThrows
                 \/ AuthorizeCloses

DisconnectStep(d) == \/ DisconnectConfirmed(d) \/ DisconnectDrained(d) \/ DisconnectFails(d)
                     \/ DisconnectClears(d) \/ DisconnectThrows(d)

CallStep(c) == \/ CallResolves(c) \/ CallLoads(c) \/ CallAnswered(c) \/ CallRefused(c)
               \/ CallEnters(c) \/ CallSaves(c) \/ CallPublishes(c) \/ CallThrows(c)

Next ==
  \/ Status \/ MigrationStep
  \/ \E want \in Accounts \cup {None} : AuthorizeStarts(want)
  \/ AuthorizeStep
  \/ DisconnectRefused
  \/ \E d \in Disconnects : \/ ClearLegacyAsks(d) \/ ClearLegacyStarts(d) \/ DisconnectStep(d)
                             \/ \E a \in Accounts : DisconnectStarts(d, a)
  \/ \E c \in Calls : CallStep(c) \/ \E a \in Accounts : CallAsks(c, a)
  \/ \E a \in Accounts : Expires(a)

\* Every await has a deadline, or an owner that ends it: the promises all settle.
Fairness == /\ WF_vars(MigrationStep) /\ WF_vars(AuthorizeStep)
            /\ \A d \in Disconnects : WF_vars(DisconnectStep(d))
            /\ \A c \in Calls : WF_vars(CallStep(c))

Spec == Init /\ [][Next]_vars /\ Fairness

-----------------------------------------------------------------------------
(* Properties.                                                             *)

\* A disconnected account stays away until it is signed in again: no refresh, migration or sign-in
\* that was on its way puts its credential back, and no access token outlives the credential it came
\* from, unless a refused disconnect has taken away the flag of the one that runs.
DisconnectSticks ==
  /\ \A a \in gone : slot[a] = None
  /\ \A a \in Accounts : cache[a] # None => slot[a] # None \/ unguarded

\* A stored refresh token is replaced by newer ones only, unless a sign-in failed after it was
\* stored, which leaves the generation to the refreshes from before it, or a refused disconnect has
\* let refreshes begin while another one ran.
NeverRegresses ==
  [][\A a \in Accounts \ unfinished :
       ~unguarded /\ slot[a] # None /\ slot'[a] # None =>
         \/ slot'[a].grant > slot[a].grant
         \/ slot'[a].grant = slot[a].grant /\ slot'[a].version >= slot[a].version]_vars

\* Every sign-in, migration, refresh and disconnect ends, whatever it waits for: the tail is handed
\* on by those that throw too.
FlowsEnd == /\ connecting ~> ~connecting
            /\ migration.pc # "idle" ~> migration.pc = "idle"
            /\ \A c \in Calls : call[c].pc # "idle" ~> call[c].pc = "idle"
            /\ \A d \in Disconnects : disconnect[d].pc = "confirm" ~> disconnect[d].pc = "over"
=============================================================================
