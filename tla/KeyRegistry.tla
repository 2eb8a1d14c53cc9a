----------------------------- MODULE KeyRegistry -----------------------------
(***************************************************************************)
(* The gateway keys: the api_keys table, the authentication snapshot that  *)
(* every proxied request reads without a lock, and the two admin           *)
(* operations that change both, create and updatePolicy.                   *)
(*                                                                         *)
(* The operations hold refreshMu from the read of the table to the         *)
(* publication, but a reader of the snapshot, a crash of the process, a    *)
(* change of what the limiters allow and the paginated listing of the      *)
(* table fall between any two of their steps.  A key stands for its id,    *)
(* display prefix and digest, which the generator draws together; a        *)
(* setting stands for (enabled, policy_json).  Keys are never deleted.     *)
(***************************************************************************)
EXTENDS Integers, FiniteSets, Sequences

CONSTANTS
    Admins,          \* concurrent admin requests
    KeyIDs,          \* key identities; SQLite orders them as integers
    Settings,        \* values of (enabled, policy_json)
    DefaultSetting,  \* enabled, {}
    CreatedTimes,    \* created_at a clock may give, in any order
    MaxCreateAttempts, \* attempts of create
    KeyPageLimit,    \* the limit of the listing
    MaxOperations,   \* bound on the operations begun
    MaxKeyListings   \* bound on the traversals

NoAdmin == "no admin"

ASSUME KeyRegistryAssumption ==
    /\ KeyIDs \subseteq Nat /\ CreatedTimes \subseteq Nat \ {0}
    /\ DefaultSetting \in Settings
    /\ MaxCreateAttempts \in Nat \ {0} /\ KeyPageLimit \in Nat \ {0}
    /\ NoAdmin \notin Admins

VARIABLES
    apiKeys,    \* the table: key -> [setting, created, seq], for the keys it has
    published,  \* the snapshot of the authenticator: key -> setting
    refreshMu,  \* the admin that holds the mutex, or NoAdmin
    admin,      \* the progress of each admin request
    conflicted, \* keys whose usage forbids a policy replacement now
    operations, \* operations begun so far
    acknowledged, \* history: key -> setting the last successful answer gave
    keyLister   \* the traversal of the listing and what it has returned

keyVars == <<apiKeys, published, refreshMu, admin, conflicted, operations,
             acknowledged, keyLister>>

NoKeyCursor == [snapshot |-> 0, created |-> 0, id |-> 0]
IdleAdmin == [step |-> "idle"]
FreshKeyLister ==
    [step |-> "idle", cursor |-> NoKeyCursor, seen |-> <<>>, due |-> {}, listings |-> 0]

\* The setting of every key of a table, as authRecords and Prepare carry it.
SettingsOf(table) == [k \in DOMAIN table |-> table[k].setting]

KeyInit ==
    /\ apiKeys = <<>> /\ published = SettingsOf(apiKeys)
    /\ refreshMu = NoAdmin
    /\ admin = [a \in Admins |-> IdleAdmin]
    /\ conflicted = {} /\ operations = 0
    /\ acknowledged = <<>>
    /\ keyLister = FreshKeyLister

\* f with k mapped to v.
With(f, k, v) == [x \in DOMAIN f \cup {k} |-> IF x = k THEN v ELSE f[x]]

AdminAt(a, step) == admin[a].step = step
ToStep(a, step) == admin' = [admin EXCEPT ![a].step = step]

\* The deferred Unlock and the answer of the handler.
Unlock(a) ==
    /\ admin' = [admin EXCEPT ![a] = IdleAdmin]
    /\ refreshMu' = NoAdmin

(***************************************************************************)
(* The beginning of both operations.  A malformed body, id or policy is    *)
(* answered before any of this and changes nothing.                        *)
(***************************************************************************)
BeginCreate(a) ==
    /\ AdminAt(a, "idle") /\ operations < MaxOperations
    /\ operations' = operations + 1
    /\ admin' = [admin EXCEPT ![a] = [step |-> "create lock", attempt |-> 1]]
    /\ UNCHANGED <<apiKeys, published, refreshMu, conflicted, acknowledged, keyLister>>

BeginUpdate(a, k, setting) ==
    /\ AdminAt(a, "idle") /\ operations < MaxOperations
    /\ operations' = operations + 1
    /\ admin' = [admin EXCEPT ![a] = [step |-> "update lock", key |-> k, setting |-> setting]]
    /\ UNCHANGED <<apiKeys, published, refreshMu, conflicted, acknowledged, keyLister>>

\* Mutant of the mutex of the service.
RefreshNotSerialized == TRUE
RefreshFree == refreshMu = NoAdmin

Lock(a) ==
    /\ RefreshFree
    /\ \/ AdminAt(a, "create lock") /\ ToStep(a, "create prepare")
       \/ AdminAt(a, "update lock") /\ ToStep(a, "update prepare")
    /\ refreshMu' = a
    /\ UNCHANGED <<apiKeys, published, conflicted, operations, acknowledged, keyLister>>

\* List or Prepare failed, or the request was cancelled before its write.
GiveUp(a) ==
    /\ admin[a].step \in {"create prepare", "create insert", "update prepare"}
    /\ Unlock(a)
    /\ UNCHANGED <<apiKeys, published, conflicted, operations, acknowledged, keyLister>>

(***************************************************************************)
(* create: up to three attempts to insert a freshly drawn identity.        *)
(***************************************************************************)
PrepareCreate(a, k, created) ==
    /\ AdminAt(a, "create prepare")
    /\ admin' = [admin EXCEPT ![a] =
           [step |-> "create insert", attempt |-> admin[a].attempt, key |-> k,
            created |-> created,
            prepared |-> With(SettingsOf(apiKeys), k, DefaultSetting)]]
    /\ UNCHANGED <<apiKeys, published, refreshMu, conflicted, operations,
                   acknowledged, keyLister>>

\* The table with the row of a, numbered by the insertion trigger.
Inserted(a) ==
    With(apiKeys, admin[a].key,
         [setting |-> DefaultSetting, created |-> admin[a].created,
          seq |-> Cardinality(DOMAIN apiKeys) + 1])

\* The Insert succeeds and is published, or the request is cancelled while the
\* statement commits and the caller is told of a failure.
Insert(a) ==
    /\ AdminAt(a, "create insert") /\ admin[a].key \notin DOMAIN apiKeys
    /\ apiKeys' = Inserted(a)
    /\ \/ ToStep(a, "publish") /\ UNCHANGED refreshMu
       \/ Unlock(a)
    /\ UNCHANGED <<published, conflicted, operations, acknowledged, keyLister>>

\* A UNIQUE constraint refuses the identity: the next attempt, if there is one.
InsertConflicts(a) ==
    /\ AdminAt(a, "create insert") /\ admin[a].key \in DOMAIN apiKeys
    /\ IF admin[a].attempt < MaxCreateAttempts
       THEN /\ admin' = [admin EXCEPT ![a] =
                   [step |-> "create prepare", attempt |-> admin[a].attempt + 1]]
            /\ UNCHANGED refreshMu
       ELSE Unlock(a)
    /\ UNCHANGED <<apiKeys, published, conflicted, operations, acknowledged, keyLister>>

(***************************************************************************)
(* updatePolicy: the replacement is checked for a 409, prepared, checked   *)
(* again by the limiters under their locks, written, published.            *)
(***************************************************************************)
PrepareUpdate(a) ==
    /\ AdminAt(a, "update prepare")
    /\ IF admin[a].key \notin DOMAIN apiKeys \/ admin[a].key \in conflicted
       THEN Unlock(a) \* 404, 409
       ELSE /\ admin' = [admin EXCEPT ![a] =
                   [step |-> IF apiKeys[admin[a].key].setting = admin[a].setting
                             THEN "publish" ELSE "update write",
                    key |-> admin[a].key, setting |-> admin[a].setting,
                    prepared |-> With(SettingsOf(apiKeys), admin[a].key, admin[a].setting)]]
            /\ UNCHANGED refreshMu
    /\ UNCHANGED <<apiKeys, published, conflicted, operations, acknowledged, keyLister>>

\* The commit of UpdatePolicyRecord under both limiter locks.
UpdatePolicyRecord(a) ==
    /\ AdminAt(a, "update write") /\ admin[a].key \notin conflicted
    /\ apiKeys' = [apiKeys EXCEPT ![admin[a].key].setting = admin[a].setting]
    /\ ToStep(a, "publish")
    /\ UNCHANGED <<published, refreshMu, conflicted, operations, acknowledged, keyLister>>

\* A limiter refuses under its lock, or the statement fails: nothing is changed.
UpdateFails(a) ==
    /\ AdminAt(a, "update write")
    /\ Unlock(a)
    /\ UNCHANGED <<apiKeys, published, conflicted, operations, acknowledged, keyLister>>

Publish(a) ==
    /\ AdminAt(a, "publish")
    /\ published' = admin[a].prepared
    /\ acknowledged' = With(acknowledged, admin[a].key, admin[a].prepared[admin[a].key])
    /\ Unlock(a)
    /\ UNCHANGED <<apiKeys, conflicted, operations, keyLister>>

\* Token or budget usage of k begins or ends to forbid a replacement.
UsageChanges(k) ==
    /\ k \in DOMAIN apiKeys
    /\ conflicted' = IF k \in conflicted THEN conflicted \ {k} ELSE conflicted \cup {k}
    /\ UNCHANGED <<apiKeys, published, refreshMu, admin, operations, acknowledged, keyLister>>

\* The process dies and starts again.  What was written and not answered has an
\* outcome the client does not know: it is taken for acknowledged.
Restart ==
    /\ published' = SettingsOf(apiKeys)
    /\ admin' = [a \in Admins |-> IdleAdmin]
    /\ refreshMu' = NoAdmin /\ conflicted' = {}
    /\ acknowledged' = [k \in DOMAIN acknowledged |->
           IF \E a \in Admins : AdminAt(a, "publish") /\ admin[a].key = k
           THEN apiKeys[k].setting ELSE acknowledged[k]]
    /\ keyLister' = [FreshKeyLister EXCEPT !.listings = keyLister.listings]
    /\ UNCHANGED <<apiKeys, operations>>

(***************************************************************************)
(* ListAPIKeys: newest first, in pages, fenced by the insertion sequence   *)
(* of the first page.                                                      *)
(***************************************************************************)
BeginKeyListing ==
    /\ keyLister.step \in {"idle", "complete"} /\ keyLister.listings < MaxKeyListings
    /\ keyLister' = [step |-> "page",
                     cursor |-> [NoKeyCursor EXCEPT !.snapshot = Cardinality(DOMAIN apiKeys)],
                     seen |-> <<>>, due |-> DOMAIN apiKeys,
                     listings |-> keyLister.listings + 1]
    /\ UNCHANGED <<apiKeys, published, refreshMu, admin, conflicted, operations, acknowledged>>

\* Mutant: the bookmark without the tie-break on the id.
AfterKeyTime(k) == apiKeys[k].created < keyLister.cursor.created
AfterKeyBookmark(k) ==
    \/ apiKeys[k].created < keyLister.cursor.created
    \/ apiKeys[k].created = keyLister.cursor.created /\ k < keyLister.cursor.id

Page ==
    {k \in DOMAIN apiKeys :
        /\ apiKeys[k].seq <= keyLister.cursor.snapshot
        /\ keyLister.cursor.created # 0 => AfterKeyBookmark(k)}

\* ORDER BY created_at DESC, id DESC.
Newer(k, l) ==
    \/ apiKeys[k].created > apiKeys[l].created
    \/ apiKeys[k].created = apiKeys[l].created /\ k > l
Rank(k, rows) == 1 + Cardinality({l \in rows : Newer(l, k)})
Ordered(rows) == [i \in 1 .. Cardinality(rows) |-> CHOOSE k \in rows : Rank(k, rows) = i]

\* limit + 1 rows are read; the last row of the page is the next bookmark.
ListPage ==
    /\ keyLister.step = "page"
    /\ LET rows == Ordered(Page)
           last == rows[KeyPageLimit]
       IN  keyLister' =
             IF Len(rows) <= KeyPageLimit
             THEN [keyLister EXCEPT !.step = "complete", !.seen = @ \o rows]
             ELSE [keyLister EXCEPT
                     !.cursor = [snapshot |-> @.snapshot, created |-> apiKeys[last].created,
                                 id |-> last],
                     !.seen = @ \o SubSeq(rows, 1, KeyPageLimit)]
    /\ UNCHANGED <<apiKeys, published, refreshMu, admin, conflicted, operations, acknowledged>>

KeyNext ==
    \/ \E a \in Admins :
         \/ BeginCreate(a) \/ Lock(a) \/ GiveUp(a) \/ Insert(a) \/ InsertConflicts(a)
         \/ PrepareUpdate(a) \/ UpdatePolicyRecord(a) \/ UpdateFails(a) \/ Publish(a)
         \/ \E k \in KeyIDs, s \in Settings : BeginUpdate(a, k, s)
         \/ \E k \in KeyIDs, t \in CreatedTimes : PrepareCreate(a, k, t)
    \/ \E k \in KeyIDs : UsageChanges(k)
    \/ Restart
    \/ BeginKeyListing \/ ListPage

KeySpec == KeyInit /\ [][KeyNext]_keyVars

-----------------------------------------------------------------------------

\* k has been written and its operation has not published yet.
BeingPublished(k) == \E a \in Admins : AdminAt(a, "publish") /\ admin[a].key = k

\* What an admin was told holds: the setting last acknowledged for a key is the
\* one in the table and the one requests are authenticated with, across
\* concurrent creates and updates, replacements refused at either check,
\* writes that fail and restarts.  Only an update that is between its commit
\* and its publication may differ (adminKeyService.create, updatePolicy,
\* Authenticator.Publish).
AcknowledgedHolds ==
    \A k \in DOMAIN acknowledged :
        ~ BeingPublished(k) =>
            /\ k \in DOMAIN apiKeys /\ apiKeys[k].setting = acknowledged[k]
            /\ k \in DOMAIN published /\ published[k] = acknowledged[k]

\* A complete traversal of the listing has returned every key that was in the
\* table at its first page exactly once and no other, newest first, whatever
\* keys were created between its pages and whatever created_at the clock gave
\* them (APIKeyRepository.ListAPIKeys).
KeyListingExact ==
    keyLister.step = "complete" =>
        /\ {keyLister.seen[i] : i \in DOMAIN keyLister.seen} = keyLister.due
        /\ \A i, j \in DOMAIN keyLister.seen :
               i < j => Newer(keyLister.seen[i], keyLister.seen[j])
=============================================================================
