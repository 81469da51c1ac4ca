---------------------------- MODULE LocalStorage ----------------------------
(***************************************************************************)
(* What the calls of LocalProxyStorage (storage_local.py) do to the stored *)
(* sections.  Every call holds the lock and writes the whole file, so each *)
(* is a function of the contents d: a record with one function per section *)
(* from the ids stored to their rows, and the memberships as pairs.  Names,*)
(* notes, prices and time stamps that nothing is chosen by are left out.   *)
(***************************************************************************)
EXTENDS FiniteSets, Functions, Naturals

CONSTANT None   \* no group, or no end

Put(f, id, row) == [i \in DOMAIN f \cup {id} |-> IF i = id THEN row ELSE f[i]]
PutAll(f, rows) == [i \in DOMAIN f \cup DOMAIN rows |-> IF i \in DOMAIN rows THEN rows[i] ELSE f[i]]
Drop(f, ids)    == Restrict(f, DOMAIN f \ ids)
Where(f, P(_))  == {id \in DOMAIN f : P(f[id])}
Change(f, id, row) == IF id \in DOMAIN f THEN Put(f, id, row) ELSE f

-----------------------------------------------------------------------------
(* Accounts, groups and memberships                                         *)

UpsertAccount(d, a, row) == [d EXCEPT !.accounts = Put(@, a, row)]

WithKey(d, x) == Where(d.accounts, LAMBDA r : r.external = x)

\* Faulty variant: the account's API keys are kept.
DeleteAccountKeepingKeys(d, a) ==
    LET of == Where(d.orders, LAMBDA r : r.account = a)
    IN  [d EXCEPT !.orders   = Drop(@, of),
                  !.members  = {m \in @ : m[1] # a},
                  !.balances = Drop(@, Where(@, LAMBDA r : r.account = a)),
                  !.subs     = Drop(@, Where(@, LAMBDA r : r.account = a)),
                  !.logs     = Drop(@, Where(@, LAMBDA r : r.order \in of)),
                  !.events   = Drop(@, Where(@, LAMBDA r : r.order \in of)),
                  !.accounts = Drop(@, {a})]

DeleteAccount(d, a) ==
    LET of == Where(d.orders, LAMBDA r : r.account = a)
    IN  [d EXCEPT !.orders   = Drop(@, of),
                  !.members  = {m \in @ : m[1] # a},
                  !.balances = Drop(@, Where(@, LAMBDA r : r.account = a)),
                  !.keys     = Drop(@, Where(@, LAMBDA r : r.account = a)),
                  !.subs     = Drop(@, Where(@, LAMBDA r : r.account = a)),
                  !.logs     = Drop(@, Where(@, LAMBDA r : r.order \in of)),
                  !.events   = Drop(@, Where(@, LAMBDA r : r.order \in of)),
                  !.accounts = Drop(@, {a})]

UpsertGroup(d, g) == [d EXCEPT !.groups = @ \cup {g}]

Ungrouped(f, g) == [id \in DOMAIN f |->
                       IF f[id].group = g THEN [f[id] EXCEPT !.group = None] ELSE f[id]]
Disallowed(f, g) == [id \in DOMAIN f |-> [f[id] EXCEPT !.allowed = @ \ {g}]]

DeleteGroup(d, g) ==
    [d EXCEPT !.members  = {m \in @ : m[2] # g},
              !.accounts = Disallowed(@, g),
              !.keys     = Ungrouped(@, g),
              !.plans    = Ungrouped(@, g),
              !.subs     = Ungrouped(@, g),
              !.channels = Disallowed(@, g),
              !.groups   = @ \ {g}]

ReplaceGroups(d, a, gs) ==
    [d EXCEPT !.members = {m \in @ : m[1] # a} \cup ({a} \X gs)]

GroupsOf(d, a) == {m[2] : m \in {m \in d.members : m[1] = a}}

-----------------------------------------------------------------------------
(* API keys                                                                 *)

UpsertKey(d, k, row) == [d EXCEPT !.keys = Put(@, k, row)]
DeleteKey(d, k)      == [d EXCEPT !.keys = Drop(@, {k})]

SetKeyEnabled(d, k, on) ==
    [d EXCEPT !.keys = IF k \in DOMAIN @ THEN [@ EXCEPT ![k].enabled = on] ELSE @]

TouchKey(d, k, now) ==
    [d EXCEPT !.keys = IF k \in DOMAIN @ THEN [@ EXCEPT ![k].used = now] ELSE @]

\* The row find_admin_api_key_by_hash makes of the accounts listed before
\* it looks for the key: an account it does not find counts as enabled.
FindKey(d, accounts, k) ==
    LET row == d.keys[k]
    IN  [account |-> row.account, group |-> row.group, enabled |-> row.enabled,
         account_enabled |-> row.account \in DOMAIN accounts => accounts[row.account].enabled]

-----------------------------------------------------------------------------
(* Plans, subscriptions, orders, and what they leave                        *)

UpsertPlan(d, p, row)         == [d EXCEPT !.plans = Put(@, p, row)]
UpsertSubscription(d, s, row) == [d EXCEPT !.subs = Put(@, s, row)]
UpsertChannel(d, c, row)      == [d EXCEPT !.channels = Put(@, c, row)]
UpsertOrder(d, o, row)        == [d EXCEPT !.orders = Put(@, o, row)]
RecordEvent(d, e, row)        == [d EXCEPT !.events = Put(@, e, row)]
RecordLog(d, l, row)          == [d EXCEPT !.logs = Put(@, l, row)]

\* The subscriptions of which one is the account's context.
Active(d, a, g, now) ==
    Where(d.subs, LAMBDA r : /\ r.account = a /\ r.status = "active"
                             /\ r.expires = None \/ r.expires > now
                             /\ g = None \/ r.group = g)

\* Faulty variant: days are counted from the moment of the extension.
ExtendedFromNow(row, days, now) == [row EXCEPT !.expires = now + days]

\* A subscription without an end is extended from now, and so gets one.
Extended(row, days, now) ==
    [row EXCEPT !.expires = (IF @ \in {None, 0} THEN now ELSE @) + days]
Revoked(row)   == [row EXCEPT !.status = "revoked"]

QuotaReset(row) == [row EXCEPT !.quota = 0]

\* adjust_admin_account_balance: the row and its event under one lock.
AdjustBalance(d, a, amount, event) ==
    IF a \in DOMAIN d.accounts /\ d.accounts[a].balance + amount >= 0
    THEN [d EXCEPT !.accounts[a].balance = @ + amount,
                   !.balances = Put(@, event, [account |-> a, amount |-> amount,
                                               after |-> d.accounts[a].balance + amount])]
    ELSE d

-----------------------------------------------------------------------------
(* Caches and histories                                                     *)

Expired(f, now) == Where(f, LAMBDA r : r.expires <= now)
Pruned(f, now)  == Drop(f, Expired(f, now))

\* load_request_cache, load_tool_result_cache_many, load_interrupted_response
LoadAnswer(d, key, now) ==
    [d EXCEPT !.answers = Pruned(@, now)]
AnswerFound(d, key, now) ==
    LET kept == Pruned(d.answers, now) IN IF key \in DOMAIN kept THEN {kept[key].value} ELSE {}

SaveAnswer(d, key, row)  == [d EXCEPT !.answers = Put(@, key, row)]
DeleteExpiredAnswers(d, now) == [d EXCEPT !.answers = Pruned(@, now)]
ClearAnswers(d) == [d EXCEPT !.answers = <<>>]

LoadResults(d, now) == [d EXCEPT !.results = Pruned(@, now)]
ResultsFound(d, keys, now) ==
    LET kept == Pruned(d.results, now) IN {<<k, kept[k].value>> : k \in keys \cap DOMAIN kept}
SaveResults(d, rows, now) == [d EXCEPT !.results = PutAll(@, rows)]
ClearResults(d) == [d EXCEPT !.results = <<>>]

LoadPartial(d, now) == [d EXCEPT !.partials = Pruned(@, now)]
PartialFound(d, key, now) ==
    LET kept == Pruned(d.partials, now) IN IF key \in DOMAIN kept THEN {kept[key].value} ELSE {}
SavePartial(d, key, row, now) == [d EXCEPT !.partials = Put(@, key, row)]
DeletePartial(d, key)  == [d EXCEPT !.partials = Drop(@, {key})]
CountPartials(d, now)  == Cardinality(DOMAIN Pruned(d.partials, now))

\* record_request keeps the rows created last.
SaveRequest(d, id, now, max) ==
    LET all  == Put(d.requests, id, [created |-> now])
        keep == CHOOSE s \in SUBSET DOMAIN all :
                   /\ Cardinality(s) = IF Cardinality(DOMAIN all) < max THEN Cardinality(DOMAIN all) ELSE max
                   /\ \A i \in s, j \in DOMAIN all \ s : all[i].created >= all[j].created
    IN  [d EXCEPT !.requests = Restrict(all, keep)]
ClearRequests(d) == [d EXCEPT !.requests = <<>>]

\* Only what has not expired is written, and read.
SaveRoutes(d, routes, now) == [d EXCEPT !.routes = Pruned(routes, now)]
LoadRoutes(d, now) == Pruned(d.routes, now)
=============================================================================
