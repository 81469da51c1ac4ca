---------------------------- MODULE MysqlStorage ----------------------------
(***************************************************************************)
(* What the calls of ProxyStorage (storage.py) do to the tables: one       *)
(* function of the contents d for every transaction, in the shape of       *)
(* LocalStorage.  The tables' keys are those of init_schema: every table   *)
(* has a primary key, and the accounts' external keys are unique, so that  *)
(* REPLACE removes another account which has the key.                      *)
(***************************************************************************)
EXTENDS FiniteSets, Functions, Naturals

CONSTANT None

Replace(t, id, row)   == [i \in DOMAIN t \cup {id} |-> IF i = id THEN row ELSE t[i]]
ReplaceAll(t, rows)   == [i \in DOMAIN t \cup DOMAIN rows |-> IF i \in DOMAIN rows THEN rows[i] ELSE t[i]]
DeleteIds(t, ids)     == Restrict(t, DOMAIN t \ ids)
Select(t, P(_))       == {id \in DOMAIN t : P(t[id])}
Of(t, a)              == Select(t, LAMBDA r : r.account = a)

-----------------------------------------------------------------------------
(* Accounts, groups and memberships                                         *)

UpsertAccount(d, a, row) ==
    [d EXCEPT !.accounts =
        Replace(DeleteIds(@, Select(@, LAMBDA r : r.external = row.external)), a, row)]

WithKey(d, x) == Select(d.accounts, LAMBDA r : r.external = x)

\* Events and fulfilment logs of the deleted orders are left.
DeleteAccount(d, a) ==
    [d EXCEPT !.members  = {m \in @ : m[1] # a},
              !.keys     = DeleteIds(@, Of(@, a)),
              !.subs     = DeleteIds(@, Of(@, a)),
              !.orders   = DeleteIds(@, Of(@, a)),
              !.balances = DeleteIds(@, Of(@, a)),
              !.accounts = DeleteIds(@, {a})]

UpsertGroup(d, g) == [d EXCEPT !.groups = @ \cup {g}]

\* delete_admin_group selects the lists of allowed groups, and updates those
\* that had the group to what it selected without it.
Allowing(t, g)     == Select(t, LAMBDA r : g \in r.allowed)
SelectAllowed(t, g) == [id \in Allowing(t, g) |-> t[id].allowed \ {g}]
UpdateAllowed(t, lists) ==
    [id \in DOMAIN t |-> IF id \in DOMAIN lists THEN [t[id] EXCEPT !.allowed = lists[id]] ELSE t[id]]

SetNull(t, g) == [id \in DOMAIN t |->
                     IF t[id].group = g THEN [t[id] EXCEPT !.group = None] ELSE t[id]]

CommitDeleteGroup(d, g, lists) ==
    [d EXCEPT !.members  = {m \in @ : m[2] # g},
              !.accounts = UpdateAllowed(@, lists),
              !.keys     = SetNull(@, g),
              !.plans    = SetNull(@, g),
              !.subs     = SetNull(@, g),
              !.channels = UpdateAllowed(@, SelectAllowed(@, g)),
              !.groups   = @ \ {g}]

DeleteGroup(d, g) == CommitDeleteGroup(d, g, SelectAllowed(d.accounts, g))

ReplaceGroups(d, a, gs) ==
    [d EXCEPT !.members = {m \in @ : m[1] # a} \cup {<<a, g>> : g \in gs}]

GroupsOf(d, a) == {m[2] : m \in {m \in d.members : m[1] = a}}

-----------------------------------------------------------------------------
(* API keys                                                                 *)

UpsertKey(d, k, row) == [d EXCEPT !.keys = Replace(@, k, row)]
DeleteKey(d, k)      == [d EXCEPT !.keys = DeleteIds(@, {k})]

SetKeyEnabled(d, k, on) ==
    LET t == d.keys
    IN  [d EXCEPT !.keys = [id \in DOMAIN t |-> [t[id] EXCEPT !.enabled = IF id = k THEN on ELSE @]]]

TouchKey(d, k, now) ==
    LET t == d.keys
    IN  [d EXCEPT !.keys = [id \in DOMAIN t |-> [t[id] EXCEPT !.used = IF id = k THEN now ELSE @]]]

\* One left join: an account that does not exist counts as enabled.
FindKey(d, k) ==
    LET row    == d.keys[k]
        joined == DOMAIN d.accounts \cap {row.account}
    IN  [account |-> row.account, group |-> row.group, enabled |-> row.enabled,
         account_enabled |-> \A a \in joined : d.accounts[a].enabled]

-----------------------------------------------------------------------------
(* Plans, subscriptions, orders, and what they leave                        *)

UpsertPlan(d, p, row)         == [d EXCEPT !.plans = Replace(@, p, row)]
UpsertSubscription(d, s, row) == [d EXCEPT !.subs = Replace(@, s, row)]
UpsertChannel(d, c, row)      == [d EXCEPT !.channels = Replace(@, c, row)]
UpsertOrder(d, o, row)        == [d EXCEPT !.orders = Replace(@, o, row)]
RecordEvent(d, e, row)        == [d EXCEPT !.events = Replace(@, e, row)]
RecordLog(d, l, row)          == [d EXCEPT !.logs = Replace(@, l, row)]

Active(d, a, g, now) ==
    Select(d.subs, LAMBDA r : /\ r.account = a /\ r.status = "active"
                              /\ r.expires = None \/ r.expires > now
                              /\ g = None \/ r.group = g)

Extended(row, days, now) ==
    [row EXCEPT !.expires = IF @ = None \/ @ = 0 THEN now + days ELSE @ + days]
Revoked(row)    == [row EXCEPT !.status = "revoked"]
QuotaReset(row) == [row EXCEPT !.quota = 0]

AdjustBalance(d, a, amount, event) ==
    LET after == d.accounts[a].balance + amount
    IN  IF a \notin DOMAIN d.accounts \/ after < 0 THEN d
        ELSE [d EXCEPT !.accounts[a].balance = after,
                       !.balances = Replace(@, event, [account |-> a, amount |-> amount, after |-> after])]

-----------------------------------------------------------------------------
(* Caches and histories                                                     *)

Unexpired(t, now) == Restrict(t, Select(t, LAMBDA r : r.expires > now))
ValueOf(t, key, now) == {t[k].value : k \in {key} \cap DOMAIN Unexpired(t, now)}

\* load_request_cache deletes nothing.
LoadAnswer(d, key, now)      == d
AnswerFound(d, key, now)     == ValueOf(d.answers, key, now)
SaveAnswer(d, key, row)      == [d EXCEPT !.answers = Replace(@, key, row)]
DeleteExpiredAnswers(d, now) == [d EXCEPT !.answers = Unexpired(@, now)]
ClearAnswers(d)              == [d EXCEPT !.answers = <<>>]

LoadResults(d, now) == [d EXCEPT !.results = Unexpired(@, now)]
ResultsFound(d, keys, now) ==
    LET kept == Unexpired(d.results, now) IN {<<k, kept[k].value>> : k \in keys \cap DOMAIN kept}
SaveResults(d, rows, now) == [d EXCEPT !.results = ReplaceAll(Unexpired(@, now), rows)]
ClearResults(d) == [d EXCEPT !.results = <<>>]

LoadPartial(d, now)       == [d EXCEPT !.partials = Unexpired(@, now)]
PartialFound(d, key, now) == ValueOf(d.partials, key, now)
SavePartial(d, key, row, now) == [d EXCEPT !.partials = Replace(Unexpired(@, now), key, row)]
DeletePartial(d, key)     == [d EXCEPT !.partials = DeleteIds(@, {key})]
CountPartials(d, now)     == Cardinality(DOMAIN Unexpired(d.partials, now))

\* Faulty variant: the oldest rows are kept.
SaveRequestOldest(d, id, now, max) ==
    LET all     == Replace(d.requests, id, [created |-> now])
        newer(i) == Cardinality({j \in DOMAIN all : all[j].created < all[i].created})
    IN  [d EXCEPT !.requests = Restrict(all, {i \in DOMAIN all : newer(i) < max})]

SaveRequest(d, id, now, max) ==
    LET all     == Replace(d.requests, id, [created |-> now])
        newer(i) == Cardinality({j \in DOMAIN all : all[j].created > all[i].created})
    IN  [d EXCEPT !.requests = Restrict(all, {i \in DOMAIN all : newer(i) < max})]
ClearRequests(d) == [d EXCEPT !.requests = <<>>]

\* Everything is written; only what has not expired is read.
SaveRoutes(d, routes, now) == [d EXCEPT !.routes = routes]
LoadRoutes(d, now)         == Unexpired(d.routes, now)
=============================================================================
