-------------------------- MODULE StorageBackends ---------------------------
(***************************************************************************)
(* The two storages of server.py side by side: ProxyStorage when a MySQL   *)
(* server is configured and answers at start-up, LocalProxyStorage         *)
(* otherwise.  Both get the same calls, one at a time, as the services     *)
(* make them: for rows whose account, order and group were found, and with *)
(* an external key that no other account has.  What the two give back is   *)
(* compared.  The accounts' sections and the caches' share no call, so a   *)
(* behaviour works on one kind of them.                                    *)
(***************************************************************************)
EXTENDS FiniteSets, Integers, TLC

CONSTANTS
    Accounts, Externals, Groups, Ids, Values,
    MaxHistory,     \* rows kept of the request history
    MaxTime,        \* bound on the clock
    MaxCalls,       \* bound on the calls
    None

\* The ids of the first event and its log, which are random, are not drawn again.
ASSUME BackendsAssumption ==
    /\ MaxHistory \in Nat /\ MaxTime \in Nat \ {0} /\ MaxCalls \in Nat
    /\ "event" \notin Ids /\ "log" \notin Ids

VARIABLES loc, my, now, topic, calls

vars == <<loc, my, now, topic, calls>>

L == INSTANCE LocalStorage
M == INSTANCE MysqlStorage

Empty == [accounts |-> <<>>, groups |-> {}, members |-> {}, keys |-> <<>>, plans |-> <<>>,
          subs |-> <<>>, channels |-> <<>>, orders |-> <<>>, events |-> <<>>, logs |-> <<>>,
          balances |-> <<>>, answers |-> <<>>, results |-> <<>>, partials |-> <<>>,
          requests |-> <<>>, routes |-> <<>>]

\* An account with a paid order, as the other modules leave them.
Customer(a, x, g) ==
    [Empty EXCEPT
        !.accounts = L!Put(@, a, [external |-> x, enabled |-> TRUE, allowed |-> {g}, balance |-> 0]),
        !.groups   = {g}, !.members = {<<a, g>>},
        !.plans    = L!Put(@, "plan", [group |-> g]),
        !.channels = L!Put(@, "channel", [allowed |-> {g}]),
        !.orders   = L!Put(@, "order", [account |-> a, status |-> "paid"]),
        !.events   = L!Put(@, "event", [order |-> "order"]),
        !.logs     = L!Put(@, "log", [order |-> "order"])]

Init ==
    /\ \/ topic = "accounts" /\ \E a \in Accounts, x \in Externals, g \in Groups : loc = Customer(a, x, g)
       \/ topic = "caches" /\ loc = Empty
    /\ my = loc /\ now = 1 /\ calls = 0

\* One call, which both storages get.
Call(kind, d, e) ==
    /\ topic = kind /\ calls < MaxCalls /\ calls' = calls + 1
    /\ loc' = d /\ my' = e
    /\ UNCHANGED <<now, topic>>

Account == DOMAIN loc.accounts

SaveAccount(a, x, on, allowed) ==
    /\ \A b \in Account \ {a} : loc.accounts[b].external # x
    /\ allowed \subseteq loc.groups
    /\ LET row == [external |-> x, enabled |-> on, allowed |-> allowed,
                   balance |-> IF a \in Account THEN loc.accounts[a].balance ELSE 0]
       IN  Call("accounts", L!UpsertAccount(loc, a, row), M!UpsertAccount(my, a, row))

RemoveAccount(a) ==
    a \in Account /\ Call("accounts", L!DeleteAccount(loc, a), M!DeleteAccount(my, a))

Adjust(a, amount, id) ==
    /\ a \in Account /\ id \notin DOMAIN loc.balances
    /\ Call("accounts", L!AdjustBalance(loc, a, amount, id), M!AdjustBalance(my, a, amount, id))

SaveGroup(g)   == Call("accounts", L!UpsertGroup(loc, g), M!UpsertGroup(my, g))
RemoveGroup(g) == g \in loc.groups /\ Call("accounts", L!DeleteGroup(loc, g), M!DeleteGroup(my, g))

Join(a, gs) ==
    /\ a \in Account /\ gs \subseteq loc.groups
    /\ Call("accounts", L!ReplaceGroups(loc, a, gs), M!ReplaceGroups(my, a, gs))

SaveKey(k, a, g, on) ==
    LET row == [account |-> a, group |-> g, enabled |-> on, used |-> 0]
    IN  /\ a \in Account /\ g \in loc.groups \cup {None}
        /\ Call("accounts", L!UpsertKey(loc, k, row), M!UpsertKey(my, k, row))

SwitchKey(k, on) == Call("accounts", L!SetKeyEnabled(loc, k, on), M!SetKeyEnabled(my, k, on))
UseKey(k)        == Call("accounts", L!TouchKey(loc, k, now), M!TouchKey(my, k, now))
RemoveKey(k)     == Call("accounts", L!DeleteKey(loc, k), M!DeleteKey(my, k))

SavePlan(g) ==
    /\ g \in loc.groups \cup {None}
    /\ Call("accounts", L!UpsertPlan(loc, "plan", [group |-> g]), M!UpsertPlan(my, "plan", [group |-> g]))

SaveChannel(allowed) ==
    Call("accounts", L!UpsertChannel(loc, "channel", [allowed |-> allowed]),
                     M!UpsertChannel(my, "channel", [allowed |-> allowed]))

Subscribe(s, a, g, end) ==
    LET row == [account |-> a, group |-> g, status |-> "active", expires |-> end, quota |-> 1]
    IN  /\ a \in Account /\ g \in loc.groups \cup {None}
        /\ Call("accounts", L!UpsertSubscription(loc, s, row), M!UpsertSubscription(my, s, row))

ChangeSubscription(s) ==
    /\ s \in DOMAIN loc.subs \cap DOMAIN my.subs
    /\ LET Save(x, y) == Call("accounts", L!UpsertSubscription(loc, s, x), M!UpsertSubscription(my, s, y))
       IN  \/ Save(L!Extended(loc.subs[s], 1, now), M!Extended(my.subs[s], 1, now))
           \/ Save(L!Revoked(loc.subs[s]), M!Revoked(my.subs[s]))
           \/ Save(L!QuotaReset(loc.subs[s]), M!QuotaReset(my.subs[s]))

SaveOrder(o, a) ==
    LET row == [account |-> a, status |-> "pending"]
    IN  /\ a \in Account /\ o \notin DOMAIN loc.orders \cup {r.order : r \in L!Range(my.events)}
        /\ Call("accounts", L!UpsertOrder(loc, o, row), M!UpsertOrder(my, o, row))

Deliver(e, o) ==
    /\ o \in DOMAIN loc.orders
    /\ Call("accounts", L!RecordLog(L!RecordEvent(loc, e, [order |-> o]), e, [order |-> o]),
                        M!RecordLog(M!RecordEvent(my, e, [order |-> o]), e, [order |-> o]))

-----------------------------------------------------------------------------
(* The caches                                                               *)

Row(v, end) == [value |-> v, expires |-> end]

Answer(k) ==
    \/ Call("caches", L!LoadAnswer(loc, k, now), M!LoadAnswer(my, k, now))
    \/ \E v \in Values, end \in now + 1 .. MaxTime + 1 :
          Call("caches", L!SaveAnswer(loc, k, Row(v, end)), M!SaveAnswer(my, k, Row(v, end)))
    \/ Call("caches", L!ClearAnswers(loc), M!ClearAnswers(my))

Result(ks) ==
    \/ Call("caches", L!LoadResults(loc, now), M!LoadResults(my, now))
    \/ \E v \in Values, end \in now + 1 .. MaxTime + 1 :
          LET rows == [k \in ks |-> Row(v, end)]
          IN  Call("caches", L!SaveResults(loc, rows, now), M!SaveResults(my, rows, now))
    \/ Call("caches", L!ClearResults(loc), M!ClearResults(my))

Partial(k) ==
    \/ Call("caches", L!LoadPartial(loc, now), M!LoadPartial(my, now))
    \/ \E v \in Values, end \in now + 1 .. MaxTime + 1 :
          Call("caches", L!SavePartial(loc, k, Row(v, end), now), M!SavePartial(my, k, Row(v, end), now))
    \/ Call("caches", L!DeletePartial(loc, k), M!DeletePartial(my, k))

Request(id) ==
    \/ /\ \A i \in DOMAIN loc.requests : loc.requests[i].created # now
       /\ Call("caches", L!SaveRequest(loc, id, now, MaxHistory), M!SaveRequest(my, id, now, MaxHistory))
    \/ Call("caches", L!ClearRequests(loc), M!ClearRequests(my))

Routes(ids) ==
    \E v \in Values, end \in now .. MaxTime + 1 :
       LET rows == [i \in ids |-> Row(v, end)]
       IN  Call("caches", L!SaveRoutes(loc, rows, now), M!SaveRoutes(my, rows, now))

Tick ==
    /\ now < MaxTime /\ now' = now + 1
    /\ UNCHANGED <<loc, my, topic, calls>>

Registry ==
    \/ \E a \in Accounts, x \in Externals, on \in BOOLEAN, gs \in SUBSET Groups : SaveAccount(a, x, on, gs)
    \/ \E a \in Accounts, gs \in SUBSET Groups : RemoveAccount(a) \/ Join(a, gs)
    \/ \E a \in Accounts, n \in {1, -1}, id \in Ids : Adjust(a, n, id)
    \/ \E g \in Groups : SaveGroup(g) \/ RemoveGroup(g)
    \/ \E k \in Ids, a \in Accounts, g \in Groups \cup {None}, on \in BOOLEAN : SaveKey(k, a, g, on)
    \/ \E k \in Ids, on \in BOOLEAN : SwitchKey(k, on) \/ UseKey(k) \/ RemoveKey(k)
    \/ \E g \in Groups \cup {None} : SavePlan(g)
    \/ \E gs \in SUBSET Groups : SaveChannel(gs)
    \/ \E s \in Ids, a \in Accounts, g \in Groups \cup {None}, end \in {None, 2} : Subscribe(s, a, g, end)
    \/ \E s \in Ids : ChangeSubscription(s)
    \/ \E o \in Ids, a \in Accounts : SaveOrder(o, a)
    \/ \E e \in Ids, o \in Ids \cup {"order"} : Deliver(e, o)

Caches ==
    \/ \E k \in Ids : Answer(k) \/ Partial(k) \/ Request(k)
    \/ \E ks \in SUBSET Ids \ {{}} : Result(ks) \/ Routes(ks)

Next == Registry \/ Caches \/ Tick
Spec == Init /\ [][Next]_vars

-----------------------------------------------------------------------------
AccountRows == [external : Externals, enabled : BOOLEAN, allowed : SUBSET Groups, balance : Nat]
KeyRows     == [account : Accounts, group : Groups \cup {None}, enabled : BOOLEAN, used : Nat]
SubRows     == [account : Accounts, group : Groups \cup {None}, status : {"active", "revoked"},
                expires : Int \cup {None}, quota : {0, 1}]
OrderRows   == [account : Accounts, status : {"paid", "pending"}]
LinkRows    == [order : Ids \cup {"order"}]
BalanceRows == [account : Accounts, amount : Int, after : Nat]
CacheRows   == [value : Values, expires : Nat]

Table(f, ids, rows) == DOMAIN f \subseteq ids /\ f \in [DOMAIN f -> rows]

Typed(d) ==
    /\ DOMAIN d = DOMAIN Empty
    /\ Table(d.accounts, Accounts, AccountRows)
    /\ d.groups \subseteq Groups /\ d.members \subseteq Accounts \X Groups
    /\ Table(d.keys, Ids, KeyRows) /\ Table(d.subs, Ids, SubRows)
    /\ Table(d.plans, {"plan"}, [group : Groups \cup {None}])
    /\ Table(d.channels, {"channel"}, [allowed : SUBSET Groups])
    /\ Table(d.orders, Ids \cup {"order"}, OrderRows)
    /\ Table(d.events, Ids \cup {"event"}, LinkRows) /\ Table(d.logs, Ids \cup {"log"}, LinkRows)
    /\ Table(d.balances, Ids, BalanceRows)
    /\ \A f \in {d.answers, d.results, d.partials, d.routes} : Table(f, Ids, CacheRows)
    /\ Table(d.requests, Ids, [created : 1..now])

TypeOK ==
    /\ Typed(loc) /\ Typed(my)
    /\ now \in 1..MaxTime /\ topic \in {"accounts", "caches"} /\ calls \in 0..MaxCalls

-----------------------------------------------------------------------------
\* What an order's account or an order leaves: rows that name one that is gone.
Dangling(rows, orders) == {id \in DOMAIN rows : rows[id].order \notin DOMAIN orders}

(* Deleting an account, an order's account or a group leaves no row that
   names it: keys, subscriptions, memberships, orders and balance events in
   both storages, and webhook events and fulfilment logs in the local one
   (delete_admin_account, delete_admin_group). *)
NothingLeft ==
    \A d \in {loc, my} :
       /\ \A rows \in {d.keys, d.subs, d.orders, d.balances} :
             \A id \in DOMAIN rows : rows[id].account \in DOMAIN d.accounts
       /\ \A m \in d.members : m[1] \in DOMAIN d.accounts /\ m[2] \in d.groups
       /\ \A rows \in {d.keys, d.subs, d.plans} :
             \A id \in DOMAIN rows : rows[id].group \in d.groups \cup {None}
       /\ \A a \in DOMAIN d.accounts : d.accounts[a].allowed \subseteq d.groups
       /\ d = loc => Dangling(d.events, d.orders) = {} /\ Dangling(d.logs, d.orders) = {}

(* Whatever was called before, the two storages give the same rows, but for
   the webhook events and logs of orders deleted with their account. *)
SameRows ==
    /\ \A f \in {"accounts", "groups", "members", "keys", "plans", "subs", "channels", "orders", "balances"} :
          loc[f] = my[f]
    /\ loc.events = L!Drop(my.events, Dangling(my.events, my.orders))
    /\ loc.logs = L!Drop(my.logs, Dangling(my.logs, my.orders))
    /\ \A a \in Accounts, g \in Groups \cup {None} : L!Active(loc, a, g, now) = M!Active(my, a, g, now)
    /\ \A k \in DOMAIN loc.keys : L!FindKey(loc, loc.accounts, k) = M!FindKey(my, k)
    /\ \A x \in Externals : L!WithKey(loc, x) = M!WithKey(my, x)
    /\ \A a \in Accounts : L!GroupsOf(loc, a) = M!GroupsOf(my, a)

(* The caches of the two storages, which expire and delete at different
   moments, always give the same rows, and never one that has expired. *)
SameCaches ==
    /\ \A k \in Ids : /\ L!AnswerFound(loc, k, now) = M!AnswerFound(my, k, now)
                      /\ L!PartialFound(loc, k, now) = M!PartialFound(my, k, now)
    /\ L!ResultsFound(loc, Ids, now) = M!ResultsFound(my, Ids, now)
    /\ L!CountPartials(loc, now) = M!CountPartials(my, now)
    /\ loc.requests = my.requests /\ Cardinality(DOMAIN loc.requests) <= MaxHistory
    /\ L!LoadRoutes(loc, now) = M!LoadRoutes(my, now)
=============================================================================
