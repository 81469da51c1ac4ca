---------------------------- MODULE StorageProofs ----------------------------
(***************************************************************************)
(* What is stored, for any accounts, ids and calls.  The storages: no      *)
(* deletion leaves a row that names what is gone, and the two storages     *)
(* give back the same.  Their sections of accounts are equal, but for the  *)
(* events and logs of deleted orders; their caches agree on what has not   *)
(* expired.  Balances, codes and quotas kept in them: for any requests     *)
(* that overlap and any crashes, what is never wrong; and for one request  *)
(* after another, what then holds besides.                                 *)
(***************************************************************************)
EXTENDS StorageBackends, AccountLedger, FiniteSetTheorems, WellFoundedInduction, TLAPS

Shared == {"accounts", "groups", "members", "keys", "plans", "subs", "channels", "orders", "balances"}
Links  == {"events", "logs"}
Cached == {"answers", "results", "partials", "requests", "routes"}
Fields == Shared \cup Links \cup Cached

\* A call changes these sections only.
Only(d, e, S) == DOMAIN e = DOMAIN d /\ \A f \in DOMAIN d \ S : e[f] = d[f]

LEMMA EmptyFields == DOMAIN Empty = Fields
BY DEF Empty, Fields, Shared, Links, Cached

-----------------------------------------------------------------------------
(* What the calls write.  The tables of the one are the functions of the   *)
(* other.                                                                  *)

LEMMA SameTables ==
  ASSUME NEW f
  PROVE  /\ \A id, row : M!Replace(f, id, row) = L!Put(f, id, row)
         /\ \A ids : M!DeleteIds(f, ids) = L!Drop(f, ids)
         /\ \A g : M!SetNull(f, g) = L!Ungrouped(f, g)
BY DEF M!Replace, L!Put, M!DeleteIds, L!Drop, M!SetNull, L!Ungrouped,
       M!Restrict, L!Restrict

LEMMA KeyCalls ==
  ASSUME NEW d, "keys" \in DOMAIN d, NEW k
  PROVE  /\ \A row : /\ Only(d, L!UpsertKey(d, k, row), {"keys"})
                     /\ L!UpsertKey(d, k, row).keys = L!Put(d.keys, k, row)
                     /\ Only(d, M!UpsertKey(d, k, row), {"keys"})
                     /\ M!UpsertKey(d, k, row).keys = L!Put(d.keys, k, row)
         /\ Only(d, L!DeleteKey(d, k), {"keys"}) /\ L!DeleteKey(d, k).keys = L!Drop(d.keys, {k})
         /\ Only(d, M!DeleteKey(d, k), {"keys"}) /\ M!DeleteKey(d, k).keys = L!Drop(d.keys, {k})
BY SameTables DEF Only, L!UpsertKey, M!UpsertKey, L!DeleteKey, M!DeleteKey

Switched(f, k, on) == [id \in DOMAIN f |-> IF id = k THEN [f[id] EXCEPT !.enabled = on] ELSE f[id]]
Touched(f, k, n)   == [id \in DOMAIN f |-> IF id = k THEN [f[id] EXCEPT !.used = n] ELSE f[id]]

\* A row is not changed by writing what it has.
LEMMA SwitchCalls ==
  ASSUME NEW d, "keys" \in DOMAIN d, Table(d.keys, Ids, KeyRows), NEW k, NEW on, NEW n
  PROVE  /\ Only(d, L!SetKeyEnabled(d, k, on), {"keys"})
         /\ L!SetKeyEnabled(d, k, on).keys = Switched(d.keys, k, on)
         /\ Only(d, M!SetKeyEnabled(d, k, on), {"keys"})
         /\ M!SetKeyEnabled(d, k, on).keys = Switched(d.keys, k, on)
         /\ Only(d, L!TouchKey(d, k, n), {"keys"})
         /\ L!TouchKey(d, k, n).keys = Touched(d.keys, k, n)
         /\ Only(d, M!TouchKey(d, k, n), {"keys"})
         /\ M!TouchKey(d, k, n).keys = Touched(d.keys, k, n)
<1> DEFINE t == d.keys
<1>1. t \in [DOMAIN t -> KeyRows] BY DEF Table
<1>2. (IF k \in DOMAIN t THEN [t EXCEPT ![k].enabled = on] ELSE t) = Switched(t, k, on)
  BY <1>1 DEF Switched, KeyRows
<1>3. [id \in DOMAIN t |-> [t[id] EXCEPT !.enabled = IF id = k THEN on ELSE @]] = Switched(t, k, on)
  BY <1>1 DEF Switched, KeyRows
<1>4. (IF k \in DOMAIN t THEN [t EXCEPT ![k].used = n] ELSE t) = Touched(t, k, n)
  BY <1>1 DEF Touched, KeyRows
<1>5. [id \in DOMAIN t |-> [t[id] EXCEPT !.used = IF id = k THEN n ELSE @]] = Touched(t, k, n)
  BY <1>1 DEF Touched, KeyRows
<1> HIDE DEF t
<1>6. t = d.keys BY DEF t
<1> QED
  BY <1>2, <1>3, <1>4, <1>5, <1>6
     DEF Only, L!SetKeyEnabled, M!SetKeyEnabled, L!TouchKey, M!TouchKey

LEMMA RowCalls ==
  ASSUME NEW d, Fields \subseteq DOMAIN d, NEW id, NEW row
  PROVE  /\ LET e == L!UpsertPlan(d, id, row) IN Only(d, e, {"plans"}) /\ e.plans = L!Put(d.plans, id, row)
         /\ LET e == M!UpsertPlan(d, id, row) IN Only(d, e, {"plans"}) /\ e.plans = L!Put(d.plans, id, row)
         /\ LET e == L!UpsertChannel(d, id, row)
            IN  Only(d, e, {"channels"}) /\ e.channels = L!Put(d.channels, id, row)
         /\ LET e == M!UpsertChannel(d, id, row)
            IN  Only(d, e, {"channels"}) /\ e.channels = L!Put(d.channels, id, row)
         /\ LET e == L!UpsertSubscription(d, id, row)
            IN  Only(d, e, {"subs"}) /\ e.subs = L!Put(d.subs, id, row)
         /\ LET e == M!UpsertSubscription(d, id, row)
            IN  Only(d, e, {"subs"}) /\ e.subs = L!Put(d.subs, id, row)
         /\ LET e == L!UpsertOrder(d, id, row) IN Only(d, e, {"orders"}) /\ e.orders = L!Put(d.orders, id, row)
         /\ LET e == M!UpsertOrder(d, id, row) IN Only(d, e, {"orders"}) /\ e.orders = L!Put(d.orders, id, row)
<1>1. {"plans", "channels", "subs", "orders"} \subseteq DOMAIN d BY DEF Fields, Shared
<1> QED BY <1>1, SameTables DEF Only, L!UpsertPlan, M!UpsertPlan, L!UpsertChannel, M!UpsertChannel,
     L!UpsertSubscription, M!UpsertSubscription, L!UpsertOrder, M!UpsertOrder

LEMMA DeliverCalls ==
  ASSUME NEW d, Fields \subseteq DOMAIN d, NEW id, NEW row
  PROVE  /\ LET e == L!RecordLog(L!RecordEvent(d, id, row), id, row)
            IN  /\ Only(d, e, Links)
                /\ e.events = L!Put(d.events, id, row) /\ e.logs = L!Put(d.logs, id, row)
         /\ LET e == M!RecordLog(M!RecordEvent(d, id, row), id, row)
            IN  /\ Only(d, e, Links)
                /\ e.events = L!Put(d.events, id, row) /\ e.logs = L!Put(d.logs, id, row)
<1>1. {"events", "logs"} \subseteq DOMAIN d BY DEF Fields, Links
<1> QED BY <1>1, SameTables
     DEF Only, Links, L!RecordLog, L!RecordEvent, M!RecordLog, M!RecordEvent

LEMMA GroupCalls ==
  ASSUME NEW d, Fields \subseteq DOMAIN d, NEW g
  PROVE  /\ Only(d, L!UpsertGroup(d, g), {"groups"}) /\ L!UpsertGroup(d, g).groups = d.groups \cup {g}
         /\ Only(d, M!UpsertGroup(d, g), {"groups"}) /\ M!UpsertGroup(d, g).groups = d.groups \cup {g}
<1>1. "groups" \in DOMAIN d BY DEF Fields, Shared
<1> QED BY <1>1 DEF Only, L!UpsertGroup, M!UpsertGroup

LEMMA MemberCalls ==
  ASSUME NEW d, Fields \subseteq DOMAIN d, NEW a, NEW gs
  PROVE  /\ Only(d, L!ReplaceGroups(d, a, gs), {"members"})
         /\ L!ReplaceGroups(d, a, gs).members = {m \in d.members : m[1] # a} \cup ({a} \X gs)
         /\ Only(d, M!ReplaceGroups(d, a, gs), {"members"})
         /\ M!ReplaceGroups(d, a, gs).members = {m \in d.members : m[1] # a} \cup ({a} \X gs)
<1>1. "members" \in DOMAIN d BY DEF Fields, Shared
<1>2. {<<a, h>> : h \in gs} = {a} \X gs OBVIOUS
<1> QED BY <1>1, <1>2 DEF Only, L!ReplaceGroups, M!ReplaceGroups

\* REPLACE removes no other account, since none has the external key.
LEMMA AccountCalls ==
  ASSUME NEW d, Fields \subseteq DOMAIN d, NEW a, NEW row,
         \A b \in DOMAIN d.accounts \ {a} : d.accounts[b].external # row.external
  PROVE  /\ LET e == L!UpsertAccount(d, a, row)
            IN  Only(d, e, {"accounts"}) /\ e.accounts = L!Put(d.accounts, a, row)
         /\ LET e == M!UpsertAccount(d, a, row)
            IN  Only(d, e, {"accounts"}) /\ e.accounts = L!Put(d.accounts, a, row)
<1> DEFINE t == d.accounts
           kept == M!DeleteIds(t, M!Select(t, LAMBDA r : r.external = row.external))
<1>1. "accounts" \in DOMAIN d BY DEF Fields, Shared
<1>2. /\ DOMAIN kept = DOMAIN t \ {b \in DOMAIN t : t[b].external = row.external}
      /\ \A b \in DOMAIN kept : kept[b] = t[b]
  BY DEF M!DeleteIds, M!Select, M!Restrict
<1> HIDE DEF kept
<1>3. M!Replace(kept, a, row) = L!Put(t, a, row) BY <1>2 DEF M!Replace, L!Put
<1>4. Only(d, L!UpsertAccount(d, a, row), {"accounts"}) /\ L!UpsertAccount(d, a, row).accounts = L!Put(t, a, row)
  BY <1>1 DEF Only, L!UpsertAccount
<1>5. Only(d, M!UpsertAccount(d, a, row), {"accounts"}) /\ M!UpsertAccount(d, a, row).accounts = L!Put(t, a, row)
  BY <1>1, <1>3 DEF Only, M!UpsertAccount, kept
<1> QED BY <1>4, <1>5

Of(f, a)    == {id \in DOMAIN f : f[id].account = a}
CutOf(f, a) == L!Drop(f, Of(f, a))
AccountCut(d, e, a) ==
    /\ Only(d, e, Shared \cup Links)
    /\ e.accounts = L!Drop(d.accounts, {a}) /\ e.members = {m \in d.members : m[1] # a}
    /\ e.keys = CutOf(d.keys, a) /\ e.subs = CutOf(d.subs, a) /\ e.orders = CutOf(d.orders, a)
    /\ e.balances = CutOf(d.balances, a)
    /\ e.groups = d.groups /\ e.plans = d.plans /\ e.channels = d.channels

LEMMA DeleteAccountCalls ==
  ASSUME NEW d, DOMAIN d = Fields, NEW a
  PROVE  /\ LET e == L!DeleteAccount(d, a)
            IN  /\ AccountCut(d, e, a)
                /\ e.events = L!Drop(d.events, {i \in DOMAIN d.events : d.events[i].order \in Of(d.orders, a)})
                /\ e.logs = L!Drop(d.logs, {i \in DOMAIN d.logs : d.logs[i].order \in Of(d.orders, a)})
         /\ LET e == M!DeleteAccount(d, a)
            IN  AccountCut(d, e, a) /\ e.events = d.events /\ e.logs = d.logs
<1>1. \A f : M!Of(f, a) = Of(f, a) BY DEF M!Of, M!Select, Of
<1>3. LET e == L!DeleteAccount(d, a)
      IN  /\ AccountCut(d, e, a)
          /\ e.events = L!Drop(d.events, {i \in DOMAIN d.events : d.events[i].order \in Of(d.orders, a)})
          /\ e.logs = L!Drop(d.logs, {i \in DOMAIN d.logs : d.logs[i].order \in Of(d.orders, a)})
  BY DEF AccountCut, CutOf, Of, Only, L!DeleteAccount, L!Where, Fields, Shared, Links, Cached
<1>4. LET e == M!DeleteAccount(d, a)
      IN  AccountCut(d, e, a) /\ e.events = d.events /\ e.logs = d.logs
  BY <1>1, SameTables DEF AccountCut, CutOf, Only, M!DeleteAccount, Fields, Shared, Links, Cached
<1> QED BY <1>3, <1>4

GroupCut(d, e, g) ==
    /\ Only(d, e, Shared)
    /\ e.groups = d.groups \ {g} /\ e.members = {m \in d.members : m[2] # g}
    /\ e.accounts = L!Disallowed(d.accounts, g) /\ e.channels = L!Disallowed(d.channels, g)
    /\ e.keys = L!Ungrouped(d.keys, g) /\ e.subs = L!Ungrouped(d.subs, g)
    /\ e.plans = L!Ungrouped(d.plans, g)
    /\ e.orders = d.orders /\ e.balances = d.balances

\* The lists that delete_admin_group does not select do not have the group.
LEMMA DisallowedSame ==
  ASSUME NEW f, NEW g, NEW R, f \in [DOMAIN f -> R],
         \A r \in R : [r EXCEPT !.allowed = r.allowed] = r
  PROVE  M!UpdateAllowed(f, M!SelectAllowed(f, g)) = L!Disallowed(f, g)
<1> DEFINE lists == M!SelectAllowed(f, g)
<1>1. /\ DOMAIN lists = {id \in DOMAIN f : g \in f[id].allowed}
      /\ \A id \in DOMAIN lists : lists[id] = f[id].allowed \ {g}
  BY DEF M!SelectAllowed, M!Allowing, M!Select
<1> HIDE DEF lists
<1>2. ASSUME NEW id \in DOMAIN f
      PROVE  (IF id \in DOMAIN lists THEN [f[id] EXCEPT !.allowed = lists[id]] ELSE f[id])
             = [f[id] EXCEPT !.allowed = f[id].allowed \ {g}]
  <2>1. CASE g \in f[id].allowed BY <1>1, <2>1
  <2>2. CASE g \notin f[id].allowed
    <3>1. f[id].allowed \ {g} = f[id].allowed BY <2>2
    <3>2. [f[id] EXCEPT !.allowed = f[id].allowed] = f[id] OBVIOUS
    <3> QED BY <1>1, <2>2, <3>1, <3>2
  <2> QED BY <2>1, <2>2
<1> QED BY <1>2 DEF M!UpdateAllowed, L!Disallowed, lists

LEMMA DeleteGroupCalls ==
  ASSUME NEW d, DOMAIN d = Fields, NEW g, Table(d.accounts, Accounts, AccountRows),
         Table(d.channels, {"channel"}, [allowed : SUBSET Groups])
  PROVE  GroupCut(d, L!DeleteGroup(d, g), g) /\ GroupCut(d, M!DeleteGroup(d, g), g)
<1>1. M!UpdateAllowed(d.accounts, M!SelectAllowed(d.accounts, g)) = L!Disallowed(d.accounts, g)
  <2>1. \A r \in AccountRows : [r EXCEPT !.allowed = r.allowed] = r BY DEF AccountRows
  <2> QED BY <2>1, DisallowedSame DEF Table
<1>2. M!UpdateAllowed(d.channels, M!SelectAllowed(d.channels, g)) = L!Disallowed(d.channels, g)
  <2>1. \A r \in [allowed : SUBSET Groups] : [r EXCEPT !.allowed = r.allowed] = r OBVIOUS
  <2> QED BY <2>1, DisallowedSame DEF Table
<1>3. GroupCut(d, L!DeleteGroup(d, g), g)
  BY DEF GroupCut, Only, L!DeleteGroup, Fields, Shared, Links, Cached
<1>4. GroupCut(d, M!DeleteGroup(d, g), g)
  BY <1>1, <1>2, SameTables
     DEF GroupCut, Only, M!DeleteGroup, M!CommitDeleteGroup, Fields, Shared, Links, Cached
<1> QED BY <1>3, <1>4

\* The balance and its event, or, if it would be overdrawn, nothing.
Adjusted(d, a, n) == [d.accounts EXCEPT ![a].balance = @ + n]
AdjustRow(d, a, n) == [account |-> a, amount |-> n, after |-> d.accounts[a].balance + n]
LEMMA AdjustCalls ==
  ASSUME NEW d, DOMAIN d = Fields, NEW a, NEW n \in Int, NEW id,
         Table(d.accounts, Accounts, AccountRows)
  PROVE  IF a \in DOMAIN d.accounts /\ d.accounts[a].balance + n >= 0
         THEN \A e \in {L!AdjustBalance(d, a, n, id), M!AdjustBalance(d, a, n, id)} :
                 /\ Only(d, e, {"accounts", "balances"})
                 /\ e.accounts = Adjusted(d, a, n)
                 /\ e.balances = L!Put(d.balances, id, AdjustRow(d, a, n))
         ELSE L!AdjustBalance(d, a, n, id) = d /\ M!AdjustBalance(d, a, n, id) = d
<1>1. a \in DOMAIN d.accounts => d.accounts[a].balance \in Int BY DEF Table, AccountRows
<1>2. CASE ~(a \in DOMAIN d.accounts /\ d.accounts[a].balance + n >= 0)
  <2>1. a \notin DOMAIN d.accounts \/ d.accounts[a].balance + n < 0 BY <1>1, <1>2
  <2> QED BY <1>2, <2>1 DEF L!AdjustBalance, M!AdjustBalance
<1>3. CASE a \in DOMAIN d.accounts /\ d.accounts[a].balance + n >= 0
  <2> DEFINE after == d.accounts[a].balance + n
             e == [d EXCEPT !.accounts[a].balance = @ + n,
                            !.balances = L!Put(@, id, AdjustRow(d, a, n))]
  <2>1. ~(a \notin DOMAIN d.accounts \/ after < 0) BY <1>1, <1>3
  <2>2. L!AdjustBalance(d, a, n, id) = e BY <1>3 DEF L!AdjustBalance, AdjustRow
  <2>3. M!AdjustBalance(d, a, n, id) = e BY <2>1, SameTables DEF M!AdjustBalance, AdjustRow
  <2>4. Only(d, e, {"accounts", "balances"}) BY DEF Only, Fields, Shared
  <2>5. e.accounts = Adjusted(d, a, n) BY DEF Adjusted, Fields, Shared
  <2>6. e.balances = L!Put(d.balances, id, AdjustRow(d, a, n)) BY DEF Fields, Shared
  <2> HIDE DEF e
  <2> QED BY <1>3, <2>2, <2>3, <2>4, <2>5, <2>6
<1> QED BY <1>2, <1>3

-----------------------------------------------------------------------------
(* The invariant.  What NothingLeft and SameRows say of the sections, with *)
(* Linked: a log is of an order that an event names.                       *)

Named(f, accounts) == \A id \in DOMAIN f : f[id].account \in accounts
Grouped(f, groups) == \A id \in DOMAIN f : f[id].group \in groups \cup {None}

Sound(d) ==
    /\ Named(d.keys, DOMAIN d.accounts) /\ Named(d.subs, DOMAIN d.accounts)
    /\ Named(d.orders, DOMAIN d.accounts) /\ Named(d.balances, DOMAIN d.accounts)
    /\ Grouped(d.keys, d.groups) /\ Grouped(d.subs, d.groups) /\ Grouped(d.plans, d.groups)
    /\ \A m \in d.members : m[1] \in DOMAIN d.accounts /\ m[2] \in d.groups
    /\ \A a \in DOMAIN d.accounts : d.accounts[a].allowed \subseteq d.groups

RowsTyped(d) ==
    /\ Table(d.accounts, Accounts, AccountRows)
    /\ d.groups \subseteq Groups /\ d.members \subseteq Accounts \X Groups
    /\ Table(d.keys, Ids, KeyRows) /\ Table(d.subs, Ids, SubRows)
    /\ Table(d.plans, {"plan"}, [group : Groups \cup {None}])
    /\ Table(d.channels, {"channel"}, [allowed : SUBSET Groups])
    /\ Table(d.orders, Ids \cup {"order"}, OrderRows)
    /\ Table(d.balances, Ids, BalanceRows)

LinksTyped(d) ==
    Table(d.events, Ids \cup {"event"}, LinkRows) /\ Table(d.logs, Ids \cup {"log"}, LinkRows)

\* The rows of f whose orders are there.
IsKept(f, g, orders) ==
    /\ DOMAIN f = {i \in DOMAIN g : g[i].order \in DOMAIN orders}
    /\ f = [i \in DOMAIN f |-> g[i]]

Linked(d) ==
    \A l \in DOMAIN d.logs :
       \E i \in DOMAIN d.events : /\ d.events[i].order = d.logs[l].order
                                  /\ i = IF l \in Ids THEN l ELSE "event"

RowsInv(d, e) ==
    /\ RowsTyped(d) /\ LinksTyped(d) /\ LinksTyped(e)
    /\ Sound(d) /\ Linked(e)
    /\ \A f \in Shared : d[f] = e[f]
    /\ IsKept(d.events, e.events, d.orders) /\ IsKept(d.logs, e.logs, d.orders)

LEMMA KeptIsDrop ==
  ASSUME NEW f, NEW g, NEW orders
  PROVE  /\ IsKept(f, g, orders) => f = L!Drop(g, Dangling(g, orders))
         /\ IsKept(L!Drop(g, Dangling(g, orders)), g, orders)
BY DEF IsKept, L!Drop, L!Restrict, Dangling

\* A call that leaves the orders and writes the same in both storages.
LEMMA SameWrites ==
  ASSUME NEW d, NEW e, NEW d2, NEW e2, NEW S \in SUBSET (Shared \ {"orders"}),
         DOMAIN d = Fields, DOMAIN e = Fields, RowsInv(d, e),
         Only(d, d2, S), Only(e, e2, S), \A f \in S : d2[f] = e2[f],
         RowsTyped(d2), Sound(d2)
  PROVE  RowsInv(d2, e2)
<1>1. \A f \in Shared : d2[f] = e2[f]
  BY DEF Only, RowsInv, Fields
<1>2. /\ d2.events = d.events /\ d2.logs = d.logs /\ d2.orders = d.orders
      /\ e2.events = e.events /\ e2.logs = e.logs
  BY DEF Only, Fields, Shared, Links
<1>3. Linked(e2) BY <1>2 DEF RowsInv, Linked
<1>4. LinksTyped(d2) /\ LinksTyped(e2) BY <1>2 DEF RowsInv, LinksTyped
<1> QED BY <1>1, <1>2, <1>3, <1>4 DEF RowsInv

\* h has the rows of f whose ids are in S, as they were.
Part(f, h, S) == DOMAIN h = S \cap DOMAIN f /\ h = [i \in S \cap DOMAIN f |-> f[i]]

LEMMA DropKeeps == \A f, S : Part(f, L!Drop(f, S), DOMAIN f \ S)
BY DEF Part, L!Drop, L!Restrict

LEMMA PartTyped == \A f, h, S, ids, R : Part(f, h, S) /\ Table(f, ids, R) => Table(h, ids, R)
BY DEF Part, Table

-----------------------------------------------------------------------------
(* Each call of Registry, on two storages of which this holds.             *)

Held(d, e) == DOMAIN d = Fields /\ DOMAIN e = Fields /\ RowsInv(d, e)

\* What a call on the account sections does to the two.
Writes(d, e, d2, e2) ==
    /\ Only(d, d2, Shared \cup Links) /\ Only(e, e2, Shared \cup Links)
    /\ RowsInv(d2, e2)

LEMMA WriteSame ==
  ASSUME NEW d, NEW e, Held(d, e), NEW d2, NEW e2, NEW S \in SUBSET (Shared \ {"orders"}),
         Only(d, d2, S), Only(e, e2, S), \A f \in S : d2[f] = e2[f],
         RowsTyped(d2), Sound(d2)
  PROVE  Writes(d, e, d2, e2)
<1>1. Only(d, d2, Shared \cup Links) /\ Only(e, e2, Shared \cup Links) BY DEF Only
<1> QED BY <1>1, SameWrites DEF Held, Writes

LEMMA SaveAccountCall ==
  ASSUME NEW d, NEW e, Held(d, e), NEW a \in Accounts, NEW row \in AccountRows,
         row.allowed \subseteq d.groups,
         \A b \in DOMAIN d.accounts \ {a} : d.accounts[b].external # row.external
  PROVE  Writes(d, e, L!UpsertAccount(d, a, row), M!UpsertAccount(e, a, row))
<1> DEFINE d2 == L!UpsertAccount(d, a, row)
           e2 == M!UpsertAccount(e, a, row)
<1>1. d.accounts = e.accounts BY DEF Held, RowsInv, Shared
<1>2. /\ Only(d, d2, {"accounts"}) /\ d2.accounts = L!Put(d.accounts, a, row)
      /\ Only(e, e2, {"accounts"}) /\ e2.accounts = L!Put(d.accounts, a, row)
  BY <1>1, AccountCalls DEF Held
<1> HIDE DEF d2, e2
<1>3. /\ d2.groups = d.groups /\ d2.members = d.members /\ d2.keys = d.keys /\ d2.subs = d.subs
      /\ d2.plans = d.plans /\ d2.channels = d.channels /\ d2.orders = d.orders
      /\ d2.balances = d.balances
  BY <1>2 DEF Only, Held, Fields, Shared
<1>4. Table(d.accounts, Accounts, AccountRows) BY DEF Held, RowsInv, RowsTyped
<1>5. /\ Table(d2.accounts, Accounts, AccountRows)
      /\ DOMAIN d2.accounts = DOMAIN d.accounts \cup {a}
      /\ \A i \in DOMAIN d.accounts \cup {a} : d2.accounts[i] = IF i = a THEN row ELSE d.accounts[i]
  <2>1. /\ DOMAIN d2.accounts = DOMAIN d.accounts \cup {a}
        /\ \A i \in DOMAIN d.accounts \cup {a} : d2.accounts[i] = IF i = a THEN row ELSE d.accounts[i]
    BY <1>2 DEF L!Put
  <2>2. Table(d2.accounts, Accounts, AccountRows) BY <1>2, <1>4 DEF Table, L!Put
  <2> QED BY <2>1, <2>2
<1>6. RowsTyped(d2) BY <1>3, <1>5 DEF RowsTyped, Held, RowsInv
<1>7. Sound(d2)
  BY <1>3, <1>5 DEF Sound, Held, RowsInv, Named, Grouped
<1>8. {"accounts"} \in SUBSET (Shared \ {"orders"}) BY DEF Shared
<1> QED BY <1>2, <1>6, <1>7, <1>8, WriteSame DEF d2, e2

LEMMA CutRows == \A f, a : Part(f, CutOf(f, a), {i \in DOMAIN f : f[i].account # a})
<1>1. \A f, a : DOMAIN f \ Of(f, a) = {i \in DOMAIN f : f[i].account # a} BY DEF Of
<1> QED BY <1>1, DropKeeps DEF CutOf

LEMMA RemoveAccountCall ==
  ASSUME NEW d, NEW e, Held(d, e), NEW a
  PROVE  Writes(d, e, L!DeleteAccount(d, a), M!DeleteAccount(e, a))
<1> DEFINE d2 == L!DeleteAccount(d, a)
           e2 == M!DeleteAccount(e, a)
<1>1. /\ AccountCut(d, d2, a)
      /\ d2.events = L!Drop(d.events, {i \in DOMAIN d.events : d.events[i].order \in Of(d.orders, a)})
      /\ d2.logs = L!Drop(d.logs, {i \in DOMAIN d.logs : d.logs[i].order \in Of(d.orders, a)})
      /\ AccountCut(e, e2, a) /\ e2.events = e.events /\ e2.logs = e.logs
  BY DeleteAccountCalls DEF Held
<1> HIDE DEF d2, e2
<1>2. \A f \in Shared : d[f] = e[f] BY DEF Held, RowsInv
<1>3. \A f \in Shared : d2[f] = e2[f]
  BY <1>1, <1>2 DEF AccountCut, Shared
<1>4. RowsTyped(d) /\ LinksTyped(d) /\ LinksTyped(e) /\ Sound(d) BY DEF Held, RowsInv
<1>5. /\ Part(d.keys, d2.keys, {i \in DOMAIN d.keys : d.keys[i].account # a})
      /\ Part(d.subs, d2.subs, {i \in DOMAIN d.subs : d.subs[i].account # a})
      /\ Part(d.orders, d2.orders, {i \in DOMAIN d.orders : d.orders[i].account # a})
      /\ Part(d.balances, d2.balances, {i \in DOMAIN d.balances : d.balances[i].account # a})
  BY <1>1, CutRows DEF AccountCut
<1>6. Part(d.accounts, d2.accounts, DOMAIN d.accounts \ {a})
  BY <1>1, DropKeeps DEF AccountCut
<1>7. RowsTyped(d2)
  <2>1. /\ Table(d2.keys, Ids, KeyRows) /\ Table(d2.subs, Ids, SubRows)
        /\ Table(d2.orders, Ids \cup {"order"}, OrderRows) /\ Table(d2.balances, Ids, BalanceRows)
        /\ Table(d2.accounts, Accounts, AccountRows)
    BY <1>4, <1>5, <1>6, PartTyped DEF RowsTyped
  <2> QED BY <1>1, <1>4, <2>1 DEF RowsTyped, AccountCut
<1>8. Sound(d2)
  <2>1. /\ Named(d2.keys, DOMAIN d2.accounts) /\ Named(d2.subs, DOMAIN d2.accounts)
        /\ Named(d2.orders, DOMAIN d2.accounts) /\ Named(d2.balances, DOMAIN d2.accounts)
    BY <1>4, <1>5, <1>6 DEF Sound, Named, Part
  <2>2. Grouped(d2.keys, d2.groups) /\ Grouped(d2.subs, d2.groups)
    BY <1>1, <1>4, <1>5 DEF Sound, Grouped, AccountCut, Part
  <2>3. Grouped(d2.plans, d2.groups) BY <1>1, <1>4 DEF Sound, AccountCut
  <2>4. \A m \in d2.members : m[1] \in DOMAIN d2.accounts /\ m[2] \in d2.groups
    BY <1>1, <1>4, <1>6 DEF Sound, AccountCut, Part
  <2>5. \A b \in DOMAIN d2.accounts : d2.accounts[b].allowed \subseteq d2.groups
    BY <1>1, <1>4, <1>6 DEF Sound, AccountCut, Part
  <2> QED BY <2>1, <2>2, <2>3, <2>4, <2>5 DEF Sound
<1>9. /\ Part(d.events, d2.events, {i \in DOMAIN d.events : d.events[i].order \notin Of(d.orders, a)})
      /\ Part(d.logs, d2.logs, {i \in DOMAIN d.logs : d.logs[i].order \notin Of(d.orders, a)})
  <2>1. \A f : DOMAIN f \ {i \in DOMAIN f : f[i].order \in Of(d.orders, a)}
                = {i \in DOMAIN f : f[i].order \notin Of(d.orders, a)}
    OBVIOUS
  <2>2. \A f : Part(f, L!Drop(f, {i \in DOMAIN f : f[i].order \in Of(d.orders, a)}),
                    {i \in DOMAIN f : f[i].order \notin Of(d.orders, a)})
    BY <2>1, DropKeeps
  <2> QED BY <1>1, <2>2
<1>10. LinksTyped(d2) BY <1>4, <1>9, PartTyped DEF LinksTyped
<1>11. IsKept(d.events, e.events, d.orders) /\ IsKept(d.logs, e.logs, d.orders) /\ Linked(e)
  BY DEF Held, RowsInv
<1>12. \A f, g, f2 : /\ IsKept(f, g, d.orders)
                     /\ Part(f, f2, {i \in DOMAIN f : f[i].order \notin Of(d.orders, a)})
                     => IsKept(f2, g, d2.orders)
  <2>1. \A o : o \in DOMAIN d2.orders <=> o \in DOMAIN d.orders /\ o \notin Of(d.orders, a)
    BY <1>5 DEF Of, Part
  <2> QED BY <2>1 DEF IsKept, Part
<1>13. IsKept(d2.events, e2.events, d2.orders) /\ IsKept(d2.logs, e2.logs, d2.orders)
  BY <1>1, <1>9, <1>11, <1>12
<1>14. Linked(e2) /\ LinksTyped(e2) BY <1>1, <1>4, <1>11 DEF Linked, LinksTyped
<1>15. RowsInv(d2, e2) BY <1>3, <1>7, <1>8, <1>10, <1>13, <1>14 DEF RowsInv
<1> QED BY <1>1, <1>15 DEF Writes, AccountCut, d2, e2

LEMMA AdjustCall ==
  ASSUME NEW d, NEW e, Held(d, e), NEW a \in Accounts, NEW n \in Int, NEW id \in Ids
  PROVE  Writes(d, e, L!AdjustBalance(d, a, n, id), M!AdjustBalance(e, a, n, id))
<1> DEFINE d2 == L!AdjustBalance(d, a, n, id)
           e2 == M!AdjustBalance(e, a, n, id)
           S  == {"accounts", "balances"}
<1>1. /\ d.accounts = e.accounts /\ d.balances = e.balances
      /\ DOMAIN d = Fields /\ DOMAIN e = Fields /\ RowsTyped(d) /\ Sound(d)
  BY DEF Held, RowsInv, Shared
<1>2. Table(d.accounts, Accounts, AccountRows) /\ Table(d.balances, Ids, BalanceRows)
  BY <1>1 DEF RowsTyped
<1>3. CASE ~(a \in DOMAIN d.accounts /\ d.accounts[a].balance + n >= 0)
  <2>1. d2 = d BY <1>1, <1>2, <1>3, AdjustCalls
  <2>2. e2 = e BY <1>1, <1>2, <1>3, AdjustCalls
  <2> HIDE DEF d2, e2
  <2>3. Writes(d, e, d2, e2) BY <2>1, <2>2 DEF Writes, Only, Held
  <2> QED BY <2>3 DEF d2, e2
<1>4. CASE a \in DOMAIN d.accounts /\ d.accounts[a].balance + n >= 0
  <2> DEFINE row == AdjustRow(d, a, n)
  <2>1. /\ Only(d, d2, S) /\ d2.accounts = Adjusted(d, a, n)
        /\ d2.balances = L!Put(d.balances, id, row)
    BY <1>1, <1>2, <1>4, AdjustCalls
  <2>2. /\ Only(e, e2, S) /\ e2.accounts = Adjusted(d, a, n)
        /\ e2.balances = L!Put(d.balances, id, row)
    <3>1. Adjusted(e, a, n) = Adjusted(d, a, n) /\ AdjustRow(e, a, n) = row
      BY <1>1 DEF Adjusted, AdjustRow
    <3> QED BY <1>1, <1>2, <1>4, <3>1, AdjustCalls
  <2>3. row \in BalanceRows /\ row.account = a
    BY <1>2, <1>4 DEF AdjustRow, BalanceRows, Table, AccountRows
  <2> HIDE DEF d2, e2, row
  <2>4. /\ d2.groups = d.groups /\ d2.members = d.members /\ d2.keys = d.keys /\ d2.subs = d.subs
        /\ d2.plans = d.plans /\ d2.channels = d.channels /\ d2.orders = d.orders
    BY <1>1, <2>1 DEF Only, Fields, Shared
  <2>5. /\ DOMAIN d2.accounts = DOMAIN d.accounts /\ Table(d2.accounts, Accounts, AccountRows)
        /\ \A b \in DOMAIN d.accounts : d2.accounts[b].allowed = d.accounts[b].allowed
    BY <1>2, <1>4, <2>1 DEF Adjusted, Table, AccountRows
  <2>6. Table(d2.balances, Ids, BalanceRows) BY <1>2, <2>1, <2>3 DEF Table, L!Put
  <2>7. Named(d2.balances, DOMAIN d2.accounts)
    BY <1>1, <1>4, <2>1, <2>3, <2>5 DEF Sound, Named, L!Put
  <2>8. RowsTyped(d2) BY <1>1, <2>4, <2>5, <2>6 DEF RowsTyped
  <2>9. Sound(d2) BY <1>1, <2>4, <2>5, <2>7 DEF Sound
  <2>10. S \in SUBSET (Shared \ {"orders"}) BY DEF Shared
  <2>11. \A f \in S : d2[f] = e2[f] BY <2>1, <2>2
  <2> QED BY <2>1, <2>2, <2>8, <2>9, <2>10, <2>11, WriteSame DEF d2, e2
<1> QED BY <1>3, <1>4

-----------------------------------------------------------------------------

LEMMA SaveGroupCall ==
  ASSUME NEW d, NEW e, Held(d, e), NEW g \in Groups
  PROVE  Writes(d, e, L!UpsertGroup(d, g), M!UpsertGroup(e, g))
<1> DEFINE d2 == L!UpsertGroup(d, g)
           e2 == M!UpsertGroup(e, g)
<1>1. d.groups = e.groups /\ RowsTyped(d) /\ Sound(d) BY DEF Held, RowsInv, Shared
<1>2. /\ Only(d, d2, {"groups"}) /\ d2.groups = d.groups \cup {g}
      /\ Only(e, e2, {"groups"}) /\ e2.groups = d.groups \cup {g}
  <2>1. Fields \subseteq DOMAIN d /\ Fields \subseteq DOMAIN e BY DEF Held
  <2>2. Only(d, d2, {"groups"}) /\ d2.groups = d.groups \cup {g} BY <2>1, GroupCalls
  <2>3. Only(e, e2, {"groups"}) /\ e2.groups = e.groups \cup {g} BY <2>1, GroupCalls
  <2> QED BY <1>1, <2>2, <2>3
<1> HIDE DEF d2, e2
<1>3. /\ d2.accounts = d.accounts /\ d2.members = d.members /\ d2.keys = d.keys /\ d2.subs = d.subs
      /\ d2.plans = d.plans /\ d2.channels = d.channels /\ d2.orders = d.orders
      /\ d2.balances = d.balances
  BY <1>2 DEF Only, Held, Fields, Shared
<1>4. RowsTyped(d2) BY <1>1, <1>2, <1>3 DEF RowsTyped
<1>5. Sound(d2) BY <1>1, <1>2, <1>3 DEF Sound, Grouped
<1>6. {"groups"} \in SUBSET (Shared \ {"orders"}) BY DEF Shared
<1> QED BY <1>2, <1>4, <1>5, <1>6, WriteSame DEF d2, e2

LEMMA JoinCall ==
  ASSUME NEW d, NEW e, Held(d, e), NEW a \in DOMAIN d.accounts, NEW gs \in SUBSET d.groups
  PROVE  Writes(d, e, L!ReplaceGroups(d, a, gs), M!ReplaceGroups(e, a, gs))
<1> DEFINE d2 == L!ReplaceGroups(d, a, gs)
           e2 == M!ReplaceGroups(e, a, gs)
<1>1. d.members = e.members /\ RowsTyped(d) /\ Sound(d) BY DEF Held, RowsInv, Shared
<1>2. /\ Only(d, d2, {"members"}) /\ d2.members = {m \in d.members : m[1] # a} \cup ({a} \X gs)
      /\ Only(e, e2, {"members"}) /\ e2.members = {m \in d.members : m[1] # a} \cup ({a} \X gs)
  <2>1. Fields \subseteq DOMAIN d /\ Fields \subseteq DOMAIN e BY DEF Held
  <2>2. Only(d, d2, {"members"}) /\ d2.members = {m \in d.members : m[1] # a} \cup ({a} \X gs)
    BY <2>1, MemberCalls
  <2>3. Only(e, e2, {"members"}) /\ e2.members = {m \in e.members : m[1] # a} \cup ({a} \X gs)
    BY <2>1, MemberCalls
  <2> QED BY <1>1, <2>2, <2>3
<1> HIDE DEF d2, e2
<1>3. /\ d2.accounts = d.accounts /\ d2.groups = d.groups /\ d2.keys = d.keys /\ d2.subs = d.subs
      /\ d2.plans = d.plans /\ d2.channels = d.channels /\ d2.orders = d.orders
      /\ d2.balances = d.balances
  BY <1>2 DEF Only, Held, Fields, Shared
<1>4. RowsTyped(d2)
  <2>1. a \in Accounts /\ gs \subseteq Groups BY <1>1 DEF RowsTyped, Table
  <2> QED BY <1>1, <1>2, <1>3, <2>1 DEF RowsTyped
<1>5. Sound(d2) BY <1>1, <1>2, <1>3 DEF Sound
<1>6. {"members"} \in SUBSET (Shared \ {"orders"}) BY DEF Shared
<1> QED BY <1>2, <1>4, <1>5, <1>6, WriteSame DEF d2, e2

LEMMA RemoveGroupCall ==
  ASSUME NEW d, NEW e, Held(d, e), NEW g
  PROVE  Writes(d, e, L!DeleteGroup(d, g), M!DeleteGroup(e, g))
<1> DEFINE d2 == L!DeleteGroup(d, g)
           e2 == M!DeleteGroup(e, g)
           S  == Shared \ {"orders"}
<1>1. /\ \A f \in Shared : d[f] = e[f]
      /\ DOMAIN d = Fields /\ DOMAIN e = Fields /\ RowsTyped(d) /\ Sound(d)
  BY DEF Held, RowsInv
<1>2. GroupCut(d, d2, g) /\ GroupCut(e, e2, g)
  <2>1. e.accounts = d.accounts /\ e.channels = d.channels BY <1>1 DEF Shared
  <2> QED BY <1>1, <2>1, DeleteGroupCalls DEF RowsTyped
<1> HIDE DEF d2, e2
<1>3. Only(d, d2, S) /\ Only(e, e2, S) BY <1>2 DEF GroupCut, Only
<1>4. \A f \in S : d2[f] = e2[f] BY <1>1, <1>2 DEF GroupCut, Shared
<1>5. Table(d2.keys, Ids, KeyRows)
  <2>1. \A r \in KeyRows : [r EXCEPT !.group = None] \in KeyRows BY DEF KeyRows
  <2> QED BY <1>1, <1>2, <2>1 DEF RowsTyped, GroupCut, L!Ungrouped, Table
<1>6. Table(d2.subs, Ids, SubRows)
  <2>1. \A r \in SubRows : [r EXCEPT !.group = None] \in SubRows BY DEF SubRows
  <2> QED BY <1>1, <1>2, <2>1 DEF RowsTyped, GroupCut, L!Ungrouped, Table
<1>7. Table(d2.plans, {"plan"}, [group : Groups \cup {None}])
  <2>1. \A r \in [group : Groups \cup {None}] : [r EXCEPT !.group = None] \in [group : Groups \cup {None}]
    OBVIOUS
  <2> QED BY <1>1, <1>2, <2>1 DEF RowsTyped, GroupCut, L!Ungrouped, Table
<1>8. /\ Table(d2.accounts, Accounts, AccountRows) /\ DOMAIN d2.accounts = DOMAIN d.accounts
      /\ \A a \in DOMAIN d.accounts : d2.accounts[a].allowed = d.accounts[a].allowed \ {g}
  <2>1. \A a \in DOMAIN d.accounts : d.accounts[a] \in AccountRows BY <1>1 DEF RowsTyped, Table
  <2>2. \A r \in AccountRows : /\ [r EXCEPT !.allowed = r.allowed \ {g}] \in AccountRows
                               /\ [r EXCEPT !.allowed = r.allowed \ {g}].allowed = r.allowed \ {g}
    BY DEF AccountRows
  <2>3. d2.accounts = [a \in DOMAIN d.accounts |->
                         [d.accounts[a] EXCEPT !.allowed = d.accounts[a].allowed \ {g}]]
    BY <1>2 DEF GroupCut, L!Disallowed
  <2>4. DOMAIN d.accounts \subseteq Accounts BY <1>1 DEF RowsTyped, Table
  <2> QED BY <2>1, <2>2, <2>3, <2>4 DEF Table
<1>9. Table(d2.channels, {"channel"}, [allowed : SUBSET Groups])
  BY <1>1, <1>2 DEF RowsTyped, GroupCut, L!Disallowed, Table
<1>10. RowsTyped(d2) BY <1>1, <1>2, <1>5, <1>6, <1>7, <1>8, <1>9 DEF RowsTyped, GroupCut
<1>11. /\ DOMAIN d2.keys = DOMAIN d.keys /\ Named(d2.keys, DOMAIN d2.accounts)
       /\ Grouped(d2.keys, d2.groups)
  <2>1. \A k \in DOMAIN d.keys : d.keys[k] \in KeyRows BY <1>1 DEF RowsTyped, Table
  <2> QED BY <1>1, <1>2, <1>8, <2>1 DEF GroupCut, Sound, Named, Grouped, L!Ungrouped, KeyRows
<1>12. /\ Named(d2.subs, DOMAIN d2.accounts) /\ Grouped(d2.subs, d2.groups)
  <2>1. \A k \in DOMAIN d.subs : d.subs[k] \in SubRows BY <1>1 DEF RowsTyped, Table
  <2> QED BY <1>1, <1>2, <1>8, <2>1 DEF GroupCut, Sound, Named, Grouped, L!Ungrouped, SubRows
<1>13. Grouped(d2.plans, d2.groups)
  <2>1. \A k \in DOMAIN d.plans : d.plans[k] \in [group : Groups \cup {None}]
    BY <1>1 DEF RowsTyped, Table
  <2> QED BY <1>1, <1>2, <2>1 DEF GroupCut, Sound, Grouped, L!Ungrouped
<1>14. Sound(d2)
  BY <1>1, <1>2, <1>8, <1>11, <1>12, <1>13 DEF Sound, GroupCut
<1> QED BY <1>3, <1>4, <1>10, <1>14, WriteSame DEF d2, e2

-----------------------------------------------------------------------------
(* Keys, plans, channels, subscriptions, orders and deliveries              *)

\* A call that writes one section with rows of accounts and groups that are there.
LEMMA KeysWritten ==
  ASSUME NEW d, NEW e, Held(d, e), NEW d2, NEW e2, Only(d, d2, {"keys"}), Only(e, e2, {"keys"}),
         d2.keys = e2.keys, Table(d2.keys, Ids, KeyRows),
         Named(d2.keys, DOMAIN d.accounts), Grouped(d2.keys, d.groups)
  PROVE  Writes(d, e, d2, e2)
<1>1. /\ d2.accounts = d.accounts /\ d2.groups = d.groups /\ d2.members = d.members /\ d2.subs = d.subs
      /\ d2.plans = d.plans /\ d2.channels = d.channels /\ d2.orders = d.orders
      /\ d2.balances = d.balances
  BY DEF Only, Held, Fields, Shared
<1>2. RowsTyped(d2) BY <1>1 DEF Held, RowsInv, RowsTyped
<1>3. Sound(d2) BY <1>1 DEF Held, RowsInv, Sound
<1>4. {"keys"} \in SUBSET (Shared \ {"orders"}) BY DEF Shared
<1> QED BY <1>2, <1>3, <1>4, WriteSame

LEMMA SubsWritten ==
  ASSUME NEW d, NEW e, Held(d, e), NEW d2, NEW e2, Only(d, d2, {"subs"}), Only(e, e2, {"subs"}),
         d2.subs = e2.subs, Table(d2.subs, Ids, SubRows),
         Named(d2.subs, DOMAIN d.accounts), Grouped(d2.subs, d.groups)
  PROVE  Writes(d, e, d2, e2)
<1>1. /\ d2.accounts = d.accounts /\ d2.groups = d.groups /\ d2.members = d.members /\ d2.keys = d.keys
      /\ d2.plans = d.plans /\ d2.channels = d.channels /\ d2.orders = d.orders
      /\ d2.balances = d.balances
  BY DEF Only, Held, Fields, Shared
<1>2. RowsTyped(d2) BY <1>1 DEF Held, RowsInv, RowsTyped
<1>3. Sound(d2) BY <1>1 DEF Held, RowsInv, Sound
<1>4. {"subs"} \in SUBSET (Shared \ {"orders"}) BY DEF Shared
<1> QED BY <1>2, <1>3, <1>4, WriteSame

LEMMA SaveKeyCall ==
  ASSUME NEW d, NEW e, Held(d, e), NEW k \in Ids, NEW row \in KeyRows,
         row.account \in DOMAIN d.accounts, row.group \in d.groups \cup {None}
  PROVE  Writes(d, e, L!UpsertKey(d, k, row), M!UpsertKey(e, k, row))
<1> DEFINE d2 == L!UpsertKey(d, k, row)
           e2 == M!UpsertKey(e, k, row)
<1>1. "keys" \in DOMAIN d /\ "keys" \in DOMAIN e /\ d.keys = e.keys
  BY DEF Held, RowsInv, Fields, Shared
<1>2. Only(d, d2, {"keys"}) /\ d2.keys = L!Put(d.keys, k, row) BY <1>1, KeyCalls
<1>3. Only(e, e2, {"keys"}) /\ e2.keys = L!Put(e.keys, k, row) BY <1>1, KeyCalls
<1>4. Table(d.keys, Ids, KeyRows) /\ Named(d.keys, DOMAIN d.accounts) /\ Grouped(d.keys, d.groups)
  BY DEF Held, RowsInv, RowsTyped, Sound
<1> HIDE DEF d2, e2
<1>5. Table(d2.keys, Ids, KeyRows) BY <1>2, <1>4 DEF Table, L!Put
<1>6. Named(d2.keys, DOMAIN d.accounts) /\ Grouped(d2.keys, d.groups)
  BY <1>2, <1>4 DEF Named, Grouped, L!Put
<1> QED BY <1>1, <1>2, <1>3, <1>5, <1>6, KeysWritten DEF d2, e2

LEMMA RemoveKeyCall ==
  ASSUME NEW d, NEW e, Held(d, e), NEW k
  PROVE  Writes(d, e, L!DeleteKey(d, k), M!DeleteKey(e, k))
<1> DEFINE d2 == L!DeleteKey(d, k)
           e2 == M!DeleteKey(e, k)
<1>1. "keys" \in DOMAIN d /\ "keys" \in DOMAIN e /\ d.keys = e.keys
  BY DEF Held, RowsInv, Fields, Shared
<1>2. Only(d, d2, {"keys"}) /\ d2.keys = L!Drop(d.keys, {k}) BY <1>1, KeyCalls
<1>3. Only(e, e2, {"keys"}) /\ e2.keys = L!Drop(e.keys, {k}) BY <1>1, KeyCalls
<1>4. Table(d.keys, Ids, KeyRows) /\ Named(d.keys, DOMAIN d.accounts) /\ Grouped(d.keys, d.groups)
  BY DEF Held, RowsInv, RowsTyped, Sound
<1> HIDE DEF d2, e2
<1>5. Part(d.keys, d2.keys, DOMAIN d.keys \ {k}) BY <1>2, DropKeeps
<1>6. Table(d2.keys, Ids, KeyRows) BY <1>4, <1>5, PartTyped
<1>7. Named(d2.keys, DOMAIN d.accounts) /\ Grouped(d2.keys, d.groups)
  BY <1>4, <1>5 DEF Named, Grouped, Part
<1> QED BY <1>1, <1>2, <1>3, <1>6, <1>7, KeysWritten DEF d2, e2

LEMMA SwitchKeyCall ==
  ASSUME NEW d, NEW e, Held(d, e), NEW k, NEW on \in BOOLEAN, NEW n \in Nat
  PROVE  /\ Writes(d, e, L!SetKeyEnabled(d, k, on), M!SetKeyEnabled(e, k, on))
         /\ Writes(d, e, L!TouchKey(d, k, n), M!TouchKey(e, k, n))
<1>1. "keys" \in DOMAIN d /\ "keys" \in DOMAIN e /\ d.keys = e.keys
  BY DEF Held, RowsInv, Fields, Shared
<1>2. Table(d.keys, Ids, KeyRows) /\ Named(d.keys, DOMAIN d.accounts) /\ Grouped(d.keys, d.groups)
  BY DEF Held, RowsInv, RowsTyped, Sound
<1>3. \A i \in DOMAIN d.keys : d.keys[i] \in KeyRows BY <1>2 DEF Table
<1>4. ASSUME NEW t, t \in {Switched(d.keys, k, on), Touched(d.keys, k, n)}
      PROVE  Table(t, Ids, KeyRows) /\ Named(t, DOMAIN d.accounts) /\ Grouped(t, d.groups)
  <2>1. DOMAIN t = DOMAIN d.keys BY <1>4 DEF Switched, Touched
  <2>2. t = [i \in DOMAIN t |-> t[i]] BY <1>4 DEF Switched, Touched
  <2>3. \A i \in DOMAIN t : /\ t[i] \in KeyRows /\ t[i].account = d.keys[i].account
                            /\ t[i].group = d.keys[i].group
    BY <1>3, <1>4 DEF Switched, Touched, KeyRows
  <2> QED BY <1>2, <2>1, <2>2, <2>3 DEF Table, Named, Grouped
<1>5. Writes(d, e, L!SetKeyEnabled(d, k, on), M!SetKeyEnabled(e, k, on))
  <2> DEFINE d2 == L!SetKeyEnabled(d, k, on)
             e2 == M!SetKeyEnabled(e, k, on)
  <2>1. Only(d, d2, {"keys"}) /\ d2.keys = Switched(d.keys, k, on) BY <1>1, <1>2, SwitchCalls
  <2>2. Only(e, e2, {"keys"}) /\ e2.keys = Switched(d.keys, k, on) BY <1>1, <1>2, SwitchCalls
  <2> HIDE DEF d2, e2
  <2> QED BY <1>4, <2>1, <2>2, KeysWritten DEF d2, e2
<1>6. Writes(d, e, L!TouchKey(d, k, n), M!TouchKey(e, k, n))
  <2> DEFINE d2 == L!TouchKey(d, k, n)
             e2 == M!TouchKey(e, k, n)
  <2>1. Only(d, d2, {"keys"}) /\ d2.keys = Touched(d.keys, k, n) BY <1>1, <1>2, SwitchCalls
  <2>2. Only(e, e2, {"keys"}) /\ e2.keys = Touched(d.keys, k, n) BY <1>1, <1>2, SwitchCalls
  <2> HIDE DEF d2, e2
  <2> QED BY <1>4, <2>1, <2>2, KeysWritten DEF d2, e2
<1> QED BY <1>5, <1>6

LEMMA SavePlanCall ==
  ASSUME NEW d, NEW e, Held(d, e), NEW g \in d.groups \cup {None}
  PROVE  Writes(d, e, L!UpsertPlan(d, "plan", [group |-> g]), M!UpsertPlan(e, "plan", [group |-> g]))
<1> DEFINE row == [group |-> g]
           d2 == L!UpsertPlan(d, "plan", row)
           e2 == M!UpsertPlan(e, "plan", row)
<1>1. /\ Fields \subseteq DOMAIN d /\ Fields \subseteq DOMAIN e /\ d.plans = e.plans
      /\ RowsTyped(d) /\ Sound(d)
  BY DEF Held, RowsInv, Shared
<1>2. Only(d, d2, {"plans"}) /\ d2.plans = L!Put(d.plans, "plan", row) BY <1>1, RowCalls
<1>3. Only(e, e2, {"plans"}) /\ e2.plans = L!Put(e.plans, "plan", row) BY <1>1, RowCalls
<1>4. row.group = g /\ row \in [group : Groups \cup {None}] BY <1>1 DEF RowsTyped
<1> HIDE DEF d2, e2, row
<1>5. /\ d2.accounts = d.accounts /\ d2.groups = d.groups /\ d2.members = d.members /\ d2.keys = d.keys
      /\ d2.subs = d.subs /\ d2.channels = d.channels /\ d2.orders = d.orders
      /\ d2.balances = d.balances
  BY <1>2 DEF Only, Held, Fields, Shared
<1>6. Table(d2.plans, {"plan"}, [group : Groups \cup {None}])
  BY <1>1, <1>2, <1>4 DEF RowsTyped, Table, L!Put
<1>7. Grouped(d2.plans, d.groups) BY <1>1, <1>2, <1>4 DEF Sound, Grouped, L!Put
<1>8. RowsTyped(d2) /\ Sound(d2) BY <1>1, <1>5, <1>6, <1>7 DEF RowsTyped, Sound
<1>9. {"plans"} \in SUBSET (Shared \ {"orders"}) BY DEF Shared
<1> QED BY <1>1, <1>2, <1>3, <1>8, <1>9, WriteSame DEF d2, e2, row

LEMMA SaveChannelCall ==
  ASSUME NEW d, NEW e, Held(d, e), NEW gs \in SUBSET Groups
  PROVE  Writes(d, e, L!UpsertChannel(d, "channel", [allowed |-> gs]),
                      M!UpsertChannel(e, "channel", [allowed |-> gs]))
<1> DEFINE row == [allowed |-> gs]
           d2 == L!UpsertChannel(d, "channel", row)
           e2 == M!UpsertChannel(e, "channel", row)
<1>1. /\ Fields \subseteq DOMAIN d /\ Fields \subseteq DOMAIN e /\ d.channels = e.channels
      /\ RowsTyped(d) /\ Sound(d)
  BY DEF Held, RowsInv, Shared
<1>2. Only(d, d2, {"channels"}) /\ d2.channels = L!Put(d.channels, "channel", row) BY <1>1, RowCalls
<1>3. Only(e, e2, {"channels"}) /\ e2.channels = L!Put(e.channels, "channel", row) BY <1>1, RowCalls
<1>4. row \in [allowed : SUBSET Groups] OBVIOUS
<1> HIDE DEF d2, e2, row
<1>5. /\ d2.accounts = d.accounts /\ d2.groups = d.groups /\ d2.members = d.members /\ d2.keys = d.keys
      /\ d2.subs = d.subs /\ d2.plans = d.plans /\ d2.orders = d.orders
      /\ d2.balances = d.balances
  BY <1>2 DEF Only, Held, Fields, Shared
<1>6. Table(d2.channels, {"channel"}, [allowed : SUBSET Groups])
  BY <1>1, <1>2, <1>4 DEF RowsTyped, Table, L!Put
<1>7. RowsTyped(d2) /\ Sound(d2) BY <1>1, <1>5, <1>6 DEF RowsTyped, Sound
<1>8. {"channels"} \in SUBSET (Shared \ {"orders"}) BY DEF Shared
<1> QED BY <1>1, <1>2, <1>3, <1>7, <1>8, WriteSame DEF d2, e2, row

LEMMA SubscribeCall ==
  ASSUME NEW d, NEW e, Held(d, e), NEW s \in Ids, NEW row \in SubRows,
         row.account \in DOMAIN d.accounts, row.group \in d.groups \cup {None}
  PROVE  Writes(d, e, L!UpsertSubscription(d, s, row), M!UpsertSubscription(e, s, row))
<1> DEFINE d2 == L!UpsertSubscription(d, s, row)
           e2 == M!UpsertSubscription(e, s, row)
<1>1. /\ Fields \subseteq DOMAIN d /\ Fields \subseteq DOMAIN e /\ d.subs = e.subs
  BY DEF Held, RowsInv, Shared
<1>2. Only(d, d2, {"subs"}) /\ d2.subs = L!Put(d.subs, s, row) BY <1>1, RowCalls
<1>3. Only(e, e2, {"subs"}) /\ e2.subs = L!Put(e.subs, s, row) BY <1>1, RowCalls
<1>4. Table(d.subs, Ids, SubRows) /\ Named(d.subs, DOMAIN d.accounts) /\ Grouped(d.subs, d.groups)
  BY DEF Held, RowsInv, RowsTyped, Sound
<1> HIDE DEF d2, e2
<1>5. Table(d2.subs, Ids, SubRows) BY <1>2, <1>4 DEF Table, L!Put
<1>6. Named(d2.subs, DOMAIN d.accounts) /\ Grouped(d2.subs, d.groups)
  BY <1>2, <1>4 DEF Named, Grouped, L!Put
<1> QED BY <1>1, <1>2, <1>3, <1>5, <1>6, SubsWritten DEF d2, e2

\* The two count the days of an extension alike.
LEMMA SameChanges ==
  ASSUME NEW row \in SubRows, NEW n \in Nat
  PROVE  /\ M!Extended(row, 1, n) = L!Extended(row, 1, n)
         /\ M!Revoked(row) = L!Revoked(row) /\ M!QuotaReset(row) = L!QuotaReset(row)
         /\ \A r \in {L!Extended(row, 1, n), L!Revoked(row), L!QuotaReset(row)} :
               r \in SubRows /\ r.account = row.account /\ r.group = row.group
<1>1. M!Extended(row, 1, n) = L!Extended(row, 1, n) BY DEF M!Extended, L!Extended, SubRows
<1>2. L!Extended(row, 1, n) \in SubRows BY DEF L!Extended, SubRows
<1>3. /\ M!Revoked(row) = L!Revoked(row) /\ M!QuotaReset(row) = L!QuotaReset(row)
      /\ L!Revoked(row) \in SubRows /\ L!QuotaReset(row) \in SubRows
  BY DEF M!Revoked, L!Revoked, M!QuotaReset, L!QuotaReset, SubRows
<1>4. \A r \in {L!Extended(row, 1, n), L!Revoked(row), L!QuotaReset(row)} :
         r.account = row.account /\ r.group = row.group
  BY DEF L!Extended, L!Revoked, L!QuotaReset, SubRows
<1> QED BY <1>1, <1>2, <1>3, <1>4

LEMMA SaveOrderCall ==
  ASSUME NEW d, NEW e, Held(d, e), NEW o \in Ids, NEW row \in OrderRows,
         row.account \in DOMAIN d.accounts, o \notin DOMAIN d.orders,
         \A i \in DOMAIN e.events : e.events[i].order # o
  PROVE  Writes(d, e, L!UpsertOrder(d, o, row), M!UpsertOrder(e, o, row))
<1> DEFINE d2 == L!UpsertOrder(d, o, row)
           e2 == M!UpsertOrder(e, o, row)
<1>1. /\ Fields \subseteq DOMAIN d /\ Fields \subseteq DOMAIN e
      /\ \A f \in Shared : d[f] = e[f]
      /\ RowsTyped(d) /\ Sound(d) /\ LinksTyped(d) /\ LinksTyped(e) /\ Linked(e)
      /\ IsKept(d.events, e.events, d.orders) /\ IsKept(d.logs, e.logs, d.orders)
  BY DEF Held, RowsInv
<1>2. Only(d, d2, {"orders"}) /\ d2.orders = L!Put(d.orders, o, row) BY <1>1, RowCalls
<1>3. Only(e, e2, {"orders"}) /\ e2.orders = L!Put(e.orders, o, row) BY <1>1, RowCalls
<1> HIDE DEF d2, e2
<1>4. /\ d2.accounts = d.accounts /\ d2.groups = d.groups /\ d2.members = d.members /\ d2.keys = d.keys
      /\ d2.subs = d.subs /\ d2.plans = d.plans /\ d2.channels = d.channels
      /\ d2.balances = d.balances /\ d2.events = d.events /\ d2.logs = d.logs
      /\ e2.events = e.events /\ e2.logs = e.logs
  BY <1>2, <1>3 DEF Only, Held, Fields, Shared, Links
<1>5. \A f \in Shared : d2[f] = e2[f]
  <2>1. d.orders = e.orders BY <1>1 DEF Shared
  <2> QED BY <1>1, <1>2, <1>3, <2>1 DEF Only, Held, Fields
<1>6. Table(d2.orders, Ids \cup {"order"}, OrderRows) BY <1>1, <1>2 DEF RowsTyped, Table, L!Put
<1>7. Named(d2.orders, DOMAIN d.accounts) BY <1>1, <1>2 DEF Sound, Named, L!Put
<1>8. RowsTyped(d2) /\ Sound(d2) BY <1>1, <1>4, <1>6, <1>7 DEF RowsTyped, Sound
<1>9. DOMAIN d2.orders = DOMAIN d.orders \cup {o} BY <1>2 DEF L!Put
<1>10. \A l \in DOMAIN e.logs : e.logs[l].order # o BY <1>1 DEF Linked
<1>11. /\ {i \in DOMAIN e.events : e.events[i].order \in DOMAIN d2.orders}
          = {i \in DOMAIN e.events : e.events[i].order \in DOMAIN d.orders}
       /\ {l \in DOMAIN e.logs : e.logs[l].order \in DOMAIN d2.orders}
          = {l \in DOMAIN e.logs : e.logs[l].order \in DOMAIN d.orders}
  BY <1>9, <1>10
<1>12. IsKept(d2.events, e2.events, d2.orders) /\ IsKept(d2.logs, e2.logs, d2.orders)
  BY <1>1, <1>4, <1>11 DEF IsKept
<1>13. LinksTyped(d2) /\ LinksTyped(e2) /\ Linked(e2) BY <1>1, <1>4 DEF LinksTyped, Linked
<1>14. RowsInv(d2, e2) BY <1>5, <1>8, <1>12, <1>13 DEF RowsInv
<1>15. Only(d, d2, Shared \cup Links) /\ Only(e, e2, Shared \cup Links)
  BY <1>2, <1>3 DEF Only, Shared
<1> QED BY <1>14, <1>15 DEF Writes, d2, e2

LEMMA DeliverCall ==
  ASSUME NEW d, NEW e, Held(d, e), NEW i \in Ids, NEW o \in DOMAIN d.orders
  PROVE  LET row == [order |-> o]
         IN  Writes(d, e, L!RecordLog(L!RecordEvent(d, i, row), i, row),
                          M!RecordLog(M!RecordEvent(e, i, row), i, row))
<1> DEFINE row == [order |-> o]
           d2 == L!RecordLog(L!RecordEvent(d, i, row), i, row)
           e2 == M!RecordLog(M!RecordEvent(e, i, row), i, row)
<1>1. /\ Fields \subseteq DOMAIN d /\ Fields \subseteq DOMAIN e
      /\ \A f \in Shared : d[f] = e[f]
      /\ RowsTyped(d) /\ Sound(d) /\ LinksTyped(d) /\ LinksTyped(e) /\ Linked(e)
      /\ IsKept(d.events, e.events, d.orders) /\ IsKept(d.logs, e.logs, d.orders)
  BY DEF Held, RowsInv
<1>2. /\ Only(d, d2, Links) /\ d2.events = L!Put(d.events, i, row) /\ d2.logs = L!Put(d.logs, i, row)
  BY <1>1, DeliverCalls
<1>3. /\ Only(e, e2, Links) /\ e2.events = L!Put(e.events, i, row) /\ e2.logs = L!Put(e.logs, i, row)
  BY <1>1, DeliverCalls
<1>4. row.order = o /\ row \in LinkRows BY <1>1 DEF LinkRows, RowsTyped, Table
<1> HIDE DEF d2, e2, row
<1>5. \A f \in Shared : d2[f] = d[f] /\ e2[f] = e[f]
  BY <1>2, <1>3 DEF Only, Held, Fields, Shared, Links
<1>6. /\ d2.accounts = d.accounts /\ d2.groups = d.groups /\ d2.members = d.members /\ d2.keys = d.keys
      /\ d2.subs = d.subs /\ d2.plans = d.plans /\ d2.channels = d.channels
      /\ d2.balances = d.balances /\ d2.orders = d.orders
  BY <1>5 DEF Shared
<1>7. RowsTyped(d2) /\ Sound(d2) BY <1>1, <1>6 DEF RowsTyped, Sound
<1>8. LinksTyped(d2) /\ LinksTyped(e2) BY <1>1, <1>2, <1>3, <1>4 DEF LinksTyped, Table, L!Put
<1>9. Linked(e2) BY <1>1, <1>3, BackendsAssumption DEF Linked, L!Put
<1>10. \A f, g : IsKept(f, g, d.orders) => IsKept(L!Put(f, i, row), L!Put(g, i, row), d.orders)
  BY <1>4 DEF IsKept, L!Put
<1>11. IsKept(d2.events, e2.events, d2.orders) /\ IsKept(d2.logs, e2.logs, d2.orders)
  BY <1>1, <1>2, <1>3, <1>6, <1>10
<1>12. RowsInv(d2, e2) BY <1>1, <1>5, <1>7, <1>8, <1>9, <1>11 DEF RowsInv
<1>13. Only(d, d2, Shared \cup Links) /\ Only(e, e2, Shared \cup Links)
  BY <1>2, <1>3 DEF Only
<1> QED BY <1>12, <1>13 DEF Writes, d2, e2, row

-----------------------------------------------------------------------------
(* The caches.  Two sections agree at a time when they have the same rows  *)
(* that have not expired by then.                                          *)

Live(f, n) == {k \in DOMAIN f : f[k].expires > n}
Agree(f, g, n) == Live(f, n) = Live(g, n) /\ \A k \in Live(f, n) : f[k] = g[k]

CachesTyped(d) ==
    /\ Table(d.answers, Ids, CacheRows) /\ Table(d.results, Ids, CacheRows)
    /\ Table(d.partials, Ids, CacheRows) /\ Table(d.routes, Ids, CacheRows)

\* The history: rows of different times, at most MaxHistory of them.
History(f, n) ==
    /\ Table(f, Ids, [created : 1..n])
    /\ \A i, j \in DOMAIN f : f[i].created = f[j].created => i = j
    /\ IsFiniteSet(DOMAIN f) /\ Cardinality(DOMAIN f) <= MaxHistory

CachesInv(d, e, n) ==
    /\ CachesTyped(d) /\ CachesTyped(e)
    /\ Agree(d.answers, e.answers, n) /\ Agree(d.results, e.results, n)
    /\ Agree(d.partials, e.partials, n) /\ Agree(d.routes, e.routes, n)
    /\ d.requests = e.requests /\ History(d.requests, n)

LEMMA PrunedIsLive ==
  \A f, n : /\ n \in Nat /\ Table(f, Ids, CacheRows)
            => Part(f, L!Pruned(f, n), Live(f, n)) /\ Part(f, M!Unexpired(f, n), Live(f, n))
<1> SUFFICES ASSUME NEW f, NEW n \in Nat, Table(f, Ids, CacheRows)
             PROVE  Part(f, L!Pruned(f, n), Live(f, n)) /\ Part(f, M!Unexpired(f, n), Live(f, n))
  OBVIOUS
<1>1. \A k \in DOMAIN f : f[k].expires \in Nat BY DEF Table, CacheRows
<1>2. DOMAIN f \ L!Expired(f, n) = Live(f, n) BY <1>1 DEF L!Expired, L!Where, Live
<1>3. Part(f, L!Pruned(f, n), DOMAIN f \ L!Expired(f, n)) BY DropKeeps DEF L!Pruned
<1>4. Part(f, M!Unexpired(f, n), Live(f, n))
  BY DEF M!Unexpired, M!Restrict, M!Select, Live, Part
<1> QED BY <1>2, <1>3, <1>4

LEMMA AgreeParts ==
  \A f, g, h, n : Agree(f, g, n) /\ Part(f, h, Live(f, n)) => Agree(h, g, n) /\ Agree(g, h, n)
BY DEF Agree, Part, Live

LEMMA AgreeBoth ==
  \A f, g, n : Agree(f, g, n) => Agree(g, f, n)
BY DEF Agree

LEMMA AgreePut ==
  \A f, g, n, k, row : Agree(f, g, n) => Agree(L!Put(f, k, row), L!Put(g, k, row), n)
BY DEF Agree, L!Put, Live

LEMMA AgreePutAll ==
  \A f, g, n, rows : Agree(f, g, n) => Agree(L!PutAll(f, rows), M!ReplaceAll(g, rows), n)
BY DEF Agree, L!PutAll, M!ReplaceAll, Live

LEMMA AgreeDrop ==
  \A f, g, n, S : Agree(f, g, n) => Agree(L!Drop(f, S), L!Drop(g, S), n)
BY DEF Agree, L!Drop, L!Restrict, Live

\* The rows that are found are the same.
LEMMA AgreePruned ==
  ASSUME NEW f, NEW g, NEW n \in Nat, Agree(f, g, n),
         Table(f, Ids, CacheRows), Table(g, Ids, CacheRows)
  PROVE  L!Pruned(f, n) = M!Unexpired(g, n)
<1>1. Part(f, L!Pruned(f, n), Live(f, n)) /\ Part(g, M!Unexpired(g, n), Live(g, n))
  BY PrunedIsLive
<1>2. Live(f, n) \cap DOMAIN f = Live(f, n) /\ Live(g, n) \cap DOMAIN g = Live(f, n)
  BY DEF Agree, Live
<1>3. [i \in Live(f, n) |-> f[i]] = [i \in Live(f, n) |-> g[i]] BY DEF Agree
<1> QED BY <1>1, <1>2, <1>3 DEF Part

LEMMA AgreeLater ==
  ASSUME NEW f, NEW g, NEW n \in Nat, NEW m \in Nat, n <= m, Agree(f, g, n),
         Table(f, Ids, CacheRows), Table(g, Ids, CacheRows)
  PROVE  Agree(f, g, m)
<1>1. /\ \A k \in DOMAIN f : f[k].expires \in Nat
      /\ \A k \in DOMAIN g : g[k].expires \in Nat
  BY DEF Table, CacheRows
<1> QED BY <1>1 DEF Agree, Live

-----------------------------------------------------------------------------
(* The history keeps the same rows by a choice of the newest and by a      *)
(* count of the newer ones.                                                *)

LEMMA NatMin ==
  ASSUME NEW T, T \subseteq Nat, T # {}
  PROVE  \E x \in T : \A y \in T : x <= y
<1> DEFINE R == OpToRel(<, Nat)
<1>1. IsWellFoundedOn(R, Nat) BY NatLessThanWellFounded
<1>2. \A x, y \in Nat : y < x => <<y, x>> \in R BY DEF OpToRel
<1> HIDE DEF R
<1>3. PICK x \in T : \A y \in T : ~(<<y, x>> \in R) BY <1>1, WFMin
<1>4. ASSUME NEW y \in T PROVE x <= y
  <2>1. x \in Nat /\ y \in Nat /\ <<y, x>> \notin R BY <1>3
  <2>2. ~(y < x) BY <1>2, <2>1
  <2> QED BY <2>1, <2>2
<1> QED BY <1>4

LEMMA SameCardinality == \A S : L!Cardinality(S) = Cardinality(S) /\ M!Cardinality(S) = Cardinality(S)
BY Zenon DEF L!Cardinality, M!Cardinality, Cardinality

NewestRows(f, max) ==
    CHOOSE s \in SUBSET DOMAIN f :
       /\ L!Cardinality(s) = IF L!Cardinality(DOMAIN f) < max THEN L!Cardinality(DOMAIN f) ELSE max
       /\ \A i \in s, j \in DOMAIN f \ s : f[i].created >= f[j].created
CountedRows(f, max) ==
    {i \in DOMAIN f : M!Cardinality({j \in DOMAIN f : f[j].created > f[i].created}) < max}

\* Of rows one more than max, all but the oldest.
LEMMA Newest ==
  ASSUME NEW f, NEW n \in Nat, NEW max \in Nat, f \in [DOMAIN f -> [created : 1..n]],
         \A i, j \in DOMAIN f : f[i].created = f[j].created => i = j,
         IsFiniteSet(DOMAIN f), Cardinality(DOMAIN f) <= max + 1
  PROVE  LET keep == NewestRows(f, max)
         IN  /\ keep = CountedRows(f, max)
             /\ keep \subseteq DOMAIN f /\ IsFiniteSet(keep) /\ Cardinality(keep) <= max
<1> DEFINE D == DOMAIN f
           size == IF Cardinality(D) < max THEN Cardinality(D) ELSE max
           Top(s) == /\ Cardinality(s) = size
                     /\ \A i \in s, j \in D \ s : f[i].created >= f[j].created
           Chosen(s) == /\ L!Cardinality(s) = IF L!Cardinality(D) < max THEN L!Cardinality(D) ELSE max
                        /\ \A i \in s, j \in D \ s : f[i].created >= f[j].created
           keep == CHOOSE s \in SUBSET D : Chosen(s)
           Newer(i) == {j \in D : f[j].created > f[i].created}
           counted == {i \in D : Cardinality(Newer(i)) < max}
<1>1. /\ \A i \in D : f[i].created \in Nat
      /\ \A i, j \in D : f[i].created = f[j].created => i = j
      /\ IsFiniteSet(D) /\ Cardinality(D) \in Nat /\ Cardinality(D) <= max + 1
  BY FS_CardinalityType
<1>2. ASSUME NEW s \in SUBSET D, IsFiniteSet(s), Top(s), \A t \in SUBSET D : Top(t) => t = s
      PROVE  keep = s
  <2>1. \A t : Chosen(t) <=> Top(t) BY SameCardinality
  <2> HIDE DEF Chosen, Top
  <2> QED BY <1>2, <2>1
<1>3. \A i \in D : IsFiniteSet(Newer(i)) BY <1>1, FS_Subset
<1>6. \A i \in D : IsFiniteSet(D \ {i}) /\ Cardinality(D \ {i}) = Cardinality(D) - 1
  BY <1>1, FS_RemoveElement
<1>4. ASSUME Cardinality(D) <= max
      PROVE  keep = counted /\ keep \subseteq D /\ IsFiniteSet(keep) /\ Cardinality(keep) <= max
  <2>1. size = Cardinality(D) BY <1>1, <1>4
  <2>2. \A t \in SUBSET D : Cardinality(t) = Cardinality(D) => t = D BY <1>1, FS_Subset
  <2>3. keep = D BY <1>1, <1>2, <2>1, <2>2
  <2>4. ASSUME NEW i \in D PROVE Cardinality(Newer(i)) < max
    <3>1. Newer(i) \subseteq D \ {i} BY <1>1
    <3>2. IsFiniteSet(D \ {i}) /\ Cardinality(D \ {i}) = Cardinality(D) - 1 BY <1>6
    <3>3. Cardinality(Newer(i)) <= Cardinality(D) - 1 BY <3>1, <3>2, FS_Subset
    <3>4. Cardinality(Newer(i)) \in Nat BY <1>3, FS_CardinalityType
    <3> HIDE DEF D, Newer
    <3> QED BY <1>1, <1>4, <3>3, <3>4
  <2>5. counted = D BY <2>4
  <2> HIDE DEF keep, counted
  <2> QED BY <1>1, <1>4, <2>3, <2>5
<1>5. ASSUME Cardinality(D) > max
      PROVE  keep = counted /\ keep \subseteq D /\ IsFiniteSet(keep) /\ Cardinality(keep) <= max
  <2>1. Cardinality(D) = max + 1 /\ size = max BY <1>1, <1>5
  <2>2. D # {} BY <1>5, FS_EmptySet
  <2>3. PICK m \in D : \A i \in D : f[m].created <= f[i].created
    <3>1. {f[i].created : i \in D} \subseteq Nat /\ {f[i].created : i \in D} # {} BY <1>1, <2>2
    <3>2. PICK x \in {f[i].created : i \in D} : \A y \in {f[i].created : i \in D} : x <= y
      BY <3>1, NatMin
    <3> QED BY <3>2
  <2>4. Cardinality(D \ {m}) = max /\ IsFiniteSet(D \ {m})
    <3>1. IsFiniteSet(D \ {m}) /\ Cardinality(D \ {m}) = Cardinality(D) - 1 BY <1>6
    <3> HIDE DEF D
    <3> QED BY <2>1, <3>1
  <2>5. Top(D \ {m}) BY <1>1, <2>1, <2>3, <2>4
  <2>6. ASSUME NEW t \in SUBSET D, Top(t) PROVE t = D \ {m}
    <3>1. IsFiniteSet(t) /\ Cardinality(t) = max BY <1>1, <2>1, <2>6, FS_Subset
    <3>2. t # D BY <2>1, <3>1
    <3>3. PICK x \in D : x \notin t BY <3>2
    <3>4. t \subseteq D \ {x} /\ IsFiniteSet(D \ {x}) /\ Cardinality(D \ {x}) = max
      <4>1. IsFiniteSet(D \ {x}) /\ Cardinality(D \ {x}) = Cardinality(D) - 1 BY <1>6
      <4>2. t \subseteq D \ {x} BY <3>3
      <4> HIDE DEF D
      <4> QED BY <2>1, <4>1, <4>2
    <3>5. t = D \ {x} BY <3>1, <3>4, FS_Subset
    <3>6. \A i \in t : f[i].created >= f[x].created BY <2>6, <3>3
    <3>7. m = x
      <4>1. CASE m \in t
        <5>1. f[m].created >= f[x].created /\ f[m].created <= f[x].created BY <2>3, <3>6, <4>1
        <5> QED BY <1>1, <5>1
      <4>2. CASE m \notin t BY <3>5, <4>2
      <4> QED BY <4>1, <4>2
    <3> QED BY <3>5, <3>7
  <2>7. keep = D \ {m} BY <1>2, <2>4, <2>5, <2>6
  <2>8. Newer(m) = D \ {m} BY <1>1, <2>3
  <2>9. ASSUME NEW i \in D \ {m} PROVE Cardinality(Newer(i)) < max
    <3>1. Newer(i) \subseteq (D \ {m}) \ {i} BY <1>1, <2>3
    <3>2. IsFiniteSet((D \ {m}) \ {i}) /\ Cardinality((D \ {m}) \ {i}) = max - 1
      BY <2>4, FS_RemoveElement
    <3>3. Cardinality(Newer(i)) <= max - 1 BY <3>1, <3>2, FS_Subset
    <3>4. Cardinality(Newer(i)) \in Nat BY <1>3, FS_CardinalityType
    <3> QED BY <3>3, <3>4
  <2>10. counted = D \ {m} BY <2>4, <2>8, <2>9
  <2> HIDE DEF keep, counted
  <2> QED BY <2>4, <2>7, <2>10
<1>7. keep = counted /\ keep \subseteq D /\ IsFiniteSet(keep) /\ Cardinality(keep) <= max
  <2>1. Cardinality(D) <= max \/ Cardinality(D) > max BY <1>1
  <2> QED BY <1>4, <1>5, <2>1
<1>8. keep = NewestRows(f, max) BY Zenon DEF NewestRows
<1>9. counted = CountedRows(f, max) BY SameCardinality DEF CountedRows
<1> HIDE DEF keep, counted
<1> QED BY <1>7, <1>8, <1>9

-----------------------------------------------------------------------------
(* Each call of Caches, on two storages of which this holds.               *)

Cacheable(d, e, n) == DOMAIN d = Fields /\ DOMAIN e = Fields /\ n \in Nat /\ CachesInv(d, e, n)
Cache(d, e, d2, e2, n) == Only(d, d2, Cached) /\ Only(e, e2, Cached) /\ CachesInv(d2, e2, n)

LEMMA AnswersWritten ==
  ASSUME NEW d, NEW e, NEW n, Cacheable(d, e, n), NEW d2, NEW e2,
         Only(d, d2, {"answers"}), Only(e, e2, {"answers"}),
         Table(d2.answers, Ids, CacheRows), Table(e2.answers, Ids, CacheRows),
         Agree(d2.answers, e2.answers, n)
  PROVE  Cache(d, e, d2, e2, n)
<1>1. /\ d2.results = d.results /\ d2.partials = d.partials /\ d2.routes = d.routes /\ d2.requests = d.requests
      /\ e2.results = e.results /\ e2.partials = e.partials /\ e2.routes = e.routes /\ e2.requests = e.requests
  BY DEF Only, Cacheable, Fields, Cached
<1>2. CachesInv(d2, e2, n) BY <1>1 DEF CachesInv, CachesTyped, Cacheable
<1> QED BY <1>2 DEF Cache, Only, Cached

LEMMA ResultsWritten ==
  ASSUME NEW d, NEW e, NEW n, Cacheable(d, e, n), NEW d2, NEW e2,
         Only(d, d2, {"results"}), Only(e, e2, {"results"}),
         Table(d2.results, Ids, CacheRows), Table(e2.results, Ids, CacheRows),
         Agree(d2.results, e2.results, n)
  PROVE  Cache(d, e, d2, e2, n)
<1>1. /\ d2.answers = d.answers /\ d2.partials = d.partials /\ d2.routes = d.routes /\ d2.requests = d.requests
      /\ e2.answers = e.answers /\ e2.partials = e.partials /\ e2.routes = e.routes /\ e2.requests = e.requests
  BY DEF Only, Cacheable, Fields, Cached
<1>2. CachesInv(d2, e2, n) BY <1>1 DEF CachesInv, CachesTyped, Cacheable
<1> QED BY <1>2 DEF Cache, Only, Cached

LEMMA PartialsWritten ==
  ASSUME NEW d, NEW e, NEW n, Cacheable(d, e, n), NEW d2, NEW e2,
         Only(d, d2, {"partials"}), Only(e, e2, {"partials"}),
         Table(d2.partials, Ids, CacheRows), Table(e2.partials, Ids, CacheRows),
         Agree(d2.partials, e2.partials, n)
  PROVE  Cache(d, e, d2, e2, n)
<1>1. /\ d2.answers = d.answers /\ d2.results = d.results /\ d2.routes = d.routes /\ d2.requests = d.requests
      /\ e2.answers = e.answers /\ e2.results = e.results /\ e2.routes = e.routes /\ e2.requests = e.requests
  BY DEF Only, Cacheable, Fields, Cached
<1>2. CachesInv(d2, e2, n) BY <1>1 DEF CachesInv, CachesTyped, Cacheable
<1> QED BY <1>2 DEF Cache, Only, Cached

LEMMA RoutesWritten ==
  ASSUME NEW d, NEW e, NEW n, Cacheable(d, e, n), NEW d2, NEW e2,
         Only(d, d2, {"routes"}), Only(e, e2, {"routes"}),
         Table(d2.routes, Ids, CacheRows), Table(e2.routes, Ids, CacheRows),
         Agree(d2.routes, e2.routes, n)
  PROVE  Cache(d, e, d2, e2, n)
<1>1. /\ d2.answers = d.answers /\ d2.results = d.results /\ d2.partials = d.partials /\ d2.requests = d.requests
      /\ e2.answers = e.answers /\ e2.results = e.results /\ e2.partials = e.partials /\ e2.requests = e.requests
  BY DEF Only, Cacheable, Fields, Cached
<1>2. CachesInv(d2, e2, n) BY <1>1 DEF CachesInv, CachesTyped, Cacheable
<1> QED BY <1>2 DEF Cache, Only, Cached

LEMMA NoRows == Table(<<>>, Ids, CacheRows) /\ \A n : Agree(<<>>, <<>>, n)
BY DEF Table, Agree, Live

LEMMA AnswerCalls ==
  ASSUME NEW d, NEW e, NEW n, Cacheable(d, e, n), NEW k \in Ids
  PROVE  /\ Cache(d, e, L!LoadAnswer(d, k, n), M!LoadAnswer(e, k, n), n)
         /\ \A row \in CacheRows : Cache(d, e, L!SaveAnswer(d, k, row), M!SaveAnswer(e, k, row), n)
         /\ Cache(d, e, L!ClearAnswers(d), M!ClearAnswers(e), n)
<1> DEFINE f == d.answers
           g == e.answers
<1>1. /\ "answers" \in DOMAIN d /\ "answers" \in DOMAIN e /\ n \in Nat
      /\ Table(f, Ids, CacheRows) /\ Table(g, Ids, CacheRows) /\ Agree(f, g, n)
  BY DEF Cacheable, CachesInv, CachesTyped, Fields, Cached
<1>2. Cache(d, e, L!LoadAnswer(d, k, n), M!LoadAnswer(e, k, n), n)
  <2> DEFINE d2 == L!LoadAnswer(d, k, n)
             e2 == M!LoadAnswer(e, k, n)
  <2>1. Only(d, d2, {"answers"}) /\ d2.answers = L!Pruned(f, n) BY <1>1 DEF Only, L!LoadAnswer
  <2>2. e2 = e BY DEF M!LoadAnswer
  <2> HIDE DEF d2, e2
  <2>3. Only(e, e2, {"answers"}) /\ e2.answers = g BY <2>2 DEF Only
  <2>4. Part(f, d2.answers, Live(f, n)) BY <1>1, <2>1, PrunedIsLive
  <2>5. Table(d2.answers, Ids, CacheRows) BY <1>1, <2>4, PartTyped
  <2>6. Agree(d2.answers, g, n) BY <1>1, <2>4, AgreeParts
  <2> QED BY <1>1, <2>1, <2>3, <2>5, <2>6, AnswersWritten DEF d2, e2
<1>3. ASSUME NEW row \in CacheRows
      PROVE  Cache(d, e, L!SaveAnswer(d, k, row), M!SaveAnswer(e, k, row), n)
  <2> DEFINE d2 == L!SaveAnswer(d, k, row)
             e2 == M!SaveAnswer(e, k, row)
  <2>1. Only(d, d2, {"answers"}) /\ d2.answers = L!Put(f, k, row) BY <1>1 DEF Only, L!SaveAnswer
  <2>2. Only(e, e2, {"answers"}) /\ e2.answers = L!Put(g, k, row)
    BY <1>1, SameTables DEF Only, M!SaveAnswer
  <2> HIDE DEF d2, e2
  <2>3. Table(d2.answers, Ids, CacheRows) /\ Table(e2.answers, Ids, CacheRows)
    BY <1>1, <2>1, <2>2 DEF Table, L!Put
  <2>4. Agree(d2.answers, e2.answers, n) BY <1>1, <2>1, <2>2, AgreePut
  <2> QED BY <2>1, <2>2, <2>3, <2>4, AnswersWritten DEF d2, e2
<1>4. Cache(d, e, L!ClearAnswers(d), M!ClearAnswers(e), n)
  <2> DEFINE d2 == L!ClearAnswers(d)
             e2 == M!ClearAnswers(e)
  <2>1. Only(d, d2, {"answers"}) /\ d2.answers = <<>> BY <1>1 DEF Only, L!ClearAnswers
  <2>2. Only(e, e2, {"answers"}) /\ e2.answers = <<>> BY <1>1 DEF Only, M!ClearAnswers
  <2> HIDE DEF d2, e2
  <2> QED BY <2>1, <2>2, NoRows, AnswersWritten DEF d2, e2
<1> QED BY <1>2, <1>3, <1>4

LEMMA ResultCalls ==
  ASSUME NEW d, NEW e, NEW n, Cacheable(d, e, n)
  PROVE  /\ Cache(d, e, L!LoadResults(d, n), M!LoadResults(e, n), n)
         /\ \A rows : Table(rows, Ids, CacheRows)
                      => Cache(d, e, L!SaveResults(d, rows, n), M!SaveResults(e, rows, n), n)
         /\ Cache(d, e, L!ClearResults(d), M!ClearResults(e), n)
<1> DEFINE f == d.results
           g == e.results
<1>1. /\ "results" \in DOMAIN d /\ "results" \in DOMAIN e /\ n \in Nat
      /\ Table(f, Ids, CacheRows) /\ Table(g, Ids, CacheRows) /\ Agree(f, g, n)
  BY DEF Cacheable, CachesInv, CachesTyped, Fields, Cached
<1>2. /\ Part(f, L!Pruned(f, n), Live(f, n)) /\ Part(g, M!Unexpired(g, n), Live(g, n))
      /\ Table(L!Pruned(f, n), Ids, CacheRows) /\ Table(M!Unexpired(g, n), Ids, CacheRows)
  BY <1>1, PrunedIsLive, PartTyped
<1>3. Agree(f, M!Unexpired(g, n), n) /\ Agree(L!Pruned(f, n), M!Unexpired(g, n), n)
  <2>1. Agree(g, f, n) BY <1>1, AgreeBoth
  <2>2. Agree(f, M!Unexpired(g, n), n) BY <1>2, <2>1, AgreeParts
  <2>3. Agree(L!Pruned(f, n), M!Unexpired(g, n), n) BY <1>2, <2>2, AgreeParts
  <2> QED BY <2>2, <2>3
<1>4. Cache(d, e, L!LoadResults(d, n), M!LoadResults(e, n), n)
  <2> DEFINE d2 == L!LoadResults(d, n)
             e2 == M!LoadResults(e, n)
  <2>1. Only(d, d2, {"results"}) /\ d2.results = L!Pruned(f, n) BY <1>1 DEF Only, L!LoadResults
  <2>2. Only(e, e2, {"results"}) /\ e2.results = M!Unexpired(g, n) BY <1>1 DEF Only, M!LoadResults
  <2> HIDE DEF d2, e2
  <2> QED BY <1>2, <1>3, <2>1, <2>2, ResultsWritten DEF d2, e2
<1>5. ASSUME NEW rows, Table(rows, Ids, CacheRows)
      PROVE  Cache(d, e, L!SaveResults(d, rows, n), M!SaveResults(e, rows, n), n)
  <2> DEFINE d2 == L!SaveResults(d, rows, n)
             e2 == M!SaveResults(e, rows, n)
             h  == M!Unexpired(g, n)
  <2>1. Only(d, d2, {"results"}) /\ d2.results = L!PutAll(f, rows) BY <1>1 DEF Only, L!SaveResults
  <2>2. Only(e, e2, {"results"}) /\ e2.results = M!ReplaceAll(h, rows) BY <1>1 DEF Only, M!SaveResults
  <2> HIDE DEF d2, e2
  <2>3. Table(d2.results, Ids, CacheRows) BY <1>1, <1>5, <2>1 DEF Table, L!PutAll
  <2>4. Table(h, Ids, CacheRows) BY <1>2
  <2> HIDE DEF h
  <2>5. Table(e2.results, Ids, CacheRows) BY <1>5, <2>2, <2>4 DEF Table, M!ReplaceAll
  <2>6. Agree(d2.results, e2.results, n) BY <1>3, <2>1, <2>2, AgreePutAll DEF h
  <2> QED BY <2>1, <2>2, <2>3, <2>5, <2>6, ResultsWritten DEF d2, e2
<1>6. Cache(d, e, L!ClearResults(d), M!ClearResults(e), n)
  <2> DEFINE d2 == L!ClearResults(d)
             e2 == M!ClearResults(e)
  <2>1. Only(d, d2, {"results"}) /\ d2.results = <<>> BY <1>1 DEF Only, L!ClearResults
  <2>2. Only(e, e2, {"results"}) /\ e2.results = <<>> BY <1>1 DEF Only, M!ClearResults
  <2> HIDE DEF d2, e2
  <2> QED BY <2>1, <2>2, NoRows, ResultsWritten DEF d2, e2
<1> QED BY <1>4, <1>5, <1>6

LEMMA PartialCalls ==
  ASSUME NEW d, NEW e, NEW n, Cacheable(d, e, n), NEW k \in Ids
  PROVE  /\ Cache(d, e, L!LoadPartial(d, n), M!LoadPartial(e, n), n)
         /\ \A row \in CacheRows : Cache(d, e, L!SavePartial(d, k, row, n), M!SavePartial(e, k, row, n), n)
         /\ Cache(d, e, L!DeletePartial(d, k), M!DeletePartial(e, k), n)
<1> DEFINE f == d.partials
           g == e.partials
           h == M!Unexpired(g, n)
<1>1. /\ "partials" \in DOMAIN d /\ "partials" \in DOMAIN e /\ n \in Nat
      /\ Table(f, Ids, CacheRows) /\ Table(g, Ids, CacheRows) /\ Agree(f, g, n)
  BY DEF Cacheable, CachesInv, CachesTyped, Fields, Cached
<1>2. /\ Part(f, L!Pruned(f, n), Live(f, n)) /\ Part(g, h, Live(g, n))
      /\ Table(L!Pruned(f, n), Ids, CacheRows) /\ Table(h, Ids, CacheRows)
  BY <1>1, PrunedIsLive, PartTyped
<1>3. Agree(f, h, n) /\ Agree(L!Pruned(f, n), h, n)
  <2>1. Agree(g, f, n) BY <1>1, AgreeBoth
  <2>2. Agree(f, h, n) BY <1>2, <2>1, AgreeParts
  <2>3. Agree(L!Pruned(f, n), h, n) BY <1>2, <2>2, AgreeParts
  <2> QED BY <2>2, <2>3
<1>4. Cache(d, e, L!LoadPartial(d, n), M!LoadPartial(e, n), n)
  <2> DEFINE d2 == L!LoadPartial(d, n)
             e2 == M!LoadPartial(e, n)
  <2>1. Only(d, d2, {"partials"}) /\ d2.partials = L!Pruned(f, n) BY <1>1 DEF Only, L!LoadPartial
  <2>2. Only(e, e2, {"partials"}) /\ e2.partials = h BY <1>1 DEF Only, M!LoadPartial
  <2> HIDE DEF d2, e2
  <2> QED BY <1>2, <1>3, <2>1, <2>2, PartialsWritten DEF d2, e2
<1>5. ASSUME NEW row \in CacheRows
      PROVE  Cache(d, e, L!SavePartial(d, k, row, n), M!SavePartial(e, k, row, n), n)
  <2> DEFINE d2 == L!SavePartial(d, k, row, n)
             e2 == M!SavePartial(e, k, row, n)
  <2>1. Only(d, d2, {"partials"}) /\ d2.partials = L!Put(f, k, row) BY <1>1 DEF Only, L!SavePartial
  <2>2. Only(e, e2, {"partials"}) /\ e2.partials = L!Put(h, k, row)
    BY <1>1, SameTables DEF Only, M!SavePartial
  <2> HIDE DEF d2, e2, h
  <2>3. Table(d2.partials, Ids, CacheRows) BY <1>1, <2>1 DEF Table, L!Put
  <2>4. Table(e2.partials, Ids, CacheRows) BY <1>2, <2>2 DEF Table, L!Put
  <2>5. Agree(d2.partials, e2.partials, n) BY <1>3, <2>1, <2>2, AgreePut
  <2> QED BY <2>1, <2>2, <2>3, <2>4, <2>5, PartialsWritten DEF d2, e2
<1>6. Cache(d, e, L!DeletePartial(d, k), M!DeletePartial(e, k), n)
  <2> DEFINE d2 == L!DeletePartial(d, k)
             e2 == M!DeletePartial(e, k)
  <2>1. Only(d, d2, {"partials"}) /\ d2.partials = L!Drop(f, {k}) BY <1>1 DEF Only, L!DeletePartial
  <2>2. Only(e, e2, {"partials"}) /\ e2.partials = L!Drop(g, {k})
    BY <1>1, SameTables DEF Only, M!DeletePartial
  <2> HIDE DEF d2, e2
  <2>3. Part(f, d2.partials, DOMAIN f \ {k}) /\ Part(g, e2.partials, DOMAIN g \ {k})
    BY <2>1, <2>2, DropKeeps
  <2>4. Table(d2.partials, Ids, CacheRows) /\ Table(e2.partials, Ids, CacheRows)
    BY <1>1, <2>3, PartTyped
  <2>5. Agree(d2.partials, e2.partials, n) BY <1>1, <2>1, <2>2, AgreeDrop
  <2> QED BY <2>1, <2>2, <2>4, <2>5, PartialsWritten DEF d2, e2
<1> QED BY <1>4, <1>5, <1>6

\* What has expired is not written by the one and not read by the other.
LEMMA RouteCall ==
  ASSUME NEW d, NEW e, NEW n, Cacheable(d, e, n), NEW rows, Table(rows, Ids, CacheRows)
  PROVE  Cache(d, e, L!SaveRoutes(d, rows, n), M!SaveRoutes(e, rows, n), n)
<1> DEFINE d2 == L!SaveRoutes(d, rows, n)
           e2 == M!SaveRoutes(e, rows, n)
<1>1. "routes" \in DOMAIN d /\ "routes" \in DOMAIN e /\ n \in Nat
  BY DEF Cacheable, Fields, Cached
<1>2. Only(d, d2, {"routes"}) /\ d2.routes = L!Pruned(rows, n) BY <1>1 DEF Only, L!SaveRoutes
<1>3. Only(e, e2, {"routes"}) /\ e2.routes = rows BY <1>1 DEF Only, M!SaveRoutes
<1> HIDE DEF d2, e2
<1>4. Table(rows, Ids, CacheRows) /\ Agree(rows, rows, n) BY DEF Agree
<1>5. Part(rows, d2.routes, Live(rows, n)) BY <1>1, <1>2, <1>4, PrunedIsLive
<1>6. Table(d2.routes, Ids, CacheRows) BY <1>4, <1>5, PartTyped
<1>7. Agree(d2.routes, rows, n) BY <1>4, <1>5, AgreeParts
<1> QED BY <1>2, <1>3, <1>4, <1>6, <1>7, RoutesWritten DEF d2, e2

LEMMA RequestCalls ==
  ASSUME NEW d, NEW e, NEW n, Cacheable(d, e, n), n >= 1, NEW id \in Ids
  PROVE  /\ (\A i \in DOMAIN d.requests : d.requests[i].created # n)
            => Cache(d, e, L!SaveRequest(d, id, n, MaxHistory), M!SaveRequest(e, id, n, MaxHistory), n)
         /\ Cache(d, e, L!ClearRequests(d), M!ClearRequests(e), n)
<1> DEFINE f   == d.requests
           all == L!Put(f, id, [created |-> n])
<1>1. /\ "requests" \in DOMAIN d /\ "requests" \in DOMAIN e /\ n \in Nat
      /\ e.requests = f /\ History(f, n)
  BY DEF Cacheable, CachesInv, Fields, Cached
<1>2. ASSUME NEW d2, NEW e2, Only(d, d2, {"requests"}), Only(e, e2, {"requests"}),
             d2.requests = e2.requests, History(d2.requests, n)
      PROVE  Cache(d, e, d2, e2, n)
  <2>1. /\ d2.answers = d.answers /\ d2.results = d.results /\ d2.partials = d.partials
        /\ d2.routes = d.routes /\ e2.answers = e.answers /\ e2.results = e.results
        /\ e2.partials = e.partials /\ e2.routes = e.routes
    BY <1>2 DEF Only, Cacheable, Fields, Cached
  <2>2. CachesInv(d2, e2, n) BY <1>2, <2>1 DEF CachesInv, CachesTyped, Cacheable
  <2> QED BY <1>2, <2>2 DEF Cache, Only, Cached
<1>3. ASSUME \A i \in DOMAIN f : f[i].created # n
      PROVE  Cache(d, e, L!SaveRequest(d, id, n, MaxHistory), M!SaveRequest(e, id, n, MaxHistory), n)
  <2>1. /\ DOMAIN all = DOMAIN f \cup {id}
        /\ \A i \in DOMAIN all : all[i] = IF i = id THEN [created |-> n] ELSE f[i]
    BY DEF L!Put
  <2>2. /\ all \in [DOMAIN all -> [created : 1..n]] /\ DOMAIN all \subseteq Ids
        /\ \A i, j \in DOMAIN all : all[i].created = all[j].created => i = j
    <3>1. \A i \in DOMAIN f : f[i] \in [created : 1..n] BY <1>1 DEF History, Table
    <3>2. [created |-> n] \in [created : 1..n] BY <1>1
    <3>3. all = [i \in DOMAIN all |-> all[i]] BY DEF L!Put
    <3>4. DOMAIN f \subseteq Ids BY <1>1 DEF History, Table
    <3>5. \A i, j \in DOMAIN f : f[i].created = f[j].created => i = j BY <1>1 DEF History
    <3> HIDE DEF all
    <3>6. \A i \in DOMAIN all : all[i] \in [created : 1..n] BY <2>1, <3>1, <3>2
    <3>7. \A i, j \in DOMAIN all : all[i].created = all[j].created => i = j
      BY <1>3, <2>1, <3>5
    <3> QED BY <2>1, <3>3, <3>4, <3>6, <3>7
  <2>3. IsFiniteSet(DOMAIN all) /\ Cardinality(DOMAIN all) <= MaxHistory + 1
    <3>1. IsFiniteSet(DOMAIN f) /\ Cardinality(DOMAIN f) <= MaxHistory /\ MaxHistory \in Nat
      BY <1>1, BackendsAssumption DEF History
    <3>2. Cardinality(DOMAIN f) \in Nat BY <3>1, FS_CardinalityType
    <3>3. /\ IsFiniteSet(DOMAIN f \cup {id})
          /\ Cardinality(DOMAIN f \cup {id}) = Cardinality(DOMAIN f)
             \/ Cardinality(DOMAIN f \cup {id}) = Cardinality(DOMAIN f) + 1
      BY <3>1, FS_AddElement
    <3> HIDE DEF all, f
    <3> QED BY <2>1, <3>1, <3>2, <3>3
  <2> DEFINE keep == NewestRows(all, MaxHistory)
             counted == CountedRows(all, MaxHistory)
  <2>4. keep = counted /\ keep \subseteq DOMAIN all /\ IsFiniteSet(keep) /\ Cardinality(keep) <= MaxHistory
    <3> HIDE DEF all
    <3> QED BY <1>1, <2>2, <2>3, Newest, BackendsAssumption
  <2> DEFINE d2 == L!SaveRequest(d, id, n, MaxHistory)
             e2 == M!SaveRequest(e, id, n, MaxHistory)
  <2>5. Only(d, d2, {"requests"}) /\ d2.requests = [i \in keep |-> all[i]]
    <3>1. d2 = [d EXCEPT !.requests = [i \in keep |-> all[i]]]
      <4>1. d2 = [d EXCEPT !.requests = L!Restrict(all, keep)] BY Zenon DEF L!SaveRequest, NewestRows
      <4> QED BY <4>1 DEF L!Restrict
    <3> HIDE DEF d2, keep, all
    <3> QED BY <1>1, <3>1 DEF Only
  <2>6. Only(e, e2, {"requests"}) /\ e2.requests = [i \in counted |-> all[i]]
    <3>1. e2 = [e EXCEPT !.requests = [i \in counted |-> all[i]]]
      <4>1. M!Replace(f, id, [created |-> n]) = all BY SameTables
      <4>2. e2 = [e EXCEPT !.requests = M!Restrict(all, counted)]
        BY <1>1, <4>1, Zenon DEF M!SaveRequest, CountedRows
      <4> QED BY <4>2 DEF M!Restrict
    <3> HIDE DEF e2, counted, all
    <3> QED BY <1>1, <3>1 DEF Only
  <2> HIDE DEF d2, e2, keep, counted, all
  <2>7. DOMAIN d2.requests = keep /\ \A i \in keep : d2.requests[i] = all[i] BY <2>5
  <2>8. Table(d2.requests, Ids, [created : 1..n]) BY <2>2, <2>4, <2>5 DEF Table
  <2>9. History(d2.requests, n) BY <2>2, <2>4, <2>7, <2>8 DEF History
  <2> QED BY <1>2, <2>4, <2>5, <2>6, <2>9 DEF d2, e2
<1>4. Cache(d, e, L!ClearRequests(d), M!ClearRequests(e), n)
  <2> DEFINE d2 == L!ClearRequests(d)
             e2 == M!ClearRequests(e)
  <2>1. Only(d, d2, {"requests"}) /\ d2.requests = <<>> BY <1>1 DEF Only, L!ClearRequests
  <2>2. Only(e, e2, {"requests"}) /\ e2.requests = <<>> BY <1>1 DEF Only, M!ClearRequests
  <2> HIDE DEF d2, e2
  <2>3. History(<<>>, n) BY FS_EmptySet, BackendsAssumption DEF History, Table
  <2> QED BY <1>2, <2>1, <2>2, <2>3 DEF d2, e2
<1> QED BY <1>3, <1>4

-----------------------------------------------------------------------------
StorageInv ==
    /\ DOMAIN loc = Fields /\ DOMAIN my = Fields
    /\ RowsInv(loc, my) /\ CachesInv(loc, my, now)
    /\ now \in 1..MaxTime /\ topic \in {"accounts", "caches"} /\ calls \in 0..MaxCalls

LEMMA EmptyHolds == Held(Empty, Empty) /\ Cacheable(Empty, Empty, 1)
<1>1. RowsTyped(Empty) /\ LinksTyped(Empty) BY DEF Empty, RowsTyped, LinksTyped, Table
<1>2. Sound(Empty) /\ Linked(Empty) BY DEF Empty, Sound, Linked, Named, Grouped
<1>3. \A g : IsKept(<<>>, <<>>, g) BY DEF IsKept
<1>4. IsKept(Empty.events, Empty.events, Empty.orders) /\ IsKept(Empty.logs, Empty.logs, Empty.orders)
  BY <1>3 DEF Empty
<1>5. RowsInv(Empty, Empty) BY <1>1, <1>2, <1>4 DEF RowsInv
<1>6. History(<<>>, 1) BY FS_EmptySet, BackendsAssumption DEF History, Table
<1>7. CachesInv(Empty, Empty, 1) BY <1>6, NoRows DEF CachesInv, CachesTyped, Empty
<1> QED BY <1>5, <1>7, EmptyFields DEF Held, Cacheable

\* The section of one row that Customer makes.
OneRow(f, id, row) == DOMAIN f = {id} /\ f[id] = row /\ f = [i \in {id} |-> row]

LEMMA PutOne == \A id, row : OneRow(L!Put(<<>>, id, row), id, row)
BY DEF L!Put, OneRow

LEMMA CustomerHolds ==
  ASSUME NEW a \in Accounts, NEW x \in Externals, NEW g \in Groups
  PROVE  LET d == Customer(a, x, g) IN Held(d, d) /\ Cacheable(d, d, 1)
<1> DEFINE d == Customer(a, x, g)
           row == [external |-> x, enabled |-> TRUE, allowed |-> {g}, balance |-> 0]
<1>1. /\ DOMAIN d = Fields
      /\ d.accounts = L!Put(<<>>, a, row) /\ d.groups = {g} /\ d.members = {<<a, g>>}
      /\ d.plans = L!Put(<<>>, "plan", [group |-> g])
      /\ d.channels = L!Put(<<>>, "channel", [allowed |-> {g}])
      /\ d.orders = L!Put(<<>>, "order", [account |-> a, status |-> "paid"])
      /\ d.events = L!Put(<<>>, "event", [order |-> "order"])
      /\ d.logs = L!Put(<<>>, "log", [order |-> "order"])
      /\ d.keys = <<>> /\ d.subs = <<>> /\ d.balances = <<>>
      /\ d.answers = <<>> /\ d.results = <<>> /\ d.partials = <<>> /\ d.requests = <<>> /\ d.routes = <<>>
  BY EmptyFields DEF Customer, Empty, Fields, Shared, Links, Cached
<1>2. row \in AccountRows /\ row.allowed = {g} BY DEF AccountRows
<1> HIDE DEF d, row
<1>3. /\ OneRow(d.accounts, a, row) /\ OneRow(d.plans, "plan", [group |-> g])
      /\ OneRow(d.channels, "channel", [allowed |-> {g}])
      /\ OneRow(d.orders, "order", [account |-> a, status |-> "paid"])
      /\ OneRow(d.events, "event", [order |-> "order"]) /\ OneRow(d.logs, "log", [order |-> "order"])
  BY <1>1, PutOne
<1>4. RowsTyped(d)
  <2>1. Table(d.accounts, Accounts, AccountRows) BY <1>2, <1>3 DEF Table, OneRow
  <2>2. Table(d.plans, {"plan"}, [group : Groups \cup {None}]) BY <1>3 DEF Table, OneRow
  <2>3. Table(d.channels, {"channel"}, [allowed : SUBSET Groups]) BY <1>3 DEF Table, OneRow
  <2>4. Table(d.orders, Ids \cup {"order"}, OrderRows) BY <1>3 DEF Table, OneRow, OrderRows
  <2>5. Table(d.keys, Ids, KeyRows) /\ Table(d.subs, Ids, SubRows) /\ Table(d.balances, Ids, BalanceRows)
    BY <1>1 DEF Table
  <2> QED BY <1>1, <2>1, <2>2, <2>3, <2>4, <2>5 DEF RowsTyped
<1>5. LinksTyped(d) BY <1>3 DEF LinksTyped, Table, LinkRows, OneRow
<1>6. Sound(d) BY <1>1, <1>2, <1>3 DEF Sound, Named, Grouped, OneRow
<1>7. Linked(d) BY <1>3, BackendsAssumption DEF Linked, OneRow
<1>8. IsKept(d.events, d.events, d.orders) /\ IsKept(d.logs, d.logs, d.orders)
  <2>1. d.events = [i \in DOMAIN d.events |-> d.events[i]] BY <1>3 DEF OneRow
  <2>2. d.logs = [i \in DOMAIN d.logs |-> d.logs[i]] BY <1>3 DEF OneRow
  <2> QED BY <1>3, <2>1, <2>2 DEF IsKept, OneRow
<1>9. RowsInv(d, d) BY <1>4, <1>5, <1>6, <1>7, <1>8 DEF RowsInv
<1>10. History(<<>>, 1) BY FS_EmptySet, BackendsAssumption DEF History, Table
<1>11. CachesInv(d, d, 1) BY <1>1, <1>10, NoRows DEF CachesInv, CachesTyped
<1>12. Held(d, d) /\ Cacheable(d, d, 1) BY <1>1, <1>9, <1>11 DEF Held, Cacheable
<1> QED BY <1>12 DEF d

LEMMA StorageInit == Init => StorageInv
<1> SUFFICES ASSUME Init PROVE StorageInv OBVIOUS
<1>1. Held(loc, loc) /\ Cacheable(loc, loc, 1)
  BY EmptyHolds, CustomerHolds DEF Init
<1>2. my = loc /\ now = 1 /\ calls = 0 /\ topic \in {"accounts", "caches"} BY DEF Init
<1> QED BY <1>1, <1>2, BackendsAssumption DEF StorageInv, Held, Cacheable

\* A step that is a call on rows, or on caches.
LEMMA RowsStep ==
  ASSUME StorageInv, Writes(loc, my, loc', my'), UNCHANGED <<now, topic>>,
         calls < MaxCalls, calls' = calls + 1
  PROVE  StorageInv'
<1>1. /\ DOMAIN loc' = Fields /\ DOMAIN my' = Fields
      /\ \A f \in Cached : loc'[f] = loc[f] /\ my'[f] = my[f]
  BY DEF Writes, Only, StorageInv, Fields, Shared, Links, Cached
<1>2. /\ loc'.answers = loc.answers /\ loc'.results = loc.results /\ loc'.partials = loc.partials
      /\ loc'.requests = loc.requests /\ loc'.routes = loc.routes
      /\ my'.answers = my.answers /\ my'.results = my.results /\ my'.partials = my.partials
      /\ my'.requests = my.requests /\ my'.routes = my.routes
  BY <1>1 DEF Cached
<1>3. CachesInv(loc', my', now') BY <1>2 DEF StorageInv, CachesInv, CachesTyped
<1>4. RowsInv(loc', my') BY DEF Writes
<1>5. now' \in 1..MaxTime /\ topic' \in {"accounts", "caches"} /\ calls' \in 0..MaxCalls
  BY BackendsAssumption DEF StorageInv
<1> QED BY <1>1, <1>3, <1>4, <1>5 DEF StorageInv

LEMMA CachesStep ==
  ASSUME StorageInv, Cache(loc, my, loc', my', now), UNCHANGED <<now, topic>>,
         calls < MaxCalls, calls' = calls + 1
  PROVE  StorageInv'
<1>1. /\ DOMAIN loc' = Fields /\ DOMAIN my' = Fields
      /\ \A f \in Shared \cup Links : loc'[f] = loc[f] /\ my'[f] = my[f]
  BY DEF Cache, Only, StorageInv, Fields, Shared, Links, Cached
<1>2. /\ loc'.accounts = loc.accounts /\ loc'.groups = loc.groups /\ loc'.members = loc.members
      /\ loc'.keys = loc.keys /\ loc'.plans = loc.plans /\ loc'.subs = loc.subs
      /\ loc'.channels = loc.channels /\ loc'.orders = loc.orders /\ loc'.balances = loc.balances
      /\ loc'.events = loc.events /\ loc'.logs = loc.logs
      /\ my'.events = my.events /\ my'.logs = my.logs
  BY <1>1 DEF Shared, Links
<1>3. RowsTyped(loc') /\ LinksTyped(loc') /\ LinksTyped(my') /\ Sound(loc') /\ Linked(my')
  BY <1>2 DEF StorageInv, RowsInv, RowsTyped, LinksTyped, Sound, Linked
<1>4. RowsInv(loc', my') BY <1>1, <1>2, <1>3 DEF StorageInv, RowsInv
<1>5. CachesInv(loc', my', now') BY DEF Cache
<1>6. now' \in 1..MaxTime /\ topic' \in {"accounts", "caches"} /\ calls' \in 0..MaxCalls
  BY BackendsAssumption DEF StorageInv
<1> QED BY <1>1, <1>4, <1>5, <1>6 DEF StorageInv

LEMMA CallStep ==
  ASSUME StorageInv, NEW kind, NEW d, NEW e, Call(kind, d, e),
         Writes(loc, my, d, e) \/ Cache(loc, my, d, e, now)
  PROVE  StorageInv'
<1>1. /\ loc' = d /\ my' = e /\ UNCHANGED <<now, topic>>
      /\ calls < MaxCalls /\ calls' = calls + 1
  BY DEF Call
<1>2. CASE Writes(loc, my, d, e) BY <1>1, <1>2, RowsStep
<1>3. CASE Cache(loc, my, d, e, now) BY <1>1, <1>3, CachesStep
<1> QED BY <1>2, <1>3

LEMMA RegistryStep == StorageInv /\ Registry => StorageInv'
<1> SUFFICES ASSUME StorageInv, Registry PROVE StorageInv' OBVIOUS
<1>0. /\ Held(loc, my) /\ RowsTyped(loc) /\ now \in Nat
      /\ DOMAIN loc.accounts \subseteq Accounts /\ loc.groups \subseteq Groups
  BY BackendsAssumption DEF StorageInv, Held, RowsInv, RowsTyped, Table
<1>1. ASSUME NEW a \in Accounts, NEW x \in Externals, NEW on \in BOOLEAN, NEW gs \in SUBSET Groups,
             SaveAccount(a, x, on, gs)
      PROVE  StorageInv'
  <2> DEFINE row == [external |-> x, enabled |-> on, allowed |-> gs,
                     balance |-> IF a \in Account THEN loc.accounts[a].balance ELSE 0]
  <2>1. row \in AccountRows BY <1>0 DEF AccountRows, Account, RowsTyped, Table
  <2>2. /\ \A b \in DOMAIN loc.accounts \ {a} : loc.accounts[b].external # row.external
        /\ row.allowed \subseteq loc.groups
        /\ Call("accounts", L!UpsertAccount(loc, a, row), M!UpsertAccount(my, a, row))
    BY <1>1 DEF SaveAccount, Account
  <2> HIDE DEF row
  <2> QED BY <1>0, <2>1, <2>2, SaveAccountCall, CallStep
<1>2. ASSUME NEW a \in Accounts, NEW gs \in SUBSET Groups, RemoveAccount(a) \/ Join(a, gs)
      PROVE  StorageInv'
  <2>1. CASE RemoveAccount(a) BY <1>0, <2>1, RemoveAccountCall, CallStep DEF RemoveAccount
  <2>2. CASE Join(a, gs) BY <1>0, <2>2, JoinCall, CallStep DEF Join, Account
  <2> QED BY <1>2, <2>1, <2>2
<1>3. ASSUME NEW a \in Accounts, NEW n \in {1, -1}, NEW id \in Ids, Adjust(a, n, id)
      PROVE  StorageInv'
  <2>1. n \in Int OBVIOUS
  <2> QED BY <1>0, <1>3, <2>1, AdjustCall, CallStep DEF Adjust
<1>4. ASSUME NEW g \in Groups, SaveGroup(g) \/ RemoveGroup(g) PROVE StorageInv'
  <2>1. CASE SaveGroup(g) BY <1>0, <2>1, SaveGroupCall, CallStep DEF SaveGroup
  <2>2. CASE RemoveGroup(g) BY <1>0, <2>2, RemoveGroupCall, CallStep DEF RemoveGroup
  <2> QED BY <1>4, <2>1, <2>2
<1>5. ASSUME NEW k \in Ids, NEW a \in Accounts, NEW g \in Groups \cup {None}, NEW on \in BOOLEAN,
             SaveKey(k, a, g, on)
      PROVE  StorageInv'
  <2> DEFINE row == [account |-> a, group |-> g, enabled |-> on, used |-> 0]
  <2>1. row \in KeyRows BY DEF KeyRows
  <2>2. /\ row.account \in DOMAIN loc.accounts /\ row.group \in loc.groups \cup {None}
        /\ Call("accounts", L!UpsertKey(loc, k, row), M!UpsertKey(my, k, row))
    BY <1>5 DEF SaveKey, Account
  <2> HIDE DEF row
  <2> QED BY <1>0, <2>1, <2>2, SaveKeyCall, CallStep
<1>6. ASSUME NEW k \in Ids, NEW on \in BOOLEAN, SwitchKey(k, on) \/ UseKey(k) \/ RemoveKey(k)
      PROVE  StorageInv'
  <2>1. CASE SwitchKey(k, on) BY <1>0, <2>1, SwitchKeyCall, CallStep DEF SwitchKey
  <2>2. CASE UseKey(k)
    <3>1. Writes(loc, my, L!TouchKey(loc, k, now), M!TouchKey(my, k, now))
      BY <1>0, SwitchKeyCall
    <3> QED BY <2>2, <3>1, CallStep DEF UseKey
  <2>3. CASE RemoveKey(k) BY <1>0, <2>3, RemoveKeyCall, CallStep DEF RemoveKey
  <2> QED BY <1>6, <2>1, <2>2, <2>3
<1>7. ASSUME NEW g \in Groups \cup {None}, SavePlan(g) PROVE StorageInv'
  BY <1>0, <1>7, SavePlanCall, CallStep DEF SavePlan
<1>8. ASSUME NEW gs \in SUBSET Groups, SaveChannel(gs) PROVE StorageInv'
  BY <1>0, <1>8, SaveChannelCall, CallStep DEF SaveChannel
<1>9. ASSUME NEW s \in Ids, NEW a \in Accounts, NEW g \in Groups \cup {None}, NEW end \in {None, 2},
             Subscribe(s, a, g, end)
      PROVE  StorageInv'
  <2> DEFINE row == [account |-> a, group |-> g, status |-> "active", expires |-> end, quota |-> 1]
  <2>1. row \in SubRows BY DEF SubRows
  <2>2. /\ row.account \in DOMAIN loc.accounts /\ row.group \in loc.groups \cup {None}
        /\ Call("accounts", L!UpsertSubscription(loc, s, row), M!UpsertSubscription(my, s, row))
    BY <1>9 DEF Subscribe, Account
  <2> HIDE DEF row
  <2> QED BY <1>0, <2>1, <2>2, SubscribeCall, CallStep
<1>10. ASSUME NEW s \in Ids, ChangeSubscription(s) PROVE StorageInv'
  <2>1. s \in DOMAIN loc.subs /\ loc.subs = my.subs
    BY <1>10 DEF ChangeSubscription, StorageInv, RowsInv, Shared
  <2>2. /\ loc.subs[s] \in SubRows /\ loc.subs[s].account \in DOMAIN loc.accounts
        /\ loc.subs[s].group \in loc.groups \cup {None}
    BY <1>0, <2>1 DEF RowsTyped, Table, StorageInv, RowsInv, Sound, Named, Grouped
  <2>3. PICK r \in {L!Extended(loc.subs[s], 1, now), L!Revoked(loc.subs[s]), L!QuotaReset(loc.subs[s])} :
           Call("accounts", L!UpsertSubscription(loc, s, r), M!UpsertSubscription(my, s, r))
    BY <1>0, <1>10, <2>1, <2>2, SameChanges DEF ChangeSubscription
  <2>4. r \in SubRows /\ r.account = loc.subs[s].account /\ r.group = loc.subs[s].group
    BY <1>0, <2>2, SameChanges
  <2> QED BY <1>0, <2>2, <2>3, <2>4, SubscribeCall, CallStep
<1>11. ASSUME NEW o \in Ids, NEW a \in Accounts, SaveOrder(o, a) PROVE StorageInv'
  <2> DEFINE row == [account |-> a, status |-> "pending"]
  <2>1. row \in OrderRows BY DEF OrderRows
  <2>2. /\ row.account \in DOMAIN loc.accounts /\ o \notin DOMAIN loc.orders
        /\ o \notin {r.order : r \in L!Range(my.events)}
        /\ Call("accounts", L!UpsertOrder(loc, o, row), M!UpsertOrder(my, o, row))
    BY <1>11 DEF SaveOrder, Account
  <2>3. \A i \in DOMAIN my.events : my.events[i].order # o BY <2>2 DEF L!Range
  <2> HIDE DEF row
  <2> QED BY <1>0, <2>1, <2>2, <2>3, SaveOrderCall, CallStep
<1>12. ASSUME NEW i \in Ids, NEW o \in Ids \cup {"order"}, Deliver(i, o) PROVE StorageInv'
  BY <1>0, <1>12, DeliverCall, CallStep DEF Deliver
<1> QED BY <1>1, <1>2, <1>3, <1>4, <1>5, <1>6, <1>7, <1>8, <1>9, <1>10, <1>11, <1>12 DEF Registry

LEMMA CacheStep == StorageInv /\ Caches => StorageInv'
<1> SUFFICES ASSUME StorageInv, Caches PROVE StorageInv' OBVIOUS
<1>0. Cacheable(loc, my, now) /\ now \in Nat /\ now >= 1
  BY BackendsAssumption DEF StorageInv, Cacheable
<1>1. \A v \in Values, end \in now .. MaxTime + 1 : Row(v, end) \in CacheRows
  BY <1>0, BackendsAssumption DEF Row, CacheRows
<1>2. \A end \in now + 1 .. MaxTime + 1 : end \in now .. MaxTime + 1
  BY <1>0, BackendsAssumption
<1>3. ASSUME NEW k \in Ids, Answer(k) PROVE StorageInv'
  <2>1. CASE Call("caches", L!LoadAnswer(loc, k, now), M!LoadAnswer(my, k, now))
    BY <1>0, <2>1, AnswerCalls, CallStep
  <2>2. ASSUME NEW row \in CacheRows, Call("caches", L!SaveAnswer(loc, k, row), M!SaveAnswer(my, k, row))
        PROVE  StorageInv'
    BY <1>0, <2>2, AnswerCalls, CallStep
  <2>3. CASE Call("caches", L!ClearAnswers(loc), M!ClearAnswers(my))
    BY <1>0, <2>3, AnswerCalls, CallStep
  <2> QED BY <1>1, <1>2, <1>3, <2>1, <2>2, <2>3 DEF Answer
<1>4. ASSUME NEW ks \in SUBSET Ids, Result(ks) PROVE StorageInv'
  <2>1. CASE Call("caches", L!LoadResults(loc, now), M!LoadResults(my, now))
    BY <1>0, <2>1, ResultCalls, CallStep
  <2>2. ASSUME NEW v \in Values, NEW end \in now + 1 .. MaxTime + 1,
               LET rows == [k \in ks |-> Row(v, end)]
               IN  Call("caches", L!SaveResults(loc, rows, now), M!SaveResults(my, rows, now))
        PROVE  StorageInv'
    <3> DEFINE rows == [k \in ks |-> Row(v, end)]
    <3>1. Table(rows, Ids, CacheRows) BY <1>1, <1>2 DEF Table
    <3>2. Call("caches", L!SaveResults(loc, rows, now), M!SaveResults(my, rows, now)) BY <2>2
    <3> HIDE DEF rows
    <3> QED BY <1>0, <3>1, <3>2, ResultCalls, CallStep
  <2>3. CASE Call("caches", L!ClearResults(loc), M!ClearResults(my))
    BY <1>0, <2>3, ResultCalls, CallStep
  <2> QED BY <1>4, <2>1, <2>2, <2>3 DEF Result
<1>5. ASSUME NEW k \in Ids, Partial(k) PROVE StorageInv'
  <2>1. CASE Call("caches", L!LoadPartial(loc, now), M!LoadPartial(my, now))
    BY <1>0, <1>5, <2>1, PartialCalls, CallStep
  <2>2. ASSUME NEW row \in CacheRows,
               Call("caches", L!SavePartial(loc, k, row, now), M!SavePartial(my, k, row, now))
        PROVE  StorageInv'
    BY <1>0, <2>2, PartialCalls, CallStep
  <2>3. CASE Call("caches", L!DeletePartial(loc, k), M!DeletePartial(my, k))
    BY <1>0, <2>3, PartialCalls, CallStep
  <2> QED BY <1>1, <1>2, <1>5, <2>1, <2>2, <2>3 DEF Partial
<1>6. ASSUME NEW id \in Ids, Request(id) PROVE StorageInv'
  <2>1. CASE /\ \A i \in DOMAIN loc.requests : loc.requests[i].created # now
             /\ Call("caches", L!SaveRequest(loc, id, now, MaxHistory), M!SaveRequest(my, id, now, MaxHistory))
    BY <1>0, <2>1, RequestCalls, CallStep
  <2>2. CASE Call("caches", L!ClearRequests(loc), M!ClearRequests(my))
    BY <1>0, <2>2, RequestCalls, CallStep
  <2> QED BY <1>6, <2>1, <2>2 DEF Request
<1>7. ASSUME NEW ids \in SUBSET Ids, Routes(ids) PROVE StorageInv'
  <2>1. PICK v \in Values, end \in now .. MaxTime + 1 :
           LET rows == [i \in ids |-> Row(v, end)]
           IN  Call("caches", L!SaveRoutes(loc, rows, now), M!SaveRoutes(my, rows, now))
    BY <1>7 DEF Routes
  <2> DEFINE rows == [i \in ids |-> Row(v, end)]
  <2>2. Table(rows, Ids, CacheRows) BY <1>1 DEF Table
  <2>3. Call("caches", L!SaveRoutes(loc, rows, now), M!SaveRoutes(my, rows, now)) BY <2>1
  <2> HIDE DEF rows
  <2> QED BY <1>0, <2>2, <2>3, RouteCall, CallStep
<1> QED BY <1>3, <1>4, <1>5, <1>6, <1>7 DEF Caches

\* What agrees now agrees later, and the history may be older than the clock.
LEMMA TickStep == StorageInv /\ Tick => StorageInv'
<1> SUFFICES ASSUME StorageInv, Tick PROVE StorageInv' OBVIOUS
<1>1. /\ loc' = loc /\ my' = my /\ topic' = topic /\ calls' = calls
      /\ now \in Nat /\ now' \in Nat /\ now <= now' /\ now' \in 1..MaxTime
  BY BackendsAssumption DEF Tick, StorageInv
<1>2. CachesTyped(loc) /\ CachesTyped(my) BY DEF StorageInv, CachesInv
<1>3. /\ Agree(loc.answers, my.answers, now') /\ Agree(loc.results, my.results, now')
      /\ Agree(loc.partials, my.partials, now') /\ Agree(loc.routes, my.routes, now')
  BY <1>1, <1>2, AgreeLater DEF StorageInv, CachesInv, CachesTyped
<1>4. History(loc.requests, now')
  <2>1. History(loc.requests, now) BY DEF StorageInv, CachesInv
  <2>2. \A r : r \in [created : 1..now] => r \in [created : 1..now'] BY <1>1
  <2> QED BY <2>1, <2>2 DEF History, Table
<1>5. CachesInv(loc', my', now') BY <1>1, <1>2, <1>3, <1>4 DEF CachesInv, StorageInv
<1> QED BY <1>1, <1>5 DEF StorageInv

(* Whatever is called, the two storages hold the same rows of the accounts'
   sections and agree in the caches on what has not expired. *)
THEOREM StorageInvariant == Spec => []StorageInv
<1>1. StorageInv /\ UNCHANGED vars => StorageInv' BY DEF StorageInv, vars
<1>2. StorageInv /\ [Next]_vars => StorageInv'
  BY <1>1, RegistryStep, CacheStep, TickStep DEF Next
<1> QED BY StorageInit, <1>2, PTL DEF Spec

-----------------------------------------------------------------------------
(* The theorems                                                             *)

LEMMA TypesOfInv == StorageInv => TypeOK
<1> SUFFICES ASSUME StorageInv PROVE TypeOK OBVIOUS
<1>1. RowsTyped(loc) /\ LinksTyped(loc) /\ LinksTyped(my) /\ CachesTyped(loc) /\ CachesTyped(my)
  BY DEF StorageInv, RowsInv, CachesInv
<1>2. RowsTyped(my)
  <2>1. /\ my.accounts = loc.accounts /\ my.groups = loc.groups /\ my.members = loc.members
        /\ my.keys = loc.keys /\ my.plans = loc.plans /\ my.subs = loc.subs
        /\ my.channels = loc.channels /\ my.orders = loc.orders /\ my.balances = loc.balances
    BY DEF StorageInv, RowsInv, Shared
  <2> QED BY <1>1, <2>1 DEF RowsTyped
<1>3. \A d : CachesTyped(d) => \A f \in {d.answers, d.results, d.partials, d.routes} : Table(f, Ids, CacheRows)
  BY DEF CachesTyped
<1>4. Table(loc.requests, Ids, [created : 1..now]) /\ Table(my.requests, Ids, [created : 1..now])
  BY DEF StorageInv, CachesInv, History
<1>5. DOMAIN loc = DOMAIN Empty /\ DOMAIN my = DOMAIN Empty BY EmptyFields DEF StorageInv
<1>6. Typed(loc) BY <1>1, <1>3, <1>4, <1>5 DEF Typed, RowsTyped, LinksTyped
<1>7. Typed(my) BY <1>1, <1>2, <1>3, <1>4, <1>5 DEF Typed, RowsTyped, LinksTyped
<1> QED BY <1>6, <1>7 DEF TypeOK, StorageInv

(* The sections of both storages have rows of the fields that the code reads
   of them, whatever was called (storage.py, storage_local.py). *)
THEOREM TypeCorrect == Spec => []TypeOK
BY StorageInvariant, TypesOfInv, PTL

LEMMA LeftOfInv == StorageInv => NothingLeft
<1> SUFFICES ASSUME StorageInv PROVE NothingLeft OBVIOUS
<1>1. Sound(loc) /\ \A f \in Shared : loc[f] = my[f] BY DEF StorageInv, RowsInv
<1>2. Sound(my)
  <2>1. /\ my.accounts = loc.accounts /\ my.groups = loc.groups /\ my.members = loc.members
        /\ my.keys = loc.keys /\ my.plans = loc.plans /\ my.subs = loc.subs
        /\ my.orders = loc.orders /\ my.balances = loc.balances
    BY <1>1 DEF Shared
  <2> QED BY <1>1, <2>1 DEF Sound
<1>3. Dangling(loc.events, loc.orders) = {} /\ Dangling(loc.logs, loc.orders) = {}
  <2>1. \A f, g, orders : IsKept(f, g, orders) => Dangling(f, orders) = {} BY DEF IsKept, Dangling
  <2> QED BY <2>1 DEF StorageInv, RowsInv
<1>4. ASSUME NEW d, Sound(d)
      PROVE  /\ \A rows \in {d.keys, d.subs, d.orders, d.balances} :
                   \A id \in DOMAIN rows : rows[id].account \in DOMAIN d.accounts
             /\ \A m \in d.members : m[1] \in DOMAIN d.accounts /\ m[2] \in d.groups
             /\ \A rows \in {d.keys, d.subs, d.plans} :
                   \A id \in DOMAIN rows : rows[id].group \in d.groups \cup {None}
             /\ \A a \in DOMAIN d.accounts : d.accounts[a].allowed \subseteq d.groups
  BY <1>4 DEF Sound, Named, Grouped
<1> QED BY <1>1, <1>2, <1>3, <1>4 DEF NothingLeft

(* Deleting an account or a group leaves no row that names it, whatever the
   accounts, groups and calls (delete_admin_account, delete_admin_group). *)
THEOREM DeletedLeavesNothing == Spec => []NothingLeft
BY StorageInvariant, LeftOfInv, PTL

LEMMA SameOfInv == StorageInv => SameRows
<1> SUFFICES ASSUME StorageInv PROVE SameRows OBVIOUS
<1>1. /\ \A f \in Shared : loc[f] = my[f]
      /\ IsKept(loc.events, my.events, loc.orders) /\ IsKept(loc.logs, my.logs, loc.orders)
      /\ Named(loc.keys, DOMAIN loc.accounts) /\ RowsTyped(loc)
  BY DEF StorageInv, RowsInv, Sound
<1>2. /\ my.accounts = loc.accounts /\ my.members = loc.members /\ my.keys = loc.keys
      /\ my.subs = loc.subs /\ my.orders = loc.orders
  BY <1>1 DEF Shared
<1>3. /\ loc.events = L!Drop(my.events, Dangling(my.events, my.orders))
      /\ loc.logs = L!Drop(my.logs, Dangling(my.logs, my.orders))
  BY <1>1, <1>2, KeptIsDrop
<1>4. \A a \in Accounts, g \in Groups \cup {None} : L!Active(loc, a, g, now) = M!Active(my, a, g, now)
  BY <1>2 DEF L!Active, L!Where, M!Active, M!Select
<1>5. ASSUME NEW k \in DOMAIN loc.keys
      PROVE  L!FindKey(loc, loc.accounts, k) = M!FindKey(my, k)
  <2> DEFINE row == loc.keys[k]
  <2>1. row.account \in DOMAIN loc.accounts BY <1>1 DEF Named
  <2>2. loc.accounts[row.account].enabled \in BOOLEAN
    BY <1>1, <2>1 DEF RowsTyped, Table, AccountRows
  <2>3. (row.account \in DOMAIN loc.accounts => loc.accounts[row.account].enabled)
        = (\A a \in DOMAIN loc.accounts \cap {row.account} : loc.accounts[a].enabled)
    BY <2>1, <2>2
  <2> QED BY <1>2, <2>3 DEF L!FindKey, M!FindKey
<1>6. \A x \in Externals : L!WithKey(loc, x) = M!WithKey(my, x)
  BY <1>2 DEF L!WithKey, L!Where, M!WithKey, M!Select
<1>7. \A a \in Accounts : L!GroupsOf(loc, a) = M!GroupsOf(my, a)
  BY <1>2 DEF L!GroupsOf, M!GroupsOf
<1> QED BY <1>1, <1>3, <1>4, <1>5, <1>6, <1>7 DEF SameRows, Shared

(* Whatever the accounts, ids and calls, the local and the MySQL storage give
   the same rows to the services (ProxyStorage, LocalProxyStorage). *)
THEOREM SameRowsGiven == Spec => []SameRows
BY StorageInvariant, SameOfInv, PTL

LEMMA CachesOfInv == StorageInv => SameCaches
<1> SUFFICES ASSUME StorageInv PROVE SameCaches OBVIOUS
<1>1. /\ now \in Nat /\ CachesTyped(loc) /\ CachesTyped(my)
      /\ loc.requests = my.requests /\ History(loc.requests, now)
  BY BackendsAssumption DEF StorageInv, CachesInv
<1>2. /\ L!Pruned(loc.answers, now) = M!Unexpired(my.answers, now)
      /\ L!Pruned(loc.results, now) = M!Unexpired(my.results, now)
      /\ L!Pruned(loc.partials, now) = M!Unexpired(my.partials, now)
      /\ L!Pruned(loc.routes, now) = M!Unexpired(my.routes, now)
  BY <1>1, AgreePruned DEF StorageInv, CachesInv, CachesTyped
<1>3. \A t, k : /\ k \in DOMAIN M!Unexpired(t, now) => t[k] = M!Unexpired(t, now)[k]
                /\ M!ValueOf(t, k, now) = IF k \in DOMAIN M!Unexpired(t, now)
                                          THEN {M!Unexpired(t, now)[k].value} ELSE {}
  <2>1. \A t : \A k \in DOMAIN M!Unexpired(t, now) : t[k] = M!Unexpired(t, now)[k]
    BY DEF M!Unexpired, M!Restrict
  <2> QED BY <2>1 DEF M!ValueOf
<1>4. \A k \in Ids : /\ L!AnswerFound(loc, k, now) = M!AnswerFound(my, k, now)
                     /\ L!PartialFound(loc, k, now) = M!PartialFound(my, k, now)
  BY <1>2, <1>3 DEF L!AnswerFound, M!AnswerFound, L!PartialFound, M!PartialFound
<1>5. L!ResultsFound(loc, Ids, now) = M!ResultsFound(my, Ids, now)
  BY <1>2 DEF L!ResultsFound, M!ResultsFound
<1>6. L!CountPartials(loc, now) = M!CountPartials(my, now)
  BY <1>2, SameCardinality DEF L!CountPartials, M!CountPartials
<1>7. Cardinality(DOMAIN loc.requests) <= MaxHistory BY <1>1 DEF History
<1>8. L!LoadRoutes(loc, now) = M!LoadRoutes(my, now) BY <1>2 DEF L!LoadRoutes, M!LoadRoutes
<1> QED BY <1>1, <1>4, <1>5, <1>6, <1>7, <1>8 DEF SameCaches

(* Their caches and histories, which prune and count in other ways, give the
   same rows, whatever the size of the history (record_request and the caches
   of both storages). *)
THEOREM SameCachesGiven == Spec => []SameCaches
BY StorageInvariant, CachesOfInv, PTL
-----------------------------------------------------------------------------
(* Balances, redeem codes and affiliate quotas.                            *)

\* The copies of the codes that threads hold.
Copies ==
    \A h \in Handlers :
        /\ \A c \in Codes : job[h].codes[c] = "used" => granted[c] > 0
        /\ pc[h] = "use" => granted[job[h].code] > 0

IInv == LedgerTypeOK /\ UsedWasGranted /\ Copies

\* One thread only: an active code can be granted once more, unless it is being used.
CodePart(h) ==
    /\ GrantedOnce
    /\ \A c \in Codes :
           code[c] = "active" /\ ~(pc[h] = "use" /\ job[h].code = c) => granted[c] < issued[c]
    /\ pc[h] \in {"grant", "use", "issue"} => job[h].codes = code
    /\ pc[h] = "grant" => code[job[h].code] = "active"

\* One thread only: what is paid out is recorded, or is being.
Pending(h, a) == IF pc[h] \in {"load", "record"} /\ job[h].account = a THEN job[h].amount ELSE 0

QuotaPart(h) ==
    /\ PaidWithinRebates
    /\ \A a \in LedgerAccounts : transfers[a] + Pending(h, a) = paid[a]
    /\ pc[h] = "transfers" => job[h].amount = rebates[job[h].account]
    /\ pc[h] = "pay" => transfers[job[h].account] + job[h].amount <= rebates[job[h].account]
    /\ pc[h] = "record" => job[h].sums = transfers
    /\ pc[h] = "rebate" => job[h].sums = rebates

\* One request after another, and no crash so far.
InTurn == ~overlapped /\ crashes = 0

OthersIdle(h) == \A g \in Handlers : g # h => pc[g] = "idle"

Apart == ~overlapped => \A h \in Handlers : pc[h] # "idle" => OthersIdle(h)

SInv ==
    /\ LedgerTypeOK /\ Apart
    /\ InTurn =>
           /\ GrantedOnce /\ PaidWithinRebates
           /\ \A h \in Handlers : OthersIdle(h) => CodePart(h) /\ QuotaPart(h)
-----------------------------------------------------------------------------
LEMMA InitType == LedgerInit => LedgerTypeOK
<1> SUFFICES ASSUME LedgerInit PROVE LedgerTypeOK OBVIOUS
<1>1. overlapped \in BOOLEAN BY DEF LedgerInit
<1>2. NoJob \in Jobs BY DEF NoJob, Jobs, Ops, NewRow, Zero, Rows, Buckets, Sums
<1> HIDE DEF NoJob
<1> QED BY LedgerAssumption, <1>1, <1>2
    DEF LedgerInit, LedgerTypeOK, NewRow, Zero, Rows, Sums, Buckets

LEMMA NoJobType == NoJob \in Jobs
BY DEF NoJob, Jobs, Ops, NewRow, Zero, Rows, Buckets, Sums

Places == {"idle", "write", "codes", "grant", "use", "aff", "rebates", "transfers", "pay",
           "load", "record", "issue", "rebate"}

\* A job fits the place where the thread is.
Fits(p, j) ==
    /\ p \in Places /\ j \in Jobs
    /\ p \in {"codes", "grant", "use", "issue"} => j.code \in Codes
    /\ p \notin {"idle", "issue"} => j.account \in LedgerAccounts

ThreadsOK ==
    /\ pc \in [Handlers -> Places] /\ job \in [Handlers -> Jobs]
    /\ \A h \in Handlers : Fits(pc[h], job[h])

StoreOK ==
    /\ account \in [LedgerAccounts -> Rows]
    /\ posted \in [LedgerAccounts -> Int] /\ paid \in Sums
    /\ code \in Buckets /\ rebates \in Sums /\ transfers \in Sums
    /\ granted \in [Codes -> Nat] /\ issued \in [Codes -> Nat]
    /\ requests \in 0..MaxRequests /\ crashes \in 0..MaxCrashes /\ overlapped \in BOOLEAN

LEMMA TypeParts == LedgerTypeOK <=> StoreOK /\ ThreadsOK
BY DEF LedgerTypeOK, StoreOK, ThreadsOK, Fits, Places

LEMMA TypePartsNext == LedgerTypeOK' <=> StoreOK' /\ ThreadsOK'
BY TypeParts, PTL

LEMMA ThreadMoves ==
    ASSUME ThreadsOK, NEW h \in Handlers, NEW p, NEW j, Fits(p, j), Goto(h, p), Learn(h, j)
    PROVE  /\ ThreadsOK' /\ pc'[h] = p /\ job'[h] = j
           /\ \A k \in Handlers : k # h => pc'[k] = pc[k] /\ job'[k] = job[k]
BY DEF ThreadsOK, Fits, Goto, Learn

LEMMA ThreadGoes ==
    ASSUME ThreadsOK, NEW h \in Handlers, NEW p, Fits(p, job[h]), Goto(h, p), UNCHANGED job
    PROVE  /\ ThreadsOK' /\ pc'[h] = p
           /\ \A k \in Handlers : k # h => pc'[k] = pc[k]
BY DEF ThreadsOK, Fits, Goto

LEMMA ThreadEnds ==
    ASSUME ThreadsOK, NEW h \in Handlers, Finish(h)
    PROVE  /\ ThreadsOK' /\ pc'[h] = "idle" /\ job'[h] = NoJob
           /\ \A k \in Handlers : k # h => pc'[k] = pc[k] /\ job'[k] = job[k]
<1>1. Fits("idle", NoJob) BY NoJobType DEF Fits, Places
<1> QED BY <1>1, ThreadMoves DEF Finish

\* An adjustment keeps every balance in Nat.
LEMMA AdjustedType ==
    ASSUME LedgerTypeOK, NEW a \in LedgerAccounts, NEW amount \in Int, BalanceAdjusted(a, amount)
    PROVE  account' \in [LedgerAccounts -> Rows] /\ posted' \in [LedgerAccounts -> Int]
<1>1. account[a] \in Rows BY DEF LedgerTypeOK
<1>2. account[a].balance + amount \in Nat BY <1>1 DEF BalanceAdjusted, Rows
<1>3. [account[a] EXCEPT !.balance = account[a].balance + amount] \in Rows
  BY <1>1, <1>2 DEF Rows
<1>4. account' = [account EXCEPT ![a] =
                     [account[a] EXCEPT !.balance = account[a].balance + amount]]
  BY DEF BalanceAdjusted, LedgerTypeOK
<1> QED BY <1>3, <1>4 DEF BalanceAdjusted, LedgerTypeOK

\* Whatever a request starts with is well typed.
LEMMA BeginType ==
    ASSUME LedgerTypeOK, NEW h \in Handlers, NEW p, NEW j, Begin(h, p, j), Fits(p, j)
    PROVE  LedgerTypeOK'
<1>1. ThreadsOK' BY TypeParts, ThreadMoves DEF Begin
<1>2. overlapped' \in BOOLEAN /\ requests' \in 0..MaxRequests
  BY LedgerAssumption DEF Begin, Arrive, LedgerTypeOK
<1>3. StoreOK' BY <1>2, TypeParts DEF Begin, StoreOK, stored
<1> QED BY <1>1, <1>3, TypePartsNext

LEMMA AskType == ASSUME LedgerTypeOK, NEW h \in Handlers, Ask(h) PROVE LedgerTypeOK'
<1> USE LedgerAssumption, NoJobType
<1>1. ASSUME NEW a \in LedgerAccounts, NEW op \in Ops, NEW amount \in Nat, Update(h, a, op, amount)
      PROVE  LedgerTypeOK'
  <2> DEFINE j == [NoJob EXCEPT !.op = op, !.account = a, !.amount = amount, !.row = account[a]]
  <2>1. account[a] \in Rows BY DEF LedgerTypeOK
  <2>2. Fits("write", j) BY <2>1 DEF Fits, Places, Jobs
  <2> QED BY <1>1, <2>2, BeginType DEF Update
<1>2. ASSUME NEW a \in LedgerAccounts, NEW amount \in Int, AdjustBalance(h, a, amount)
      PROVE LedgerTypeOK'
  <2>1. account' \in [LedgerAccounts -> Rows] /\ posted' \in [LedgerAccounts -> Int]
    BY <1>2, AdjustedType DEF AdjustBalance
  <2>2. overlapped' \in BOOLEAN /\ requests' \in 0..MaxRequests
    BY <1>2 DEF AdjustBalance, Arrive, LedgerTypeOK
  <2> QED BY <1>2, <2>1, <2>2 DEF AdjustBalance, LedgerTypeOK
<1>3. ASSUME NEW a \in LedgerAccounts, NEW op \in Ops, Affiliate(h, a, op) PROVE LedgerTypeOK'
  <2> DEFINE j == [NoJob EXCEPT !.op = op, !.account = a, !.row = account[a]]
             p == IF account[a].aff THEN "rebates" ELSE "aff"
  <2>1. account[a] \in Rows BY DEF LedgerTypeOK
  <2>2. Fits(p, j) BY <2>1 DEF Fits, Places, Jobs
  <2> QED BY <1>3, <2>2, BeginType DEF Affiliate
<1>4. ASSUME NEW a \in LedgerAccounts, EditRebates(h, a) PROVE LedgerTypeOK'
  <2> DEFINE j == [NoJob EXCEPT !.op = "rebate", !.account = a, !.sums = rebates]
  <2>1. Fits("rebate", j) BY DEF Fits, Places, Jobs, Ops, LedgerTypeOK
  <2> QED BY <1>4, <2>1, BeginType DEF EditRebates
<1>5. ASSUME NEW a \in LedgerAccounts, NEW c \in Codes, Redeem(h, a, c) PROVE LedgerTypeOK'
  <2> DEFINE j == [NoJob EXCEPT !.op = "redeem", !.account = a, !.code = c, !.row = account[a]]
  <2>1. account[a] \in Rows BY DEF LedgerTypeOK
  <2>2. Fits("codes", j) BY <2>1 DEF Fits, Places, Jobs, Ops
  <2> QED BY <1>5, <2>2, BeginType DEF Redeem
<1>6. ASSUME NEW c \in Codes, EditCodes(h, c) PROVE LedgerTypeOK'
  <2> DEFINE j == [NoJob EXCEPT !.op = "issue", !.code = c, !.codes = code]
  <2>1. Fits("issue", j) BY DEF Fits, Places, Jobs, Ops, LedgerTypeOK
  <2> QED BY <1>6, <2>1, BeginType DEF EditCodes
<1> QED BY <1>1, <1>2, <1>3, <1>4, <1>5, <1>6 DEF Ask, Ops

LEMMA WorkType == ASSUME LedgerTypeOK, NEW h \in Handlers, Work(h) PROVE LedgerTypeOK'
<1> USE LedgerAssumption
<1>0. StoreOK /\ ThreadsOK /\ Fits(pc[h], job[h]) BY TypeParts DEF ThreadsOK
<1>1. CASE Write(h)
  <2>1. job[h].account \in LedgerAccounts /\ Changed(job[h]) \in Rows
    BY <1>0, <1>1 DEF Write, Fits, Jobs, Rows, Changed
  <2>2. StoreOK' BY <1>0, <1>1, <2>1 DEF StoreOK, Write, counts
  <2>3. ThreadsOK' BY <1>0, <1>1, ThreadEnds DEF Write
  <2> QED BY <2>2, <2>3, TypePartsNext
<1>2. CASE LoadCodes(h)
  <2>1. StoreOK' BY <1>0, <1>2 DEF StoreOK, LoadCodes, stored, counts
  <2>2. CASE Finish(h) BY <1>0, <2>1, <2>2, ThreadEnds, TypePartsNext
  <2>3. CASE Goto(h, "grant") /\ Learn(h, [job[h] EXCEPT !.codes = code])
    <3>1. Fits("grant", [job[h] EXCEPT !.codes = code])
      BY <1>0, <1>2 DEF Fits, Places, Jobs, LoadCodes, StoreOK
    <3> QED BY <1>0, <2>1, <2>3, <3>1, ThreadMoves, TypePartsNext
  <2> QED BY <1>2, <2>2, <2>3 DEF LoadCodes
<1>3. CASE Grant(h)
  <2> DEFINE a == job[h].account
             c == job[h].code
  <2>1. a \in LedgerAccounts /\ c \in Codes /\ job[h].row \in Rows
    BY <1>0, <1>3 DEF Grant, Fits, Jobs
  <2>2. account' \in [LedgerAccounts -> Rows] /\ posted' \in [LedgerAccounts -> Int]
    <3>1. CASE TypeOf[c] = "balance" BY <1>3, <2>1, <3>1, AdjustedType DEF Grant, Granted
    <3>2. CASE TypeOf[c] = "concurrency"
      <4>1. [job[h].row EXCEPT !.limit = job[h].row.limit + 1] \in Rows BY <2>1 DEF Rows
      <4>2. account' = [account EXCEPT ![a] =
                            [job[h].row EXCEPT !.limit = job[h].row.limit + 1]]
            /\ UNCHANGED posted
        BY <1>3, <3>2 DEF Grant, Granted
      <4> QED BY <1>0, <2>1, <4>1, <4>2 DEF StoreOK
    <3>3. CASE TypeOf[c] = "subscription" BY <1>0, <1>3, <3>3 DEF Grant, Granted, StoreOK
    <3> QED BY <2>1, <3>1, <3>2, <3>3
  <2>3. StoreOK' BY <1>0, <1>3, <2>1, <2>2 DEF StoreOK, Grant
  <2>4. Fits("use", job[h]) BY <1>0, <2>1 DEF Fits, Places
  <2>5. ThreadsOK' BY <1>0, <1>3, <2>4, ThreadGoes DEF Grant
  <2> QED BY <2>3, <2>5, TypePartsNext
<1>4. CASE RefuseGrant(h)
  <2>1. StoreOK' BY <1>0, <1>4 DEF StoreOK, RefuseGrant, stored, counts
  <2> QED BY <1>0, <1>4, <2>1, ThreadEnds, TypePartsNext DEF RefuseGrant
<1>5. CASE Use(h)
  <2>1. job[h].codes \in Buckets /\ job[h].code \in Codes
    BY <1>0, <1>5 DEF Use, Fits, Jobs
  <2>2. StoreOK' BY <1>0, <1>5, <2>1 DEF StoreOK, Use, counts, Buckets
  <2> QED BY <1>0, <1>5, <2>2, ThreadEnds, TypePartsNext DEF Use
<1>6. CASE AddAffiliateCode(h)
  <2>1. job[h].account \in LedgerAccounts /\ [job[h].row EXCEPT !.aff = TRUE] \in Rows
    BY <1>0, <1>6 DEF AddAffiliateCode, Fits, Jobs, Rows
  <2>2. StoreOK' BY <1>0, <1>6, <2>1 DEF StoreOK, AddAffiliateCode, counts
  <2>3. CASE Finish(h) BY <1>0, <2>2, <2>3, ThreadEnds, TypePartsNext
  <2>4. CASE Goto(h, "rebates") /\ UNCHANGED job
    <3>1. Fits("rebates", job[h]) BY <1>0, <2>1 DEF Fits, Places
    <3> QED BY <1>0, <2>2, <2>4, <3>1, ThreadGoes, TypePartsNext
  <2> QED BY <1>6, <2>3, <2>4 DEF AddAffiliateCode
<1>7. CASE ReadRebates(h)
  <2>1. StoreOK' BY <1>0, <1>7 DEF StoreOK, ReadRebates, stored, counts
  <2> DEFINE j == [job[h] EXCEPT !.amount = rebates[job[h].account]]
  <2>2. Fits("transfers", j)
    BY <1>0, <1>7 DEF Fits, Places, Jobs, StoreOK, Sums, ReadRebates
  <2> QED BY <1>0, <1>7, <2>1, <2>2, ThreadMoves, TypePartsNext DEF ReadRebates
<1>8. CASE ReadTransfers(h)
  <2>1. StoreOK' BY <1>0, <1>8 DEF StoreOK, ReadTransfers, stored, counts
  <2>2. CASE Finish(h) BY <1>0, <2>1, <2>2, ThreadEnds, TypePartsNext
  <2>3. CASE ~Finish(h)
    <3> DEFINE d == job[h].amount - transfers[job[h].account]
               j == [job[h] EXCEPT !.amount = d]
    <3>1. d > 0 /\ Goto(h, "pay") /\ Learn(h, j) BY <1>8, <2>3 DEF ReadTransfers
    <3>2. d \in Nat BY <1>0, <1>8, <3>1 DEF Fits, Jobs, StoreOK, Sums, ReadTransfers
    <3>3. Fits("pay", j)
      BY <1>0, <1>8, <3>2 DEF Fits, Places, Jobs, ReadTransfers
    <3> QED BY <1>0, <2>1, <3>1, <3>3, ThreadMoves, TypePartsNext
  <2> QED BY <2>2, <2>3
<1>9. CASE Pay(h)
  <2>1. job[h].account \in LedgerAccounts /\ job[h].amount \in Nat /\ job[h].amount \in Int
    BY <1>0, <1>9 DEF Pay, Fits, Jobs
  <2>2. account' \in [LedgerAccounts -> Rows] /\ posted' \in [LedgerAccounts -> Int]
    BY <1>9, <2>1, AdjustedType DEF Pay
  <2>3. paid' \in Sums BY <1>0, <1>9, <2>1 DEF StoreOK, Pay, Sums
  <2>5. StoreOK' BY <1>0, <1>9, <2>2, <2>3 DEF StoreOK, Pay, counts
  <2>4. Fits("load", job[h]) BY <1>0, <2>1 DEF Fits, Places
  <2> QED BY <1>0, <1>9, <2>4, <2>5, ThreadGoes, TypePartsNext DEF Pay
<1>10. CASE LoadTransfers(h)
  <2>1. StoreOK' BY <1>0, <1>10 DEF StoreOK, LoadTransfers, stored, counts
  <2> DEFINE j == [job[h] EXCEPT !.sums = transfers]
  <2>2. Fits("record", j) BY <1>0, <1>10 DEF Fits, Places, Jobs, StoreOK, LoadTransfers
  <2> QED BY <1>0, <1>10, <2>1, <2>2, ThreadMoves, TypePartsNext DEF LoadTransfers
<1>11. CASE RecordTransfer(h)
  <2>1. job[h].account \in LedgerAccounts /\ job[h].amount \in Nat /\ job[h].sums \in Sums
    BY <1>0, <1>11 DEF RecordTransfer, Fits, Jobs
  <2>2. StoreOK' BY <1>0, <1>11, <2>1 DEF StoreOK, RecordTransfer, counts, Sums
  <2> QED BY <1>0, <1>11, <2>2, ThreadEnds, TypePartsNext DEF RecordTransfer
<1>12. CASE SaveCodes(h)
  <2>1. job[h].codes \in Buckets /\ job[h].code \in Codes
    BY <1>0, <1>12 DEF SaveCodes, Fits, Jobs
  <2>2. StoreOK' BY <1>0, <1>12, <2>1 DEF StoreOK, SaveCodes, Buckets
  <2> QED BY <1>0, <1>12, <2>2, ThreadEnds, TypePartsNext DEF SaveCodes
<1>13. CASE SaveRebates(h)
  <2>1. job[h].account \in LedgerAccounts /\ job[h].sums \in Sums
    BY <1>0, <1>13 DEF SaveRebates, Fits, Jobs
  <2>2. StoreOK' BY <1>0, <1>13, <2>1 DEF StoreOK, SaveRebates, counts, Sums
  <2> QED BY <1>0, <1>13, <2>2, ThreadEnds, TypePartsNext DEF SaveRebates
<1> QED BY <1>1, <1>2, <1>3, <1>4, <1>5, <1>6, <1>7, <1>8, <1>9, <1>10, <1>11, <1>12, <1>13
        DEF Work

LEMMA NextType == LedgerTypeOK /\ [LedgerNext]_ledgerVars => LedgerTypeOK'
<1> SUFFICES ASSUME LedgerTypeOK, [LedgerNext]_ledgerVars PROVE LedgerTypeOK' OBVIOUS
<1>1. CASE Crash BY <1>1, NoJobType, LedgerAssumption DEF Crash, LedgerTypeOK, stored
<1>2. CASE UNCHANGED ledgerVars BY <1>2 DEF ledgerVars, stored, counts, LedgerTypeOK
<1> QED BY <1>1, <1>2, AskType, WorkType DEF LedgerNext

\* Rows, buckets and threads stay well typed, and no balance is ever negative.
THEOREM LedgerTypeCorrect == LedgerSpec => []LedgerTypeOK
BY InitType, NextType, PTL DEF LedgerSpec
-----------------------------------------------------------------------------
\* A step of h that grants nothing back and leaves h with granted copies.
LEMMA CopiesStep ==
    ASSUME LedgerTypeOK, Copies, NEW h \in Handlers, NEW j, NEW p,
           job' = [job EXCEPT ![h] = j], pc' = [pc EXCEPT ![h] = p],
           \A c \in Codes : granted[c] > 0 => granted'[c] > 0,
           \A c \in Codes : j.codes[c] = "used" => granted'[c] > 0,
           p = "use" => granted'[j.code] > 0
    PROVE  Copies'
<1> SUFFICES ASSUME NEW k \in Handlers
             PROVE  /\ \A c \in Codes : job'[k].codes[c] = "used" => granted'[c] > 0
                    /\ pc'[k] = "use" => granted'[job'[k].code] > 0
  BY DEF Copies
<1>1. CASE k = h BY <1>1 DEF LedgerTypeOK
<1>2. CASE k # h
  <2>1. pc'[k] = pc[k] /\ job'[k] = job[k] BY <1>2 DEF LedgerTypeOK
  <2>2. pc[k] = "use" => job[k].code \in Codes BY DEF LedgerTypeOK
  <2> QED BY <2>1, <2>2 DEF Copies
<1> QED BY <1>1, <1>2

\* The same when the copies of h are those it had.
LEMMA CopiesKept ==
    ASSUME LedgerTypeOK, Copies, NEW h \in Handlers, NEW p, p # "use", UNCHANGED <<job, granted>>,
           pc' = [pc EXCEPT ![h] = p]
    PROVE  Copies'
<1>1. job' = [job EXCEPT ![h] = job[h]] BY DEF LedgerTypeOK
<1>2. \A c \in Codes : job[h].codes[c] = "used" => granted'[c] > 0 BY DEF Copies
<1> QED BY <1>1, <1>2, CopiesStep

LEMMA CopiesEnd ==
    ASSUME LedgerTypeOK, Copies, NEW h \in Handlers, Finish(h), UNCHANGED granted
    PROVE  Copies'
<1>1. job' = [job EXCEPT ![h] = NoJob] /\ pc' = [pc EXCEPT ![h] = "idle"]
  BY DEF Finish, Goto, Learn
<1>2. \A c \in Codes : granted[c] > 0 => granted'[c] > 0 OBVIOUS
<1>3. \A c \in Codes : NoJob.codes[c] = "used" => granted'[c] > 0 BY DEF NoJob
<1> QED BY <1>1, <1>2, <1>3, CopiesStep

LEMMA CopiesBegin ==
    ASSUME IInv, NEW h \in Handlers, NEW p, NEW j, Begin(h, p, j), p # "use",
           \A c \in Codes : j.codes[c] = "used" => granted[c] > 0
    PROVE  UsedWasGranted' /\ Copies'
<1>1. Copies' BY CopiesStep DEF IInv, Begin, Goto, Learn
<1>2. UsedWasGranted' BY DEF IInv, Begin, UsedWasGranted, stored
<1> QED BY <1>1, <1>2

LEMMA AskGranted ==
    ASSUME IInv, NEW h \in Handlers, Ask(h) PROVE UsedWasGranted' /\ Copies'
<1>1. \A c \in Codes : NoJob.codes[c] # "used" BY DEF NoJob
<1>2. ASSUME NEW a, NEW op, NEW amount, Update(h, a, op, amount)
      PROVE  UsedWasGranted' /\ Copies'
  <2> DEFINE j == [NoJob EXCEPT !.op = op, !.account = a, !.amount = amount, !.row = account[a]]
  <2>1. j.codes = NoJob.codes BY DEF NoJob
  <2> QED BY <1>1, <1>2, <2>1, CopiesBegin DEF Update
<1>3. ASSUME NEW a, NEW amount, AdjustBalance(h, a, amount) PROVE UsedWasGranted' /\ Copies'
  BY <1>3 DEF IInv, AdjustBalance, UsedWasGranted, Copies
<1>4. ASSUME NEW a, NEW op, Affiliate(h, a, op) PROVE UsedWasGranted' /\ Copies'
  <2> DEFINE j == [NoJob EXCEPT !.op = op, !.account = a, !.row = account[a]]
             p == IF account[a].aff THEN "rebates" ELSE "aff"
  <2>1. j.codes = NoJob.codes BY DEF NoJob
  <2>2. Begin(h, p, j) /\ p # "use" BY <1>4 DEF Affiliate
  <2> HIDE DEF j, p
  <2> QED BY <1>1, <2>1, <2>2, CopiesBegin
<1>5. ASSUME NEW a, EditRebates(h, a) PROVE UsedWasGranted' /\ Copies'
  <2> DEFINE j == [NoJob EXCEPT !.op = "rebate", !.account = a, !.sums = rebates]
  <2>1. j.codes = NoJob.codes BY DEF NoJob
  <2> QED BY <1>1, <1>5, <2>1, CopiesBegin DEF EditRebates
<1>6. ASSUME NEW a, NEW c, Redeem(h, a, c) PROVE UsedWasGranted' /\ Copies'
  <2> DEFINE j == [NoJob EXCEPT !.op = "redeem", !.account = a, !.code = c, !.row = account[a]]
  <2>1. j.codes = NoJob.codes BY DEF NoJob
  <2> QED BY <1>1, <1>6, <2>1, CopiesBegin DEF Redeem
<1>7. ASSUME NEW c, EditCodes(h, c) PROVE UsedWasGranted' /\ Copies'
  <2>1. \A d \in Codes : code[d] = "used" => granted[d] > 0 BY DEF IInv, UsedWasGranted
  <2> DEFINE j == [NoJob EXCEPT !.op = "issue", !.code = c, !.codes = code]
  <2>2. j.codes = code BY DEF NoJob
  <2> QED BY <1>7, <2>1, <2>2, CopiesBegin DEF EditCodes
<1> QED BY <1>2, <1>3, <1>4, <1>5, <1>6, <1>7 DEF Ask

LEMMA WorkGranted ==
    ASSUME IInv, NEW h \in Handlers, Work(h) PROVE UsedWasGranted' /\ Copies'
<1>0. LedgerTypeOK /\ Copies /\ UsedWasGranted /\ job[h] \in Jobs BY DEF IInv, LedgerTypeOK
<1>1. CASE Write(h)
  BY <1>0, <1>1, CopiesEnd DEF Write, UsedWasGranted, counts
<1>2. CASE LoadCodes(h)
  <2>1. UNCHANGED <<code, granted>> BY <1>2 DEF LoadCodes, stored, counts
  <2>2. UsedWasGranted' BY <1>0, <2>1 DEF UsedWasGranted
  <2>3. CASE Finish(h) BY <1>0, <2>1, <2>2, <2>3, CopiesEnd
  <2>4. CASE Goto(h, "grant") /\ Learn(h, [job[h] EXCEPT !.codes = code])
    <3> DEFINE j == [job[h] EXCEPT !.codes = code]
    <3>1. \A c \in Codes : j.codes[c] = "used" => granted'[c] > 0
      BY <1>0, <2>1 DEF UsedWasGranted, Jobs
    <3> QED BY <1>0, <2>1, <2>2, <2>4, <3>1, CopiesStep DEF Goto, Learn
  <2> QED BY <1>2, <2>3, <2>4 DEF LoadCodes
<1>3. CASE Grant(h)
  <2>1. job[h].code \in Codes BY <1>0, <1>3 DEF Grant, LedgerTypeOK
  <2>2. /\ \A c \in Codes : granted[c] > 0 => granted'[c] > 0
        /\ granted'[job[h].code] > 0
    BY <1>0, <1>3, <2>1 DEF Grant, LedgerTypeOK
  <2>3. UsedWasGranted' BY <1>0, <1>3, <2>2 DEF Grant, UsedWasGranted
  <2>4. job' = [job EXCEPT ![h] = job[h]] BY <1>0, <1>3 DEF Grant, LedgerTypeOK
  <2>5. \A c \in Codes : job[h].codes[c] = "used" => granted'[c] > 0
    BY <1>0, <2>2 DEF Copies
  <2>6. pc' = [pc EXCEPT ![h] = "use"] BY <1>3 DEF Grant, Goto
  <2>7. Copies' BY <1>0, <2>2, <2>4, <2>5, <2>6, CopiesStep
  <2> QED BY <2>3, <2>7
<1>4. CASE RefuseGrant(h)
  BY <1>0, <1>4, CopiesEnd DEF RefuseGrant, UsedWasGranted, stored, counts
<1>5. CASE Use(h)
  <2>1. granted[job[h].code] > 0 /\ \A c \in Codes : job[h].codes[c] = "used" => granted[c] > 0
    BY <1>0, <1>5 DEF Use, Copies
  <2>2. job[h].codes \in Buckets BY <1>0 DEF Jobs
  <2>3. UsedWasGranted' BY <1>5, <2>1, <2>2 DEF Use, UsedWasGranted, Buckets, counts
  <2> QED BY <1>0, <1>5, <2>3, CopiesEnd DEF Use, counts
<1>6. CASE AddAffiliateCode(h)
  <2>1. UNCHANGED <<code, granted>> BY <1>6 DEF AddAffiliateCode, counts
  <2>2. UsedWasGranted' BY <1>0, <2>1 DEF UsedWasGranted
  <2>3. CASE Finish(h) BY <1>0, <2>1, <2>2, <2>3, CopiesEnd
  <2>4. CASE Goto(h, "rebates") /\ UNCHANGED job
    BY <1>0, <2>1, <2>2, <2>4, CopiesKept DEF Goto
  <2> QED BY <1>6, <2>3, <2>4 DEF AddAffiliateCode
<1>7. CASE ReadRebates(h)
  <2> DEFINE j == [job[h] EXCEPT !.amount = rebates[job[h].account]]
  <2>1. UNCHANGED <<code, granted>> BY <1>7 DEF ReadRebates, stored, counts
  <2>2. \A c \in Codes : j.codes[c] = "used" => granted'[c] > 0
    BY <1>0, <2>1 DEF Copies, Jobs
  <2>3. Copies' BY <1>0, <1>7, <2>1, <2>2, CopiesStep DEF ReadRebates, Goto, Learn
  <2> QED BY <1>0, <2>1, <2>3 DEF UsedWasGranted
<1>8. CASE ReadTransfers(h)
  <2> DEFINE j == [job[h] EXCEPT !.amount = job[h].amount - transfers[job[h].account]]
  <2>1. UNCHANGED <<code, granted>> BY <1>8 DEF ReadTransfers, stored, counts
  <2>2. \A c \in Codes : j.codes[c] = "used" => granted'[c] > 0
    BY <1>0, <2>1 DEF Copies, Jobs
  <2>3. CASE Finish(h) BY <1>0, <2>1, <2>3, CopiesEnd DEF UsedWasGranted
  <2>4. CASE Goto(h, "pay") /\ Learn(h, j)
    BY <1>0, <2>1, <2>2, <2>4, CopiesStep DEF UsedWasGranted, Goto, Learn
  <2> QED BY <1>8, <2>3, <2>4 DEF ReadTransfers
<1>9. CASE Pay(h)
  <2>1. UNCHANGED <<code, granted, job>> BY <1>9 DEF Pay, counts
  <2> QED BY <1>0, <1>9, <2>1, CopiesKept DEF Pay, Goto, UsedWasGranted
<1>10. CASE LoadTransfers(h)
  <2> DEFINE j == [job[h] EXCEPT !.sums = transfers]
  <2>1. UNCHANGED <<code, granted>> BY <1>10 DEF LoadTransfers, stored, counts
  <2>2. \A c \in Codes : j.codes[c] = "used" => granted'[c] > 0
    BY <1>0, <2>1 DEF Copies, Jobs
  <2>3. Copies' BY <1>0, <1>10, <2>1, <2>2, CopiesStep DEF LoadTransfers, Goto, Learn
  <2> QED BY <1>0, <2>1, <2>3 DEF UsedWasGranted
<1>11. CASE RecordTransfer(h)
  BY <1>0, <1>11, CopiesEnd DEF RecordTransfer, UsedWasGranted, counts
<1>12. CASE SaveCodes(h)
  <2>1. \A c \in Codes : job[h].codes[c] = "used" => granted[c] > 0 BY <1>0 DEF Copies
  <2>2. job[h].codes \in Buckets BY <1>0 DEF Jobs
  <2>3. UsedWasGranted' BY <1>12, <2>1, <2>2 DEF SaveCodes, UsedWasGranted, Buckets
  <2> QED BY <1>0, <1>12, <2>3, CopiesEnd DEF SaveCodes
<1>13. CASE SaveRebates(h)
  BY <1>0, <1>13, CopiesEnd DEF SaveRebates, UsedWasGranted, counts
<1> QED BY <1>1, <1>2, <1>3, <1>4, <1>5, <1>6, <1>7, <1>8, <1>9, <1>10, <1>11, <1>12, <1>13
        DEF Work

\* The inductive invariant: the copies of the bucket that requests hold, and will
\* store, name no code as used that nobody was granted.
THEOREM LedgerInvariant == LedgerSpec => []IInv
<1>1. LedgerInit => IInv BY InitType DEF LedgerInit, IInv, UsedWasGranted, Copies, NoJob
<1>2. IInv /\ [LedgerNext]_ledgerVars => IInv'
  <2> SUFFICES ASSUME IInv, [LedgerNext]_ledgerVars PROVE IInv' OBVIOUS
  <2>1. LedgerTypeOK' BY NextType DEF IInv
  <2>2. UsedWasGranted' /\ Copies'
    <3>1. CASE Crash
      BY <3>1 DEF IInv, Crash, UsedWasGranted, Copies, NoJob, stored
    <3>2. CASE UNCHANGED ledgerVars
      BY <3>2 DEF IInv, ledgerVars, stored, counts, UsedWasGranted, Copies
    <3> QED BY <3>1, <3>2, AskGranted, WorkGranted DEF LedgerNext
  <2> QED BY <2>1, <2>2 DEF IInv
<1> QED BY <1>1, <1>2, PTL DEF LedgerSpec

\* A code is marked used only if what it is worth was granted, although redeemings
\* and edits store whole buckets that they read before.
THEOREM UsedGranted == LedgerSpec => []UsedWasGranted
<1>1. IInv => UsedWasGranted BY DEF IInv
<1> QED BY <1>1, LedgerInvariant, PTL
-----------------------------------------------------------------------------
LEMMA CodeStays ==
    ASSUME NEW h \in Handlers, CodePart(h), UNCHANGED <<code, granted, issued>>,
           pc[h] # "use", pc'[h] \notin {"grant", "use", "issue"}
    PROVE  CodePart(h)'
BY DEF CodePart, GrantedOnce

LEMMA QuotaStays ==
    ASSUME NEW h \in Handlers, LedgerTypeOK, QuotaPart(h), UNCHANGED <<paid, rebates, transfers>>,
           pc[h] \notin {"load", "record"},
           pc'[h] \notin {"transfers", "pay", "load", "record", "rebate"}
    PROVE  QuotaPart(h)'
BY DEF QuotaPart, PaidWithinRebates, Pending

LEMMA AskAlone ==
    ASSUME LedgerTypeOK, NEW h \in Handlers, CodePart(h), QuotaPart(h), Ask(h)
    PROVE  CodePart(h)' /\ QuotaPart(h)'
<1>0. pc[h] = "idle" /\ UNCHANGED <<code, granted, issued, paid, rebates, transfers>>
  BY DEF Ask, Update, AdjustBalance, Affiliate, EditRebates, Redeem, EditCodes, Begin, Arrive,
      stored
<1>1. ASSUME NEW p, NEW j, Begin(h, p, j) PROVE pc'[h] = p /\ job'[h] = j
  BY <1>1 DEF Begin, Arrive, Goto, Learn, LedgerTypeOK
<1>2. ASSUME NEW p, NEW j, Begin(h, p, j), p \in {"write", "codes", "aff", "rebates"}
      PROVE  CodePart(h)' /\ QuotaPart(h)'
  BY <1>0, <1>1, <1>2, CodeStays, QuotaStays
<1>3. ASSUME NEW a \in LedgerAccounts, NEW op, NEW amount, Update(h, a, op, amount)
      PROVE  CodePart(h)' /\ QuotaPart(h)'
  BY <1>2, <1>3 DEF Update
<1>4. ASSUME NEW a \in LedgerAccounts, NEW amount, AdjustBalance(h, a, amount)
      PROVE  CodePart(h)' /\ QuotaPart(h)'
  <2>1. pc'[h] = "idle" BY <1>0, <1>4 DEF AdjustBalance
  <2> QED BY <1>0, <2>1, CodeStays, QuotaStays
<1>5. ASSUME NEW a \in LedgerAccounts, NEW op, Affiliate(h, a, op)
      PROVE  CodePart(h)' /\ QuotaPart(h)'
  <2> DEFINE p == IF account[a].aff THEN "rebates" ELSE "aff"
             j == [NoJob EXCEPT !.op = op, !.account = a, !.row = account[a]]
  <2>1. Begin(h, p, j) /\ p \in {"write", "codes", "aff", "rebates"} BY <1>5 DEF Affiliate
  <2> HIDE DEF p, j
  <2> QED BY <1>2, <2>1
<1>6. ASSUME NEW a \in LedgerAccounts, EditRebates(h, a) PROVE CodePart(h)' /\ QuotaPart(h)'
  <2> DEFINE j == [NoJob EXCEPT !.op = "rebate", !.account = a, !.sums = rebates]
  <2>1. j.sums = rebates BY DEF NoJob
  <2>2. pc'[h] = "rebate" /\ job'[h].sums = rebates BY <1>1, <1>6, <2>1 DEF EditRebates
  <2>3. CodePart(h)' BY <1>0, <2>2, CodeStays
  <2>4. QuotaPart(h)' BY <1>0, <2>2 DEF QuotaPart, PaidWithinRebates, Pending
  <2> QED BY <2>3, <2>4
<1>7. ASSUME NEW a \in LedgerAccounts, NEW c \in Codes, Redeem(h, a, c)
      PROVE  CodePart(h)' /\ QuotaPart(h)'
  BY <1>2, <1>7 DEF Redeem
<1>8. ASSUME NEW c \in Codes, EditCodes(h, c) PROVE CodePart(h)' /\ QuotaPart(h)'
  <2> DEFINE j == [NoJob EXCEPT !.op = "issue", !.code = c, !.codes = code]
  <2>1. j.codes = code BY DEF NoJob
  <2>2. pc'[h] = "issue" /\ job'[h].codes = code BY <1>1, <1>8, <2>1 DEF EditCodes
  <2>3. QuotaPart(h)' BY <1>0, <2>2, QuotaStays
  <2>4. CodePart(h)' BY <1>0, <2>2 DEF CodePart, GrantedOnce
  <2> QED BY <2>3, <2>4
<1> QED BY <1>3, <1>4, <1>5, <1>6, <1>7, <1>8 DEF Ask

\* Moving to another place, and ending.
LEMMA Moves ==
    ASSUME LedgerTypeOK, NEW h \in Handlers
    PROVE  /\ \A p : Goto(h, p) => pc'[h] = p
           /\ \A j : Learn(h, j) => job'[h] = j
           /\ Finish(h) => pc'[h] = "idle"
BY DEF LedgerTypeOK, Goto, Learn, Finish

LEMMA RedeemAlone ==
    ASSUME LedgerTypeOK, NEW h \in Handlers, CodePart(h),
           LoadCodes(h) \/ Grant(h) \/ Use(h) \/ SaveCodes(h)
    PROVE  CodePart(h)'
<1>0. job[h] \in Jobs /\ code \in Buckets /\ granted \in [Codes -> Nat]
      /\ issued \in [Codes -> Nat]
  BY DEF LedgerTypeOK
<1>1. CASE LoadCodes(h)
  <2> DEFINE j == [job[h] EXCEPT !.codes = code]
  <2>1. pc[h] = "codes" /\ UNCHANGED <<code, granted, issued>>
    BY <1>1 DEF LoadCodes, stored, counts
  <2>2. CASE code[job[h].code] = "active"
    <3>1. pc'[h] = "grant" /\ job'[h] = j BY <1>1, <2>2, Moves DEF LoadCodes
    <3>2. j.codes = code /\ j.code = job[h].code BY <1>0 DEF Jobs
    <3> HIDE DEF j
    <3> QED BY <2>1, <2>2, <3>1, <3>2 DEF CodePart, GrantedOnce
  <2>3. CASE code[job[h].code] # "active"
    BY <1>1, <2>1, <2>3, Moves, CodeStays DEF LoadCodes
  <2> QED BY <2>2, <2>3
<1>2. CASE Grant(h)
  <2> DEFINE c == job[h].code
  <2>1. pc[h] = "grant" /\ pc'[h] = "use" /\ c \in Codes BY <1>2, Moves DEF Grant, LedgerTypeOK
  <2>2. UNCHANGED <<code, issued, job>> /\ granted' = [granted EXCEPT ![c] = @ + 1]
    BY <1>2 DEF Grant
  <2>3. granted[c] < issued[c] /\ job[h].codes = code BY <2>1 DEF CodePart
  <2>4. granted'[c] = granted[c] + 1 /\ \A d \in Codes : d # c => granted'[d] = granted[d]
    BY <1>0, <2>1, <2>2
  <2>5. GrantedOnce' BY <1>0, <2>2, <2>3, <2>4 DEF GrantedOnce, CodePart
  <2>6. \A d \in Codes :
            code'[d] = "active" /\ ~(pc'[h] = "use" /\ job'[h].code = d) => granted'[d] < issued'[d]
    BY <2>1, <2>2, <2>4 DEF CodePart
  <2> QED BY <2>1, <2>2, <2>3, <2>5, <2>6 DEF CodePart
<1>3. CASE Use(h)
  <2> DEFINE c == job[h].code
  <2>1. pc[h] = "use" /\ pc'[h] = "idle" /\ c \in Codes BY <1>3, Moves DEF Use, LedgerTypeOK
  <2>2. code' = [code EXCEPT ![c] = "used"] /\ UNCHANGED <<granted, issued>>
    BY <1>3, <2>1 DEF Use, CodePart, counts
  <2>3. \A d \in Codes : code'[d] = "active" => d # c /\ code[d] = "active"
    BY <1>0, <2>1, <2>2 DEF Buckets
  <2> QED BY <2>1, <2>2, <2>3 DEF CodePart, GrantedOnce
<1>4. CASE SaveCodes(h)
  <2> DEFINE c == job[h].code
  <2>1. pc[h] = "issue" /\ pc'[h] = "idle" /\ c \in Codes
    BY <1>4, Moves DEF SaveCodes, LedgerTypeOK
  <2>2. /\ code' = [code EXCEPT ![c] = "active"] /\ granted' = granted
        /\ issued' = [issued EXCEPT ![c] = @ + 1]
    BY <1>4, <2>1 DEF SaveCodes, CodePart
  <2>3. granted[c] <= issued[c] BY <2>1 DEF CodePart, GrantedOnce
  <2>4. granted'[c] < issued'[c] BY <1>0, <2>1, <2>2, <2>3
  <2>5. \A d \in Codes : d # c => /\ code'[d] = code[d] /\ issued'[d] = issued[d]
                                  /\ granted'[d] = granted[d]
    BY <1>0, <2>2 DEF Buckets
  <2>6. GrantedOnce' BY <1>0, <2>2, <2>4, <2>5 DEF GrantedOnce, CodePart
  <2>7. \A d \in Codes : code'[d] = "active" => granted'[d] < issued'[d]
    BY <2>1, <2>4, <2>5 DEF CodePart
  <2> QED BY <2>1, <2>6, <2>7 DEF CodePart
<1> QED BY <1>1, <1>2, <1>3, <1>4

LEMMA TransferAlone ==
    ASSUME LedgerTypeOK, NEW h \in Handlers, QuotaPart(h),
           \/ ReadRebates(h) \/ ReadTransfers(h) \/ Pay(h) \/ LoadTransfers(h)
           \/ RecordTransfer(h) \/ SaveRebates(h)
    PROVE  QuotaPart(h)'
<1> DEFINE a == job[h].account
<1>0. job[h] \in Jobs /\ paid \in Sums /\ rebates \in Sums /\ transfers \in Sums
      /\ job[h].amount \in Nat
  BY DEF LedgerTypeOK, Jobs
<1>1. CASE ReadRebates(h)
  <2> DEFINE j == [job[h] EXCEPT !.amount = rebates[a]]
  <2>1. pc[h] = "rebates" /\ pc'[h] = "transfers" /\ job'[h] = j
        /\ UNCHANGED <<paid, rebates, transfers>>
    BY <1>1, Moves DEF ReadRebates, stored
  <2>2. j.amount = rebates[a] /\ j.account = a BY <1>0 DEF Jobs
  <2> HIDE DEF j
  <2> QED BY <2>1, <2>2 DEF QuotaPart, PaidWithinRebates, Pending
<1>2. CASE ReadTransfers(h)
  <2> DEFINE d == job[h].amount - transfers[a]
             j == [job[h] EXCEPT !.amount = d]
  <2>1. pc[h] = "transfers" /\ UNCHANGED <<paid, rebates, transfers>> /\ a \in LedgerAccounts
    BY <1>2 DEF ReadTransfers, stored, LedgerTypeOK
  <2>2. CASE d > 0
    <3>1. pc'[h] = "pay" /\ job'[h] = j BY <1>2, <2>2, Moves DEF ReadTransfers
    <3>2. j.amount = d /\ j.account = a BY <1>0 DEF Jobs
    <3>3. transfers[a] + d = rebates[a] BY <1>0, <2>1 DEF QuotaPart, Sums
    <3> HIDE DEF j, d
    <3>4. transfers[a] + d <= rebates[a] BY <1>0, <2>1, <3>3 DEF Sums
    <3> QED BY <2>1, <3>1, <3>2, <3>4 DEF QuotaPart, PaidWithinRebates, Pending
  <2>3. CASE ~(d > 0)
    <3>1. pc'[h] = "idle" BY <1>2, <2>3, Moves DEF ReadTransfers
    <3> QED BY <2>1, <3>1, QuotaStays
  <2> QED BY <2>2, <2>3
<1>3. CASE Pay(h)
  <2>1. pc[h] = "pay" /\ pc'[h] = "load" /\ a \in LedgerAccounts
    BY <1>3, Moves DEF Pay, LedgerTypeOK
  <2>2. paid' = [paid EXCEPT ![a] = @ + job[h].amount] /\ UNCHANGED <<rebates, transfers, job>>
    BY <1>3 DEF Pay
  <2>3. paid'[a] = paid[a] + job[h].amount
        /\ \A b \in LedgerAccounts : b # a => paid'[b] = paid[b]
    BY <1>0, <2>1, <2>2 DEF Sums
  <2>4. \A b \in LedgerAccounts : transfers[b] + 0 = paid[b] BY <2>1 DEF QuotaPart, Pending
  <2>5. \A b \in LedgerAccounts : transfers'[b] + Pending(h, b)' = paid'[b]
    BY <1>0, <2>1, <2>2, <2>3, <2>4 DEF Pending, Sums
  <2>6. paid'[a] <= rebates[a] BY <1>0, <2>1, <2>3, <2>4 DEF QuotaPart, Sums
  <2>7. PaidWithinRebates' BY <2>2, <2>3, <2>6 DEF PaidWithinRebates, QuotaPart
  <2> QED BY <2>1, <2>5, <2>7 DEF QuotaPart
<1>4. CASE LoadTransfers(h)
  <2> DEFINE j == [job[h] EXCEPT !.sums = transfers]
  <2>1. pc[h] = "load" /\ pc'[h] = "record" /\ job'[h] = j
        /\ UNCHANGED <<paid, rebates, transfers>>
    BY <1>4, Moves DEF LoadTransfers, stored
  <2>2. j.sums = transfers /\ j.amount = job[h].amount /\ j.account = a BY <1>0 DEF Jobs
  <2> HIDE DEF j
  <2>3. \A b \in LedgerAccounts : Pending(h, b)' = Pending(h, b) BY <2>1, <2>2 DEF Pending
  <2> QED BY <2>1, <2>2, <2>3 DEF QuotaPart, PaidWithinRebates
<1>5. CASE RecordTransfer(h)
  <2>1. pc[h] = "record" /\ pc'[h] = "idle" /\ a \in LedgerAccounts
    BY <1>5, Moves DEF RecordTransfer, LedgerTypeOK
  <2>2. transfers' = [transfers EXCEPT ![a] = @ + job[h].amount] /\ UNCHANGED <<paid, rebates>>
    BY <1>5, <2>1 DEF RecordTransfer, QuotaPart
  <2>3. \A b \in LedgerAccounts : transfers'[b] = transfers[b] + Pending(h, b)
    BY <1>0, <2>1, <2>2 DEF Pending, Sums
  <2>4. \A b \in LedgerAccounts : transfers'[b] + Pending(h, b)' = paid'[b]
    BY <1>0, <2>1, <2>2, <2>3 DEF QuotaPart, Pending, Sums
  <2> QED BY <2>1, <2>2, <2>4 DEF QuotaPart, PaidWithinRebates
<1>6. CASE SaveRebates(h)
  <2>1. pc[h] = "rebate" /\ pc'[h] = "idle" /\ a \in LedgerAccounts
    BY <1>6, Moves DEF SaveRebates, LedgerTypeOK
  <2>2. rebates' = [rebates EXCEPT ![a] = @ + 1] /\ UNCHANGED <<paid, transfers>>
    BY <1>6, <2>1 DEF SaveRebates, QuotaPart
  <2>3. PaidWithinRebates' BY <1>0, <2>2 DEF PaidWithinRebates, QuotaPart, Sums
  <2>4. \A b \in LedgerAccounts : Pending(h, b)' = 0 /\ Pending(h, b) = 0 BY <2>1 DEF Pending
  <2> QED BY <2>1, <2>2, <2>3, <2>4 DEF QuotaPart
<1> QED BY <1>1, <1>2, <1>3, <1>4, <1>5, <1>6

LEMMA WorkAlone ==
    ASSUME LedgerTypeOK, NEW h \in Handlers, CodePart(h), QuotaPart(h), Work(h)
    PROVE  CodePart(h)' /\ QuotaPart(h)'
<1>1. CASE LoadCodes(h) \/ Grant(h) \/ Use(h) \/ SaveCodes(h)
  <2>1. /\ pc[h] \in {"codes", "grant", "use", "issue"}
        /\ pc'[h] \in {"grant", "use", "idle"}
        /\ UNCHANGED <<paid, rebates, transfers>>
    BY <1>1, Moves DEF LoadCodes, Grant, Use, SaveCodes, stored
  <2> QED BY <1>1, <2>1, RedeemAlone, QuotaStays
<1>2. CASE \/ ReadRebates(h) \/ ReadTransfers(h) \/ Pay(h) \/ LoadTransfers(h)
           \/ RecordTransfer(h) \/ SaveRebates(h)
  <2>1. /\ pc[h] \in {"rebates", "transfers", "pay", "load", "record", "rebate"}
        /\ pc'[h] \in {"transfers", "pay", "load", "record", "idle"}
        /\ UNCHANGED <<code, granted, issued>>
    BY <1>2, Moves DEF ReadRebates, ReadTransfers, Pay, LoadTransfers, RecordTransfer,
                       SaveRebates, stored, counts
  <2> QED BY <1>2, <2>1, TransferAlone, CodeStays
<1>3. CASE Write(h) \/ RefuseGrant(h) \/ AddAffiliateCode(h)
  <2>1. /\ pc[h] \in {"write", "grant", "aff"} /\ pc'[h] \in {"idle", "rebates"}
        /\ UNCHANGED <<code, granted, issued, paid, rebates, transfers>>
    BY <1>3, Moves DEF Write, RefuseGrant, AddAffiliateCode, stored, counts
  <2> QED BY <2>1, CodeStays, QuotaStays
<1> QED BY <1>1, <1>2, <1>3 DEF Work

\* A step of one thread leaves the others where they are, and as long as requests do
\* not overlap the others are idle.
LEMMA StepAlone ==
    ASSUME LedgerTypeOK, Apart, NEW h \in Handlers, Ask(h) \/ Work(h)
    PROVE  /\ crashes' = crashes
           /\ \A g \in Handlers : g # h => pc'[g] = pc[g] /\ job'[g] = job[g]
           /\ ~overlapped' => ~overlapped /\ OthersIdle(h)
           /\ Apart'
<1>1. CASE Ask(h)
  <2>1. Arrive(h) /\ crashes' = crashes
    BY <1>1 DEF Ask, Update, AdjustBalance, Affiliate, EditRebates, Redeem, EditCodes, Begin
  <2>2. \A g \in Handlers : g # h => pc'[g] = pc[g] /\ job'[g] = job[g]
    BY <1>1 DEF Ask, Update, AdjustBalance, Affiliate, EditRebates, Redeem, EditCodes, Begin, Goto,
                Learn, LedgerTypeOK
  <2>3. ~overlapped' => ~overlapped /\ OthersIdle(h) BY <2>1 DEF Arrive, OthersIdle
  <2> QED BY <2>1, <2>2, <2>3 DEF Apart, OthersIdle
<1>2. CASE Work(h)
  <2>1. overlapped' = overlapped /\ crashes' = crashes /\ pc[h] # "idle"
    BY <1>2 DEF Work, Write, LoadCodes, Grant, RefuseGrant, Use, AddAffiliateCode, ReadRebates,
                ReadTransfers, Pay, LoadTransfers, RecordTransfer, SaveCodes, SaveRebates, counts
  <2>2. \A g \in Handlers : g # h => pc'[g] = pc[g] /\ job'[g] = job[g]
    BY <1>2 DEF Work, Write, LoadCodes, Grant, RefuseGrant, Use, AddAffiliateCode,
                ReadRebates, ReadTransfers, Pay, LoadTransfers, RecordTransfer, SaveCodes,
                SaveRebates, Goto, Learn, Finish, LedgerTypeOK
  <2> QED BY <2>1, <2>2 DEF Apart, OthersIdle
<1> QED BY <1>1, <1>2

\* As long as requests do not overlap and the process is not killed, a code is granted
\* at most once for each time it was made active, and no more than the rebates is paid.
THEOREM OneAtATime == LedgerSpec => []OnceInTurn
<1>1. LedgerInit => SInv
  BY InitType DEF LedgerInit, SInv, Apart, InTurn, OthersIdle, CodePart, QuotaPart, GrantedOnce,
                  PaidWithinRebates, Pending, Zero
<1>2. SInv /\ [LedgerNext]_ledgerVars => SInv'
  <2> SUFFICES ASSUME SInv, [LedgerNext]_ledgerVars PROVE SInv' OBVIOUS
  <2>1. LedgerTypeOK /\ LedgerTypeOK' BY NextType DEF SInv
  <2>2. CASE Crash
    BY <2>1, <2>2 DEF SInv, Apart, InTurn, Crash, LedgerTypeOK
  <2>3. CASE UNCHANGED ledgerVars
    BY <2>1, <2>3 DEF SInv, Apart, ledgerVars, stored, counts, InTurn, OthersIdle, CodePart,
        QuotaPart,
                 GrantedOnce, PaidWithinRebates, Pending
  <2>4. ASSUME NEW h \in Handlers, Ask(h) \/ Work(h), InTurn'
        PROVE  /\ GrantedOnce' /\ PaidWithinRebates'
               /\ \A g \in Handlers : OthersIdle(g)' => CodePart(g)' /\ QuotaPart(g)'
    <3>1. InTurn /\ OthersIdle(h) /\ OthersIdle(h)'
      BY <2>4, StepAlone DEF SInv, InTurn, OthersIdle
    <3>2. CodePart(h)' /\ QuotaPart(h)'
      BY <2>1, <2>4, <3>1, AskAlone, WorkAlone DEF SInv
    <3>3. ASSUME NEW g \in Handlers, g # h, OthersIdle(g)' PROVE CodePart(g)' /\ QuotaPart(g)'
      <4>1. pc'[g] = "idle" /\ pc'[h] = "idle" BY <3>1, <3>3 DEF OthersIdle
      <4> QED BY <3>2, <4>1 DEF CodePart, QuotaPart, Pending
    <3> QED BY <3>2, <3>3 DEF CodePart, QuotaPart
  <2>5. \A h \in Handlers : Ask(h) \/ Work(h) => Apart' BY StepAlone DEF SInv
  <2> QED BY <2>1, <2>2, <2>3, <2>4, <2>5 DEF SInv, LedgerNext
<1>3. SInv => OnceInTurn
  BY DEF SInv, InTurn, OnceInTurn
<1> QED BY <1>1, <1>2, <1>3, PTL DEF LedgerSpec
-----------------------------------------------------------------------------
\* Transfers of one account may overlap, and each stores the sums that it read: a
\* record can be undone by another, but nothing is recorded that was not paid.  The
\* units that were ever paid to an account are 1..paid[a].  A thread that has been
\* paid and has not recorded it owns the units it was paid, apart from those that
\* are recorded and from those in the sums that any thread is about to store.
Owing(h) == pc[h] \in {"load", "record"}
Storing(h) == pc[h] = "record"

\* U are n of the units up to top.
Units(U, n, top) == U \subseteq 1..top /\ Cardinality(U) = n

\* done: the recorded units; own: those that a thread owns; seen: those in its sums
Owned(done, own, seen) ==
    /\ \A a \in LedgerAccounts : Units(done[a], transfers[a], paid[a])
    /\ \A h \in Handlers : Owing(h) =>
           LET a == job[h].account
           IN  /\ Units(own[h], job[h].amount, paid[a])
               /\ own[h] \cap done[a] = {}
               /\ \A k \in Handlers : Owing(k) /\ k # h /\ job[k].account = a =>
                                          own[h] \cap own[k] = {}
               /\ \A k \in Handlers : Storing(k) => own[h] \cap seen[k][a] = {}
    /\ \A h \in Handlers : Storing(h) =>
           \A a \in LedgerAccounts : Units(seen[h][a], job[h].sums[a], paid[a])

RInv == \E done \in [LedgerAccounts -> SUBSET Nat], own \in [Handlers -> SUBSET Nat],
           seen \in [Handlers -> [LedgerAccounts -> SUBSET Nat]] : Owned(done, own, seen)

\* Sets of units that are apart add up.
LEMMA UnitsAdd ==
    ASSUME NEW top \in Nat, NEW U, NEW V, NEW m, NEW n,
           Units(U, m, top), Units(V, n, top), U \cap V = {}
    PROVE  Units(U \cup V, m + n, top)
<1>1. IsFiniteSet(1..top) BY FS_Interval
<1>2. IsFiniteSet(U) /\ IsFiniteSet(V) BY <1>1, FS_Subset DEF Units
<1>3. Cardinality(U \cup V) = Cardinality(U) + Cardinality(V) - Cardinality({})
  BY <1>2, FS_Union
<1>4. Cardinality(U) \in Nat /\ Cardinality(V) \in Nat BY <1>2, FS_CardinalityType
<1>5. Cardinality(U \cup V) = m + n BY <1>3, <1>4, FS_EmptySet DEF Units
<1> QED BY <1>5 DEF Units

\* The owners keep what they own while nobody else is paid or records.
LEMMA OwnersStay ==
    ASSUME RInv, UNCHANGED <<paid, transfers>>,
           \A h \in Handlers : Owing(h)' =>
               /\ Owing(h) /\ job'[h] = job[h]
               /\ Storing(h)' => Storing(h)
    PROVE  RInv'
<1>1. PICK done \in [LedgerAccounts -> SUBSET Nat], own \in [Handlers -> SUBSET Nat],
           seen \in [Handlers -> [LedgerAccounts -> SUBSET Nat]] : Owned(done, own, seen)
  BY DEF RInv
<1>2. \A h \in Handlers : Storing(h)' => Storing(h) /\ job'[h] = job[h]
  BY DEF Owing, Storing
<1>3. Owned(done, own, seen)' BY <1>1, <1>2 DEF Owned
<1> QED BY <1>3 DEF RInv

\* The account is paid: the thread owns the new units.
LEMMA PayOwned == ASSUME LedgerTypeOK, RInv, NEW h \in Handlers, Pay(h) PROVE RInv'
<1>0. PICK a, n, new : /\ a = job[h].account /\ n = job[h].amount
                       /\ new = (paid[a] + 1)..(paid[a] + n)
  OBVIOUS
<1>1. /\ pc[h] = "pay" /\ pc' = [pc EXCEPT ![h] = "load"]
      /\ paid' = [paid EXCEPT ![a] = @ + n] /\ UNCHANGED <<transfers, job>>
  BY <1>0 DEF Pay, Goto
<1>2. a \in LedgerAccounts /\ n \in Nat /\ paid[a] \in Nat /\ paid \in [LedgerAccounts -> Nat]
  BY <1>0, <1>1 DEF LedgerTypeOK, Jobs, Sums
<1>3. PICK done \in [LedgerAccounts -> SUBSET Nat], own \in [Handlers -> SUBSET Nat],
           seen \in [Handlers -> [LedgerAccounts -> SUBSET Nat]] : Owned(done, own, seen)
  BY DEF RInv
<1>4. new \subseteq 1..paid'[a] /\ new \cap (1..paid[a]) = {} /\ new \in SUBSET Nat
  BY <1>0, <1>1, <1>2
<1>5. Cardinality(new) = n
  <2>1. paid[a] + 1 \in Int /\ paid[a] + n \in Int BY <1>2
  <2>2. Cardinality(new) = IF paid[a] + 1 > paid[a] + n THEN 0
                           ELSE (paid[a] + n) - (paid[a] + 1) + 1
    BY <1>0, <2>1, FS_Interval
  <2> QED BY <1>2, <2>2
<1>6. PICK own2 \in [Handlers -> SUBSET Nat] : own2 = [own EXCEPT ![h] = new] BY <1>4
<1>7. \A b \in LedgerAccounts : paid'[b] \in Nat /\ 1..paid[b] \subseteq 1..paid'[b] BY <1>1, <1>2
<1>8. /\ Owing(h)' /\ ~Owing(h) /\ ~Storing(h)'
      /\ \A k \in Handlers : k # h => (Owing(k)' <=> Owing(k)) /\ (Storing(k)' <=> Storing(k))
  BY <1>1 DEF Owing, Storing, LedgerTypeOK
<1>9. \A U, m : \A b \in LedgerAccounts : Units(U, m, paid[b]) => Units(U, m, paid'[b])
  BY <1>7 DEF Units
<1>10. Units(new, n, paid'[a]) BY <1>4, <1>5 DEF Units
<1>11. own2[h] = new /\ \A k \in Handlers : k # h => own2[k] = own[k] BY <1>6
<1>12. \A k \in Handlers : Owing(k) => job[k].account \in LedgerAccounts
  BY DEF Owing, LedgerTypeOK
<1>13. \A b \in LedgerAccounts : Units(done[b], transfers'[b], paid'[b])
  BY <1>1, <1>3, <1>9 DEF Owned
<1>14. \A k \in Handlers : Storing(k)' =>
           \A b \in LedgerAccounts : Units(seen[k][b], job'[k].sums[b], paid'[b])
  BY <1>1, <1>3, <1>8, <1>9 DEF Owned
<1>15. /\ new \cap done[a] = {}
       /\ \A k \in Handlers : Owing(k) /\ job[k].account = a => new \cap own[k] = {}
       /\ \A k \in Handlers : Storing(k) => new \cap seen[k][a] = {}
  BY <1>2, <1>3, <1>4 DEF Owned, Units
<1>16. ASSUME NEW k \in Handlers, Owing(k)'
       PROVE  LET b == job'[k].account
              IN  /\ Units(own2[k], job'[k].amount, paid'[b])
                  /\ own2[k] \cap done[b] = {}
                  /\ \A g \in Handlers : Owing(g)' /\ g # k /\ job'[g].account = b =>
                                             own2[k] \cap own2[g] = {}
                  /\ \A g \in Handlers : Storing(g)' => own2[k] \cap seen[g][b] = {}
  <2>1. CASE k = h BY <1>0, <1>1, <1>8, <1>10, <1>11, <1>15, <2>1
  <2>2. CASE k # h
    <3>1. Owing(k) /\ own2[k] = own[k] BY <1>8, <1>11, <1>16, <2>2
    <3>2. job[k].account \in LedgerAccounts BY <1>12, <3>1
    <3>3. /\ Units(own[k], job[k].amount, paid[job[k].account])
          /\ own[k] \cap done[job[k].account] = {}
          /\ \A g \in Handlers : Owing(g) /\ g # k /\ job[g].account = job[k].account =>
                                     own[k] \cap own[g] = {}
          /\ \A g \in Handlers : Storing(g) => own[k] \cap seen[g][job[k].account] = {}
      BY <1>3, <3>1 DEF Owned
    <3>4. Units(own[k], job[k].amount, paid'[job[k].account]) BY <1>9, <3>2, <3>3
    <3>5. job[k].account = a => own[k] \cap new = {} BY <1>15, <3>1
    <3>6. \A g \in Handlers : Owing(g)' /\ g # k /\ job[g].account = job[k].account =>
                                   own2[k] \cap own2[g] = {}
      BY <1>0, <1>8, <1>11, <3>1, <3>3, <3>5
    <3>7. \A g \in Handlers : Storing(g)' => own2[k] \cap seen[g][job[k].account] = {}
      BY <1>8, <3>1, <3>3
    <3>8. UNCHANGED job BY <1>1
    <3> QED BY <3>1, <3>3, <3>4, <3>6, <3>7, <3>8
  <2> QED BY <2>1, <2>2
<1>17. Owned(done, own2, seen)' BY <1>13, <1>14, <1>16 DEF Owned
<1> QED BY <1>6, <1>17 DEF RInv

\* The sums that the thread will store are those that are recorded.
LEMMA LoadOwned == ASSUME LedgerTypeOK, RInv, NEW h \in Handlers, LoadTransfers(h) PROVE RInv'
<1>1. /\ pc[h] = "load" /\ pc'[h] = "record" /\ UNCHANGED <<paid, transfers>>
      /\ job'[h] = [job[h] EXCEPT !.sums = transfers]
      /\ \A k \in Handlers : k # h => pc'[k] = pc[k] /\ job'[k] = job[k]
  BY DEF LoadTransfers, Goto, Learn, stored, LedgerTypeOK
<1>2. /\ job'[h].sums = transfers /\ job'[h].account = job[h].account
      /\ job'[h].amount = job[h].amount
  BY <1>1 DEF LedgerTypeOK, Jobs
<1>3. PICK done \in [LedgerAccounts -> SUBSET Nat], own \in [Handlers -> SUBSET Nat],
           seen \in [Handlers -> [LedgerAccounts -> SUBSET Nat]] : Owned(done, own, seen)
  BY DEF RInv
<1>4. PICK seen2 \in [Handlers -> [LedgerAccounts -> SUBSET Nat]] :
          seen2[h] = done /\ \A k \in Handlers : k # h => seen2[k] = seen[k]
  <2>1. [seen EXCEPT ![h] = done] \in [Handlers -> [LedgerAccounts -> SUBSET Nat]] OBVIOUS
  <2> QED BY <2>1
<1>5. /\ Owing(h) /\ Owing(h)'
      /\ \A k \in Handlers : k # h => (Owing(k)' <=> Owing(k)) /\ (Storing(k)' <=> Storing(k))
  BY <1>1 DEF Owing, Storing
<1>6. \A k \in Handlers : /\ Owing(k)' <=> Owing(k)
                          /\ job'[k].account = job[k].account
                          /\ job'[k].amount = job[k].amount
  BY <1>1, <1>2, <1>5
<1>8. \A b \in LedgerAccounts : Units(done[b], transfers'[b], paid'[b]) BY <1>1, <1>3 DEF Owned
<1>9. \A k \in Handlers : Storing(k)' =>
          \A b \in LedgerAccounts : Units(seen2[k][b], job'[k].sums[b], paid'[b])
  BY <1>1, <1>2, <1>3, <1>4, <1>5 DEF Owned
<1>10. ASSUME NEW k \in Handlers, Owing(k)'
       PROVE  LET b == job'[k].account
              IN  /\ Units(own[k], job'[k].amount, paid'[b])
                  /\ own[k] \cap done[b] = {}
                  /\ \A g \in Handlers : Owing(g)' /\ g # k /\ job'[g].account = b =>
                                             own[k] \cap own[g] = {}
                  /\ \A g \in Handlers : Storing(g)' => own[k] \cap seen2[g][b] = {}
  BY <1>1, <1>3, <1>4, <1>5, <1>6, <1>10 DEF Owned
<1>11. Owned(done, own, seen2)' BY <1>8, <1>9, <1>10 DEF Owned
<1> QED BY <1>4, <1>11 DEF RInv

\* What is recorded then are the units in the sums and those of the thread.
LEMMA RecordOwned == ASSUME LedgerTypeOK, RInv, NEW h \in Handlers, RecordTransfer(h) PROVE RInv'
<1>0. PICK a : a = job[h].account OBVIOUS
<1>1. /\ pc[h] = "record" /\ pc'[h] = "idle" /\ UNCHANGED paid
      /\ transfers' = [job[h].sums EXCEPT ![a] = @ + job[h].amount]
      /\ \A k \in Handlers : k # h => pc'[k] = pc[k] /\ job'[k] = job[k]
  BY <1>0 DEF RecordTransfer, Finish, Goto, Learn, LedgerTypeOK
<1>2. a \in LedgerAccounts /\ job[h].sums \in Sums /\ paid[a] \in Nat
  BY <1>0, <1>1 DEF LedgerTypeOK, Jobs, Sums
<1>3. PICK done \in [LedgerAccounts -> SUBSET Nat], own \in [Handlers -> SUBSET Nat],
           seen \in [Handlers -> [LedgerAccounts -> SUBSET Nat]] : Owned(done, own, seen)
  BY DEF RInv
<1>4. PICK done2 \in [LedgerAccounts -> SUBSET Nat] :
          /\ done2[a] = seen[h][a] \cup own[h]
          /\ \A b \in LedgerAccounts : b # a => done2[b] = seen[h][b]
  <2>1. [seen[h] EXCEPT ![a] = seen[h][a] \cup own[h]] \in [LedgerAccounts -> SUBSET Nat] BY <1>2
  <2> QED BY <1>2, <2>1
<1>5. /\ Owing(h) /\ Storing(h) /\ ~Owing(h)' /\ ~Storing(h)'
      /\ \A k \in Handlers : k # h => (Owing(k)' <=> Owing(k)) /\ (Storing(k)' <=> Storing(k))
  BY <1>1 DEF Owing, Storing
<1>7. \A b \in LedgerAccounts : Units(seen[h][b], job[h].sums[b], paid[b]) BY <1>3, <1>5 DEF Owned
<1>8. Units(own[h], job[h].amount, paid[a]) /\ own[h] \cap seen[h][a] = {}
  BY <1>0, <1>3, <1>5 DEF Owned
<1>9. ASSUME NEW b \in LedgerAccounts PROVE Units(done2[b], transfers'[b], paid'[b])
  <2>1. CASE b = a
    <3>1. transfers'[b] = job[h].sums[a] + job[h].amount BY <1>1, <1>2, <2>1 DEF Sums
    <3>2. Units(seen[h][a] \cup own[h], job[h].sums[a] + job[h].amount, paid[a])
      BY <1>2, <1>7, <1>8, UnitsAdd
    <3> QED BY <1>1, <1>4, <2>1, <3>1, <3>2
  <2>2. CASE b # a
    <3>1. transfers'[b] = job[h].sums[b] BY <1>1, <1>2, <2>2 DEF Sums
    <3> QED BY <1>1, <1>4, <1>7, <2>2, <3>1
  <2> QED BY <2>1, <2>2
<1>10. ASSUME NEW k \in Handlers, Owing(k)' PROVE k # h /\ own[k] \cap done2[job[k].account] = {}
  <2>1. k # h /\ Owing(k) BY <1>5, <1>10
  <2>2. job[k].account \in LedgerAccounts BY <2>1 DEF Owing, LedgerTypeOK
  <2>3. own[k] \cap seen[h][job[k].account] = {} BY <1>3, <1>5, <2>1 DEF Owned
  <2>4. job[k].account = a => own[k] \cap own[h] = {}
    BY <1>0, <1>3, <1>5, <2>1 DEF Owned
  <2> QED BY <1>4, <2>1, <2>2, <2>3, <2>4
<1>11. ASSUME NEW k \in Handlers, Owing(k)'
       PROVE  LET b == job'[k].account
              IN  /\ Units(own[k], job'[k].amount, paid'[b])
                  /\ own[k] \cap done2[b] = {}
                  /\ \A g \in Handlers : Owing(g)' /\ g # k /\ job'[g].account = b =>
                                             own[k] \cap own[g] = {}
                  /\ \A g \in Handlers : Storing(g)' => own[k] \cap seen[g][b] = {}
  <2>1. k # h /\ Owing(k) /\ job'[k] = job[k] BY <1>1, <1>5, <1>10, <1>11
  <2>2. \A g \in Handlers : Owing(g)' => Owing(g) /\ job'[g] = job[g] BY <1>1, <1>5
  <2>3. \A g \in Handlers : Storing(g)' => Storing(g) BY <1>5
  <2> QED BY <1>1, <1>3, <1>10, <1>11, <2>1, <2>2, <2>3 DEF Owned
<1>12. \A k \in Handlers : Storing(k)' =>
           \A b \in LedgerAccounts : Units(seen[k][b], job'[k].sums[b], paid'[b])
  BY <1>1, <1>3, <1>5 DEF Owned
<1>13. Owned(done2, own, seen)' BY <1>9, <1>11, <1>12 DEF Owned
<1> QED BY <1>4, <1>13 DEF RInv

\* Every other step leaves the owners alone.
LEMMA OthersOwned ==
    ASSUME LedgerTypeOK, RInv, NEW h \in Handlers, Ask(h) \/ Work(h),
           ~Pay(h), ~LoadTransfers(h), ~RecordTransfer(h)
    PROVE  RInv'
<1>1. UNCHANGED <<paid, transfers>>
  BY DEF Ask, Work, Update, AdjustBalance, Affiliate, EditRebates, Redeem, EditCodes, Begin, Write,
         LoadCodes, Grant, RefuseGrant, Use, AddAffiliateCode, ReadRebates, ReadTransfers,
         SaveCodes, SaveRebates, stored, counts
<1>2. \A k \in Handlers : k # h => pc'[k] = pc[k] /\ job'[k] = job[k]
  BY DEF Ask, Work, Update, AdjustBalance, Affiliate, EditRebates, Redeem, EditCodes, Begin, Write,
         LoadCodes, Grant, RefuseGrant, Use, AddAffiliateCode, ReadRebates, ReadTransfers,
         SaveCodes, SaveRebates, Finish, Goto, Learn, LedgerTypeOK
<1>3. ~Owing(h)'
  BY DEF Owing, Ask, Work, Update, AdjustBalance, Arrive, Affiliate, EditRebates, Redeem, EditCodes,
         Begin, Write, LoadCodes, Grant, RefuseGrant, Use, AddAffiliateCode, ReadRebates,
         ReadTransfers, SaveCodes, SaveRebates, Finish, Goto, LedgerTypeOK
<1> QED BY <1>1, <1>2, <1>3, OwnersStay DEF Owing, Storing

\* A recorded transfer was paid out, whatever overlaps and wherever the process dies:
\* what an overlap or a crash loses is the record of a payment, never the quota itself.
THEOREM RecordedPaid == LedgerSpec => []RecordedWasPaid
<1>1. LedgerInit => RInv
  <2> SUFFICES ASSUME LedgerInit PROVE RInv OBVIOUS
  <2> DEFINE none == [a \in LedgerAccounts |-> {}]
             own  == [h \in Handlers |-> {}]
             seen == [h \in Handlers |-> none]
  <2>1. \A a \in LedgerAccounts : Units(none[a], transfers[a], paid[a])
    BY FS_EmptySet DEF LedgerInit, Zero, Units
  <2>2. Owned(none, own, seen) BY <2>1 DEF Owned, Owing, Storing, LedgerInit
  <2>3. /\ none \in [LedgerAccounts -> SUBSET Nat] /\ own \in [Handlers -> SUBSET Nat]
        /\ seen \in [Handlers -> [LedgerAccounts -> SUBSET Nat]]
    OBVIOUS
  <2> HIDE DEF none, own, seen
  <2> QED BY <2>2, <2>3 DEF RInv
<1>2. LedgerTypeOK /\ RInv /\ [LedgerNext]_ledgerVars => RInv'
  <2> SUFFICES ASSUME LedgerTypeOK, RInv, [LedgerNext]_ledgerVars PROVE RInv' OBVIOUS
  <2>1. CASE Crash
    BY <2>1, OwnersStay DEF Crash, stored, Owing
  <2>2. CASE UNCHANGED ledgerVars BY <2>2, OwnersStay DEF ledgerVars, stored, Owing, Storing
  <2> QED BY <2>1, <2>2, PayOwned, LoadOwned, RecordOwned, OthersOwned DEF LedgerNext
<1>3. LedgerTypeOK /\ RInv => RecordedWasPaid
  <2> SUFFICES ASSUME LedgerTypeOK, RInv, NEW a \in LedgerAccounts PROVE transfers[a] <= paid[a]
    BY DEF RecordedWasPaid
  <2>1. PICK done : Units(done[a], transfers[a], paid[a]) BY DEF RInv, Owned
  <2>2. paid[a] \in Nat BY DEF LedgerTypeOK, Sums
  <2>3. IsFiniteSet(1..paid[a]) /\ Cardinality(1..paid[a]) = paid[a]
    BY <2>2, FS_Interval
  <2> QED BY <2>1, <2>3, FS_Subset DEF Units
<1> QED BY <1>1, <1>2, <1>3, LedgerTypeCorrect, PTL DEF LedgerSpec
-----------------------------------------------------------------------------
\* As long as requests do not overlap, the row that a request will store is the stored
\* one, and the request does what its kind says.
RowPart(h) ==
    /\ pc[h] \in {"write", "codes", "grant", "aff"} => job[h].row = account[job[h].account]
    /\ pc[h] = "write" => job[h].op \in {"profile", "balance", "enable", "disable"}
    /\ pc[h] \in {"codes", "grant"} => job[h].op = "redeem"

LInv == LedgerTypeOK /\ Apart /\ (~overlapped => \A h \in Handlers : RowPart(h))

LEMMA AskRow ==
    ASSUME LedgerTypeOK, NEW h \in Handlers, Ask(h) PROVE RowPart(h)'
<1>0. NoJob.op = "none"
      /\ DOMAIN NoJob = {"op", "account", "code", "amount", "row", "codes", "sums"}
  BY DEF NoJob
<1>1. ASSUME NEW p, NEW j, Begin(h, p, j)
      PROVE  pc'[h] = p /\ job'[h] = j /\ account' = account
  BY <1>1 DEF Begin, Arrive, Goto, Learn, LedgerTypeOK, stored
<1>2. ASSUME NEW a \in LedgerAccounts, NEW op \in {"profile", "balance", "enable", "disable"},
       NEW amount,
             Update(h, a, op, amount)
      PROVE  RowPart(h)'
  <2> DEFINE j == [NoJob EXCEPT !.op = op, !.account = a, !.amount = amount, !.row = account[a]]
  <2>1. j.op = op /\ j.account = a /\ j.row = account[a] BY <1>0 DEF NoJob
  <2>2. pc'[h] = "write" /\ job'[h] = j /\ account' = account BY <1>1, <1>2 DEF Update
  <2> HIDE DEF j
  <2> QED BY <2>1, <2>2 DEF RowPart
<1>3. ASSUME NEW a \in LedgerAccounts, NEW amount, AdjustBalance(h, a, amount) PROVE RowPart(h)'
  BY <1>3 DEF AdjustBalance, Arrive, RowPart
<1>4. ASSUME NEW a \in LedgerAccounts, NEW op, Affiliate(h, a, op) PROVE RowPart(h)'
  <2> DEFINE p == IF account[a].aff THEN "rebates" ELSE "aff"
             j == [NoJob EXCEPT !.op = op, !.account = a, !.row = account[a]]
  <2>1. j.account = a /\ j.row = account[a] /\ p \in {"rebates", "aff"} BY <1>0 DEF NoJob
  <2>2. Begin(h, p, j) BY <1>4 DEF Affiliate
  <2> HIDE DEF p, j
  <2>3. pc'[h] = p /\ job'[h] = j /\ account' = account BY <1>1, <2>2
  <2> QED BY <2>1, <2>3 DEF RowPart
<1>5. ASSUME NEW a \in LedgerAccounts, EditRebates(h, a) PROVE RowPart(h)'
  BY <1>1, <1>5 DEF EditRebates, RowPart
<1>6. ASSUME NEW a \in LedgerAccounts, NEW c \in Codes, Redeem(h, a, c) PROVE RowPart(h)'
  <2> DEFINE j == [NoJob EXCEPT !.op = "redeem", !.account = a, !.code = c, !.row = account[a]]
  <2>1. j.op = "redeem" /\ j.account = a /\ j.row = account[a] BY <1>0 DEF NoJob
  <2>2. pc'[h] = "codes" /\ job'[h] = j /\ account' = account BY <1>1, <1>6 DEF Redeem
  <2> HIDE DEF j
  <2> QED BY <2>1, <2>2 DEF RowPart
<1>7. ASSUME NEW c \in Codes, EditCodes(h, c) PROVE RowPart(h)'
  BY <1>1, <1>7 DEF EditCodes, RowPart
<1> QED BY <1>2, <1>3, <1>4, <1>5, <1>6, <1>7 DEF Ask

LEMMA WorkRow ==
    ASSUME LedgerTypeOK, NEW h \in Handlers, RowPart(h), Work(h) PROVE RowPart(h)'
<1>1. CASE LoadCodes(h)
  <2> DEFINE j == [job[h] EXCEPT !.codes = code]
  <2>1. pc[h] = "codes" /\ account' = account BY <1>1 DEF LoadCodes, stored
  <2>2. pc'[h] = "idle" \/ (pc'[h] = "grant" /\ job'[h] = j) BY <1>1, Moves DEF LoadCodes
  <2>3. j.op = job[h].op /\ j.account = job[h].account /\ j.row = job[h].row
    BY DEF LedgerTypeOK, Jobs
  <2> HIDE DEF j
  <2> QED BY <2>1, <2>2, <2>3 DEF RowPart
<1>2. CASE ~LoadCodes(h)
  <2>1. pc'[h] \in {"idle", "use", "rebates", "transfers", "pay", "load", "record"}
    BY <1>2, Moves DEF Work, Write, Grant, RefuseGrant, Use, AddAffiliateCode, ReadRebates,
       ReadTransfers, Pay, LoadTransfers, RecordTransfer, SaveCodes, SaveRebates
  <2> QED BY <2>1 DEF RowPart
<1> QED BY <1>1, <1>2

\* What a step of h may change in the row of account a.
Kept(h, a) ==
    LET By(ops) == job[h].account = a /\ job[h].op \in ops
        old     == account[a]
        new     == account'[a]
    IN  /\ new.balance - old.balance # posted'[a] - posted[a] => By({"balance"})
        /\ new.limit # old.limit => By({"redeem"})
        /\ new.enabled # old.enabled => By({"enable", "disable"})
        /\ old.aff => new.aff

\* A row that stays, or is adjusted, is kept.
LEMMA KeptSame ==
    ASSUME LedgerTypeOK, NEW h \in Handlers, NEW a \in LedgerAccounts, account'[a] = account[a],
           posted'[a] = posted[a]
    PROVE  Kept(h, a)
BY DEF Kept, LedgerTypeOK, Rows

LEMMA KeptAdjusted ==
    ASSUME LedgerTypeOK, NEW h \in Handlers, NEW a \in LedgerAccounts,
           NEW b \in LedgerAccounts, NEW amount \in Int,
           BalanceAdjusted(b, amount)
    PROVE  Kept(h, a)
<1>1. CASE a # b BY <1>1, KeptSame DEF BalanceAdjusted, LedgerTypeOK
<1>2. CASE a = b
  <2>1. account[a] \in Rows /\ posted[a] \in Int BY DEF LedgerTypeOK
  <2>2. /\ account'[a] = [account[a] EXCEPT !.balance = account[a].balance + amount]
        /\ posted'[a] = posted[a] + amount
    BY <1>2 DEF BalanceAdjusted, LedgerTypeOK
  <2>3. /\ account'[a].balance = account[a].balance + amount
        /\ account'[a].limit = account[a].limit /\ account'[a].enabled = account[a].enabled
        /\ account'[a].aff = account[a].aff
    BY <2>1, <2>2 DEF Rows
  <2>4. account'[a].balance - account[a].balance = posted'[a] - posted[a]
    BY <2>1, <2>2, <2>3 DEF Rows
  <2> QED BY <2>3, <2>4 DEF Kept
<1> QED BY <1>1, <1>2

LEMMA StepKept ==
    ASSUME LedgerTypeOK, NEW h \in Handlers, RowPart(h), Ask(h) \/ Work(h), NEW a \in LedgerAccounts
    PROVE  Kept(h, a)
<1> DEFINE b == job[h].account
<1>0. job[h] \in Jobs /\ account \in [LedgerAccounts -> Rows] /\ account[a] \in Rows
      /\ posted[a] \in Int
  BY DEF LedgerTypeOK
<1>1. CASE Write(h)
  <2>1. b \in LedgerAccounts /\ job[h].row = account[b]
        /\ job[h].op \in {"profile", "balance", "enable", "disable"}
    BY <1>1 DEF Write, RowPart, LedgerTypeOK
  <2>2. account' = [account EXCEPT ![b] = Changed(job[h])] /\ posted' = posted
    BY <1>1 DEF Write
  <2>3. CASE a # b BY <1>0, <2>2, <2>3, KeptSame
  <2>4. CASE a = b
    <3>1. account'[a] = Changed(job[h]) BY <1>0, <2>2, <2>4
    <3>2. posted'[a] - posted[a] = 0 /\ account[a].balance - account[a].balance = 0
      BY <1>0, <2>2 DEF Rows
    <3>3. CASE job[h].op = "balance"
      <4>1. account'[a] = [account[a] EXCEPT !.balance = job[h].amount]
        BY <2>1, <2>4, <3>1, <3>3 DEF Changed
      <4> QED BY <1>0, <2>4, <3>3, <4>1 DEF Kept, Rows
    <3>4. CASE job[h].op \in {"enable", "disable"}
      <4>1. PICK e : account'[a] = [account[a] EXCEPT !.enabled = e]
        BY <2>1, <2>4, <3>1, <3>4 DEF Changed
      <4>2. account'[a].balance = account[a].balance /\ account'[a].limit = account[a].limit
            /\ account'[a].aff = account[a].aff
        BY <1>0, <4>1 DEF Rows
      <4> QED BY <2>4, <3>2, <3>4, <4>2 DEF Kept
    <3>5. CASE job[h].op = "profile"
      <4>1. account'[a] = account[a] BY <2>1, <2>4, <3>1, <3>5 DEF Changed
      <4> QED BY <2>2, <4>1, KeptSame
    <3> QED BY <2>1, <3>3, <3>4, <3>5
  <2> QED BY <2>3, <2>4
<1>2. CASE Grant(h)
  <2>1. b \in LedgerAccounts /\ job[h].row = account[b] /\ job[h].op = "redeem"
    BY <1>2 DEF Grant, RowPart, LedgerTypeOK
  <2>2. CASE TypeOf[job[h].code] = "balance"
    BY <1>2, <2>1, <2>2, KeptAdjusted DEF Grant, Granted
  <2>3. CASE TypeOf[job[h].code] = "concurrency"
    <3>1. /\ account' = [account EXCEPT ![b] = [job[h].row EXCEPT !.limit = job[h].row.limit + 1]]
          /\ posted' = posted
      BY <1>2, <2>3 DEF Grant, Granted
    <3>2. CASE a # b BY <1>0, <3>1, <3>2, KeptSame
    <3>3. CASE a = b
      <4>1. account'[a] = [account[a] EXCEPT !.limit = account[a].limit + 1]
        BY <1>0, <2>1, <3>1, <3>3
      <4>2. /\ account'[a].balance = account[a].balance
            /\ account'[a].enabled = account[a].enabled
            /\ account'[a].aff = account[a].aff
        BY <1>0, <4>1 DEF Rows
      <4>3. account'[a].balance - account[a].balance = posted'[a] - posted[a]
        BY <1>0, <3>1, <4>2 DEF Rows
      <4> QED BY <2>1, <3>3, <4>2, <4>3 DEF Kept
    <3> QED BY <3>2, <3>3
  <2>4. CASE TypeOf[job[h].code] \notin {"balance", "concurrency"}
    BY <1>2, <2>4, KeptSame DEF Grant, Granted
  <2> QED BY <2>2, <2>3, <2>4
<1>3. CASE AddAffiliateCode(h)
  <2>1. b \in LedgerAccounts /\ job[h].row = account[b]
    BY <1>3 DEF AddAffiliateCode, RowPart, LedgerTypeOK
  <2>2. /\ account' = [account EXCEPT ![b] = [job[h].row EXCEPT !.aff = TRUE]]
        /\ posted' = posted
    BY <1>3 DEF AddAffiliateCode
  <2>3. CASE a # b BY <1>0, <2>2, <2>3, KeptSame
  <2>4. CASE a = b
    <3>1. account'[a] = [account[a] EXCEPT !.aff = TRUE] BY <1>0, <2>1, <2>2, <2>4
    <3>2. /\ account'[a].balance = account[a].balance /\ account'[a].limit = account[a].limit
          /\ account'[a].enabled = account[a].enabled /\ account'[a].aff
      BY <1>0, <3>1 DEF Rows
    <3>3. account'[a].balance - account[a].balance = posted'[a] - posted[a]
      BY <1>0, <2>2, <3>2 DEF Rows
    <3> QED BY <3>2, <3>3 DEF Kept
  <2> QED BY <2>3, <2>4
<1>4. CASE Pay(h)
  <2>1. b \in LedgerAccounts /\ job[h].amount \in Int BY <1>0, <1>4 DEF Pay, LedgerTypeOK, Jobs
  <2> QED BY <1>4, <2>1, KeptAdjusted DEF Pay
<1>5. CASE \E c \in LedgerAccounts, amount \in {-1, 1} : AdjustBalance(h, c, amount)
  BY <1>5, KeptAdjusted DEF AdjustBalance
<1>6. ASSUME ~Write(h), ~Grant(h), ~AddAffiliateCode(h), ~Pay(h),
             ~\E c \in LedgerAccounts, amount \in {-1, 1} : AdjustBalance(h, c, amount)
      PROVE  UNCHANGED <<account, posted>>
  BY <1>6 DEF Ask, Work, Update, Affiliate, EditRebates, Redeem, EditCodes, Begin, LoadCodes,
              RefuseGrant, Use, ReadRebates, ReadTransfers, LoadTransfers, RecordTransfer,
              SaveCodes, SaveRebates, stored
<1> QED BY <1>1, <1>2, <1>3, <1>4, <1>5, <1>6, KeptSame

\* As long as requests do not overlap, and wherever the process dies, no request undoes
\* what another stored: balances move by balance events, or when an admin sets one.
THEOREM NothingUndone == LedgerSpec => NothingLost
<1>1. LedgerInit => LInv BY InitType DEF LedgerInit, LInv, Apart, RowPart
<1>2. LInv /\ [LedgerNext]_ledgerVars => LInv'
  <2> SUFFICES ASSUME LInv, [LedgerNext]_ledgerVars PROVE LInv' OBVIOUS
  <2>1. LedgerTypeOK /\ LedgerTypeOK' BY NextType DEF LInv
  <2>2. CASE Crash BY <2>1, <2>2 DEF LInv, Apart, Crash, RowPart
  <2>3. CASE UNCHANGED ledgerVars
    BY <2>1, <2>3 DEF LInv, Apart, OthersIdle, RowPart, ledgerVars, stored, counts
  <2>4. ASSUME NEW h \in Handlers, Ask(h) \/ Work(h) PROVE LInv'
    <3>1. /\ \A g \in Handlers : g # h => pc'[g] = pc[g]
          /\ ~overlapped' => ~overlapped /\ OthersIdle(h)
          /\ Apart'
      BY <2>1, <2>4, StepAlone DEF LInv
    <3>2. ASSUME ~overlapped', NEW g \in Handlers PROVE RowPart(g)'
      <4>1. CASE g = h BY <2>1, <2>4, <3>1, <3>2, <4>1, AskRow, WorkRow DEF LInv
      <4>2. CASE g # h
        <5>1. pc'[g] = "idle" BY <3>1, <3>2, <4>2 DEF OthersIdle
        <5> QED BY <5>1 DEF RowPart
      <4> QED BY <4>1, <4>2
    <3> QED BY <2>1, <3>1, <3>2 DEF LInv
  <2> QED BY <2>2, <2>3, <2>4 DEF LedgerNext
<1>3. LInv /\ [LedgerNext]_ledgerVars =>
          [~overlapped =>
             \A a \in LedgerAccounts :
               LET By(ops) == \E h \in Handlers : job[h].account = a /\ job[h].op \in ops
                   old     == account[a]
                   new     == account'[a]
               IN  /\ new.balance - old.balance # posted'[a] - posted[a] => By({"balance"})
                   /\ new.limit # old.limit => By({"redeem"})
                   /\ new.enabled # old.enabled => By({"enable", "disable"})
                   /\ old.aff => new.aff]_ledgerVars
  <2> SUFFICES ASSUME LInv, LedgerNext, ~overlapped, NEW a \in LedgerAccounts
               PROVE  LET By(ops) == \E h \in Handlers : job[h].account = a /\ job[h].op \in ops
                          old     == account[a]
                          new     == account'[a]
                      IN  /\ new.balance - old.balance # posted'[a] - posted[a] => By({"balance"})
                          /\ new.limit # old.limit => By({"redeem"})
                          /\ new.enabled # old.enabled => By({"enable", "disable"})
                          /\ old.aff => new.aff
    OBVIOUS
  <2>1. CASE Crash
    <3>1. account'[a] = account[a] /\ posted'[a] = posted[a] BY <2>1 DEF Crash, stored
    <3> QED BY <3>1 DEF LInv, LedgerTypeOK, Rows
  <2>2. ASSUME NEW h \in Handlers, Ask(h) \/ Work(h) PROVE Kept(h, a)
    BY <2>2, StepKept DEF LInv
  <2> QED BY <2>1, <2>2 DEF LedgerNext, Kept
<1> QED BY <1>1, <1>2, <1>3, PTL DEF LedgerSpec, NothingLost
=============================================================================
