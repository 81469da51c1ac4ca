---------------------------- MODULE AccountAdmin ----------------------------
(***************************************************************************)
(* The requests that administer accounts, groups, memberships, API keys    *)
(* and subscriptions (admin/users.py, api_keys.py, subscriptions.py,       *)
(* analytics.py, and account/service.py for a user's own requests), over   *)
(* one of the two storages.  A call of the storage is one step.  What a    *)
(* request reads and validates first is one step too; then come its writes,*)
(* and other requests may run in between.  A storage that fails, or a      *)
(* process that stops, ends a request after any of its writes.  Names,     *)
(* balances and their events, edits of the lists of allowed groups, the    *)
(* content buckets and the proxy channels of the configuration are left    *)
(* out, and so are the default groups that are not stored.                 *)
(***************************************************************************)
EXTENDS FiniteSets, Integers, TLC

CONSTANTS
    Accounts, Groups, Keys, Subs,
    Externals,      \* external keys that a request may give
    RandomKeys,     \* external keys that reset_user_external_key may draw
    Exclusive,      \* the groups whose is_exclusive is set
    Handlers,       \* request threads
    MaxCalls,       \* bound on the requests
    None

ASSUME AdminAssumption == IsFiniteSet(Groups) /\ MaxCalls \in Nat

VARIABLES
    db,             \* the storage's sections
    backend,        \* "local" or "mysql", chosen at start-up
    pc, job,        \* per request thread: its next write, and what it knows
    calls,
    late,           \* history, per thread: others wrote since it read
    strays,         \* history: accounts and groups named by what a late write stored
    joined          \* history: accounts given a group on top of those they had

vars == <<db, backend, pc, job, calls, late, strays, joined>>

L == INSTANCE LocalStorage
M == INSTANCE MysqlStorage

Pick(l, m) == IF backend = "local" THEN l ELSE m

NoRow == [external |-> None]
NoJob == [op |-> "none", account |-> None, id |-> None, row |-> NoRow,
          groups |-> {}, plan |-> <<>>]

Empty == [accounts |-> <<>>, groups |-> Groups, members |-> {}, keys |-> <<>>, plans |-> <<>>,
          subs |-> <<>>, channels |-> <<>>, orders |-> <<>>, events |-> <<>>, logs |-> <<>>,
          balances |-> <<>>, answers |-> <<>>, results |-> <<>>, partials |-> <<>>,
          requests |-> <<>>, routes |-> <<>>]

\* An account that has a key, a subscription and a group, and any list of
\* allowed groups: a group may become exclusive after a form gave the list.
Init ==
    /\ \E a \in Accounts, x \in Externals, g \in Groups, k \in Keys, s \in Subs,
          allowed \in SUBSET Groups, end \in {None, 1} :
          db = [Empty EXCEPT
                  !.accounts = L!Put(@, a, [external |-> x, status |-> "active", enabled |-> TRUE,
                                            allowed |-> allowed]),
                  !.members  = {<<a, g>>},
                  !.keys     = L!Put(@, k, [account |-> a, group |-> g, enabled |-> FALSE]),
                  !.subs     = L!Put(@, s, [account |-> a, group |-> g, status |-> "active",
                                            expires |-> end, quota |-> 1])]
    /\ backend \in {"local", "mysql"}
    /\ pc = [h \in Handlers |-> "idle"] /\ job = [h \in Handlers |-> NoJob]
    /\ late = [h \in Handlers |-> FALSE]
    /\ calls = 0 /\ strays = {} /\ joined = {}

-----------------------------------------------------------------------------
(* What requests validate                                                   *)

Known(a)      == a \in DOMAIN db.accounts
Row(a)        == db.accounts[a]
Unique(a, x)  == \A b \in DOMAIN db.accounts \ {a} : Row(b).external # x
Apart(gs)     == Cardinality(gs \cap Exclusive) <= 1
\* Faulty variant: exclusive groups may be assigned together.
StoredSet(gs) == gs \subseteq db.groups
ValidSet(gs)  == gs \subseteq db.groups /\ Apart(gs)
MayUse(a, g)  == Row(a).allowed = {} \/ g \in Row(a).allowed
\* An account is off by its status as well as by its flag.
Active(row)   == row.enabled /\ row.status = "active"
KeyGroup(a, g) == g = None \/ (ValidSet({g}) /\ MayUse(a, g))

-----------------------------------------------------------------------------
(* Steps of a request                                                       *)

Begin(h, p, j) ==
    /\ pc[h] = "idle" /\ calls < MaxCalls /\ calls' = calls + 1
    /\ pc' = [pc EXCEPT ![h] = p] /\ job' = [job EXCEPT ![h] = j]
    /\ late' = [late EXCEPT ![h] = FALSE]
    /\ UNCHANGED <<db, backend, strays, joined>>

\* The groups a job is about to name in what it stores.
Named(j) ==
    {j.account} \cup j.groups
    \cup (IF "group" \in DOMAIN j.row THEN {j.row.group} ELSE {})
    \cup (IF "allowed" \in DOMAIN j.row THEN j.row.allowed ELSE {})
    \cup UNION {j.plan[i] : i \in DOMAIN j.plan}

\* A write of the storage; the other requests under way are late from here.
Write(h, d, p) ==
    /\ db' = d
    /\ pc' = [pc EXCEPT ![h] = p]
    /\ late' = [g \in Handlers |-> late[g] \/ (g # h /\ pc[g] # "idle" /\ d # db)]
    /\ strays' = IF late[h]
                 THEN strays \cup Named(job[h]) \cup DOMAIN job[h].plan
                      \cup (DOMAIN db.accounts \ DOMAIN d.accounts)
                 ELSE strays
    /\ UNCHANGED <<backend, calls>>

Last(h, d) == Write(h, d, "idle") /\ job' = [job EXCEPT ![h] = NoJob]

Fail(h) ==
    /\ pc[h] # "idle"
    /\ pc' = [pc EXCEPT ![h] = "idle"] /\ job' = [job EXCEPT ![h] = NoJob]
    /\ late' = [late EXCEPT ![h] = FALSE]
    /\ UNCHANGED <<db, backend, calls, strays, joined>>

-----------------------------------------------------------------------------
(* Accounts                                                                 *)

AccountJob(op, a, row, gs) ==
    [NoJob EXCEPT !.op = op, !.account = a, !.row = row, !.groups = gs]

\* Faulty variant: a flag that the form does not give is on.
SwitchedByDefault(row, flag, status) ==
    [row EXCEPT !.enabled = flag # "off",
                !.status  = IF status # "kept" THEN status
                            ELSE IF flag # "off" THEN "active" ELSE "disabled"]

\* What a form says of the flag and of the status.  A status that it does not
\* give follows from the flag, whatever the status was.
Switched(row, flag, status) ==
    LET on == IF flag = "kept" THEN row.enabled ELSE flag = "on"
    IN  [row EXCEPT !.enabled = on,
                    !.status  = IF status # "kept" THEN status
                                ELSE IF on THEN "active" ELSE "disabled"]

Flags == {"on", "off", "kept"}
Statuses == {"active", "disabled", "kept"}
NewAccount(x) == [external |-> x, status |-> "active", enabled |-> TRUE, allowed |-> {}]

CreateUser(h, a, x, flag, status, gs) ==
    /\ ~Known(a) /\ Unique(a, x) /\ ValidSet(gs)
    /\ Begin(h, "account", AccountJob("create", a, Switched(NewAccount(x), flag, status), gs))

\* The form of the user's own profile has no groups, nor has the row: the
\* account is left with none.
UpdateProfile(h, a) ==
    /\ Known(a) /\ Unique(a, Row(a).external) /\ ValidSet(Row(a).allowed)
    /\ Begin(h, "account", AccountJob("profile", a, Switched(Row(a), "kept", "kept"), {}))

\* The form asks that the account be active, or only edits it.
UpdateUser(h, a, x, flag, status, gs) ==
    /\ Known(a) /\ Unique(a, x) /\ ValidSet(gs) /\ ValidSet(Row(a).allowed)
    /\ Begin(h, "account",
             AccountJob(IF flag = "on" \/ status = "active" THEN "activate" ELSE "edit", a,
                        Switched([Row(a) EXCEPT !.external = x], flag, status), gs))

SetUserEnabled(h, a, on) ==
    /\ Known(a)
    /\ Begin(h, "account", AccountJob(IF on THEN "enable" ELSE "disable", a,
                                      Switched(Row(a), IF on THEN "on" ELSE "off", "kept"), {}))

\* The new key is nobody's, nor about to be.
ResetExternalKey(h, a, x) ==
    /\ Known(a) /\ Unique(a, x)
    /\ \A g \in Handlers : "external" \in DOMAIN job[g].row => job[g].row.external # x
    /\ Begin(h, "account", AccountJob("rekey", a, [Row(a) EXCEPT !.external = x], {}))

SaveAccount(h) ==
    LET a == job[h].account
        d == Pick(L!UpsertAccount(db, a, job[h].row), M!UpsertAccount(db, a, job[h].row))
    IN  /\ pc[h] = "account" /\ UNCHANGED joined
        /\ IF job[h].op \in {"create", "profile", "edit", "activate"}
           THEN Write(h, d, "groups") /\ UNCHANGED job
           ELSE Last(h, d)

\* A registration with an affiliate code goes on to store the account again.
SaveGroups(h) ==
    LET a == job[h].account
        d == Pick(L!ReplaceGroups(db, a, job[h].groups), M!ReplaceGroups(db, a, job[h].groups))
    IN  /\ pc[h] = "groups"
        /\ joined' = IF job[h].op = "assign" THEN joined \cup {a} ELSE joined
        /\ \/ Last(h, d)
           \/ job[h].op = "create" /\ Write(h, d, "invite") /\ UNCHANGED job

Invite(h) ==
    /\ pc[h] = "invite"
    /\ LET a == job[h].account
       IN  job' = [job EXCEPT ![h] = AccountJob("invite", a, IF Known(a) THEN Row(a) ELSE @.row, {})]
    /\ pc' = [pc EXCEPT ![h] = "account"]
    /\ UNCHANGED <<db, backend, calls, late, strays, joined>>

DeleteUser(h, a) ==
    /\ Known(a) /\ Begin(h, "remove", AccountJob("delete", a, NoRow, {}))

RemoveAccount(h) ==
    /\ pc[h] = "remove" /\ UNCHANGED joined
    /\ Last(h, Pick(L!DeleteAccount(db, job[h].account), M!DeleteAccount(db, job[h].account)))

-----------------------------------------------------------------------------
(* API keys                                                                 *)

KeyJob(op, k, a, row) == [NoJob EXCEPT !.op = op, !.id = k, !.account = a, !.row = row]

CreateApiKey(h, k, a, g) ==
    /\ k \notin DOMAIN db.keys /\ Known(a) /\ Active(Row(a)) /\ KeyGroup(a, g)
    /\ Begin(h, "key", KeyJob("create", k, a, [account |-> a, group |-> g, enabled |-> TRUE]))

UpdateApiKey(h, k, a, on) ==
    /\ k \in DOMAIN db.keys /\ Known(a) /\ Active(Row(a))
    /\ Begin(h, "key", KeyJob(IF on THEN "enable" ELSE "edit", k, a,
                              [db.keys[k] EXCEPT !.account = a, !.enabled = on \/ @]))

SaveKey(h) ==
    /\ pc[h] = "key" /\ UNCHANGED joined
    /\ Last(h, Pick(L!UpsertKey(db, job[h].id, job[h].row), M!UpsertKey(db, job[h].id, job[h].row)))

\* A user's own request first looks whether the key is the account's.
SwitchKey(h, k, on) ==
    /\ k \in DOMAIN db.keys
    /\ Begin(h, "switch", KeyJob(IF on THEN "enable" ELSE "disable", k, db.keys[k].account, NoRow))

SetApiKeyEnabled(h) ==
    /\ pc[h] = "switch" /\ UNCHANGED joined
    /\ LET on == job[h].op = "enable"
       IN  Last(h, Pick(L!SetKeyEnabled(db, job[h].id, on), M!SetKeyEnabled(db, job[h].id, on)))

DeleteApiKey(h, k) ==
    /\ k \in DOMAIN db.keys /\ Begin(h, "removekey", KeyJob("delete", k, db.keys[k].account, NoRow))

RemoveKey(h) ==
    /\ pc[h] = "removekey" /\ UNCHANGED joined
    /\ Last(h, Pick(L!DeleteKey(db, job[h].id), M!DeleteKey(db, job[h].id)))

-----------------------------------------------------------------------------
(* Subscriptions                                                            *)

AssignSubscription(h, s, a, g) ==
    /\ Known(a) /\ Active(Row(a)) /\ KeyGroup(a, g)
    /\ Begin(h, "sub", KeyJob("assign", s, a, [account |-> a, group |-> g, status |-> "active",
                                               expires |-> None, quota |-> 0]))

ChangeSubscription(h, s, op) ==
    /\ s \in DOMAIN db.subs
    /\ LET row == db.subs[s]
           new == CASE op = "extend" -> Pick(L!Extended(row, 1, 1), M!Extended(row, 1, 1))
                    [] op = "revoke" -> Pick(L!Revoked(row), M!Revoked(row))
                    [] op = "reset"  -> Pick(L!QuotaReset(row), M!QuotaReset(row))
       IN  Begin(h, "sub", KeyJob(op, s, row.account, new))

SaveSubscription(h) ==
    LET d == Pick(L!UpsertSubscription(db, job[h].id, job[h].row),
                  M!UpsertSubscription(db, job[h].id, job[h].row))
    IN  /\ pc[h] = "sub" /\ UNCHANGED joined
        /\ IF job[h].op = "assign" /\ job[h].row.group # None
           THEN Write(h, d, "members") /\ UNCHANGED job
           ELSE Last(h, d)

\* Faulty variant: the groups the account has are not read.
ReadNoMembers(h) ==
    /\ pc[h] = "members"
    /\ job' = [job EXCEPT ![h].groups = {job[h].row.group}]
    /\ pc' = [pc EXCEPT ![h] = "groups"]
    /\ UNCHANGED <<db, backend, calls, late, strays, joined>>

ReadMembers(h) ==
    /\ pc[h] = "members"
    /\ LET a == job[h].account
       IN  job' = [job EXCEPT ![h].groups =
                      Pick(L!GroupsOf(db, a), M!GroupsOf(db, a)) \cup {job[h].row.group}]
    /\ pc' = [pc EXCEPT ![h] = "groups"]
    /\ UNCHANGED <<db, backend, calls, late, strays, joined>>

-----------------------------------------------------------------------------
(* Groups                                                                   *)

\* from: the groups whose accounts join the group.
UpsertGroup(h, g, from) ==
    /\ from \subseteq db.groups
    /\ Begin(h, "group", [NoJob EXCEPT !.op = "group", !.id = g, !.groups = from])

SaveGroup(h) ==
    LET d == Pick(L!UpsertGroup(db, job[h].id), M!UpsertGroup(db, job[h].id))
    IN  /\ pc[h] = "group" /\ UNCHANGED joined
        /\ IF job[h].groups = {} THEN Last(h, d) ELSE Write(h, d, "copy") /\ UNCHANGED job

CopyMembers(h) ==
    LET from == {m[1] : m \in {m \in db.members : m[2] \in job[h].groups}}
    IN  /\ pc[h] = "copy"
        /\ job' = [job EXCEPT ![h].plan = [a \in from |-> L!GroupsOf(db, a) \cup {job[h].id}]]
        /\ pc' = [pc EXCEPT ![h] = "paste"]
        /\ UNCHANGED <<db, backend, calls, late, strays, joined>>

\* One account after the other.
PasteMembers(h) ==
    LET plan == job[h].plan
    IN  /\ pc[h] = "paste"
        /\ IF plan = <<>> THEN Last(h, db) /\ UNCHANGED joined
           ELSE \E a \in DOMAIN plan :
                   /\ Write(h, Pick(L!ReplaceGroups(db, a, plan[a]), M!ReplaceGroups(db, a, plan[a])), "paste")
                   /\ job' = [job EXCEPT ![h].plan = L!Drop(plan, {a})]
                   /\ joined' = joined \cup {a}

DeleteGroup(h, g) ==
    /\ g \in db.groups /\ Begin(h, "ungroup", [NoJob EXCEPT !.op = "ungroup", !.id = g])

\* MySQL stores the lists of allowed groups that it selected before.
SelectLists(h) ==
    /\ pc[h] = "ungroup" /\ backend = "mysql"
    /\ job' = [job EXCEPT ![h].plan = M!SelectAllowed(db.accounts, job[h].id)]
    /\ pc' = [pc EXCEPT ![h] = "commit"]
    /\ UNCHANGED <<db, backend, calls, late, strays, joined>>

RemoveGroup(h) ==
    /\ UNCHANGED joined
    /\ \/ pc[h] = "ungroup" /\ backend = "local" /\ Last(h, L!DeleteGroup(db, job[h].id))
       \/ pc[h] = "commit" /\ Last(h, M!CommitDeleteGroup(db, job[h].id, job[h].plan))

-----------------------------------------------------------------------------
Ask(h) ==
    \/ \E a \in Accounts :
          \/ \E x \in Externals, flag \in Flags, status \in Statuses, gs \in SUBSET Groups :
                CreateUser(h, a, x, flag, status, gs) \/ UpdateUser(h, a, x, flag, status, gs)
          \/ \E x \in RandomKeys : ResetExternalKey(h, a, x)
          \/ \E on \in BOOLEAN : SetUserEnabled(h, a, on)
          \/ UpdateProfile(h, a) \/ DeleteUser(h, a)
          \/ \E k \in Keys, g \in Groups \cup {None} : CreateApiKey(h, k, a, g)
          \/ \E k \in Keys, on \in BOOLEAN : UpdateApiKey(h, k, a, on)
          \/ \E s \in Subs, g \in Groups \cup {None} : AssignSubscription(h, s, a, g)
    \/ \E k \in Keys : DeleteApiKey(h, k) \/ \E on \in BOOLEAN : SwitchKey(h, k, on)
    \/ \E s \in Subs, op \in {"extend", "revoke", "reset"} : ChangeSubscription(h, s, op)
    \/ \E g \in Groups : DeleteGroup(h, g) \/ \E from \in SUBSET (Groups \ {g}) : UpsertGroup(h, g, from)

Work(h) ==
    \/ SaveAccount(h) \/ SaveGroups(h) \/ Invite(h) \/ RemoveAccount(h)
    \/ SaveKey(h) \/ SetApiKeyEnabled(h) \/ RemoveKey(h)
    \/ SaveSubscription(h) \/ ReadMembers(h)
    \/ SaveGroup(h) \/ CopyMembers(h) \/ PasteMembers(h) \/ SelectLists(h) \/ RemoveGroup(h)
    \/ Fail(h)

Next == \E h \in Handlers : Ask(h) \/ Work(h)
Spec == Init /\ [][Next]_vars

-----------------------------------------------------------------------------
AccountRows == [external : Externals \cup RandomKeys, status : {"active", "disabled"},
                enabled : BOOLEAN, allowed : SUBSET Groups]
KeyRows     == [account : Accounts, group : Groups \cup {None}, enabled : BOOLEAN]
SubRows     == [account : Accounts, group : Groups \cup {None}, status : {"active", "revoked"},
                expires : Int \cup {None}, quota : Int]

Stored(d) ==
    /\ {"accounts", "groups", "members", "keys", "subs"} \subseteq DOMAIN d
    /\ d.groups \subseteq Groups /\ d.members \subseteq Accounts \X Groups
    /\ DOMAIN d.accounts \subseteq Accounts /\ \A a \in DOMAIN d.accounts : d.accounts[a] \in AccountRows
    /\ DOMAIN d.keys \subseteq Keys /\ \A k \in DOMAIN d.keys : d.keys[k] \in KeyRows
    /\ DOMAIN d.subs \subseteq Subs /\ \A s \in DOMAIN d.subs : d.subs[s] \in SubRows

\* The next steps of a request, with what may ask for each.
Steps == {<<"idle", "none">>, <<"invite", "create">>, <<"remove", "delete">>,
          <<"removekey", "delete">>, <<"members", "assign">>}
         \cup ({"account"} \X {"create", "profile", "edit", "activate", "enable", "disable",
                                "rekey", "invite"})
         \cup ({"groups"} \X {"create", "profile", "edit", "activate", "assign"})
         \cup ({"key"} \X {"create", "enable", "edit"}) \cup ({"switch"} \X {"enable", "disable"})
         \cup ({"sub"} \X {"assign", "extend", "revoke", "reset"})
         \cup ({"group", "copy", "paste"} \X {"group"}) \cup ({"ungroup", "commit"} \X {"ungroup"})

JobOK(p, j) ==
    /\ DOMAIN j = DOMAIN NoJob /\ <<p, j.op>> \in Steps
    /\ p \in {"account", "groups", "invite", "remove", "key", "sub", "members"} => j.account \in Accounts
    /\ p \in {"account", "invite"} \/ (p = "groups" /\ j.op # "assign") => j.row \in AccountRows
    /\ p = "key" => j.row \in KeyRows
    /\ p \in {"sub", "members"} \/ (p = "groups" /\ j.op = "assign") => j.row \in SubRows
    /\ p \in {"key", "sub"} => j.row.account = j.account
    /\ p = "members" => j.row.group \in Groups
    /\ p \in {"key", "switch", "removekey"} => j.id \in Keys
    /\ p = "sub" => j.id \in Subs
    /\ p \in {"group", "copy", "paste", "ungroup", "commit"} => j.id \in Groups
    /\ j.groups \subseteq Groups
    /\ DOMAIN j.plan \subseteq Accounts /\ \A a \in DOMAIN j.plan : j.plan[a] \subseteq Groups

TypeOK ==
    /\ Stored(db) /\ backend \in {"local", "mysql"} /\ calls \in 0..MaxCalls
    /\ DOMAIN pc = Handlers /\ DOMAIN job = Handlers /\ \A h \in Handlers : JobOK(pc[h], job[h])
    /\ late \in [Handlers -> BOOLEAN] /\ joined \subseteq Accounts

-----------------------------------------------------------------------------
(* A row that names an account or a group that is gone was stored by a
   request that another one overtook between its check and its write, or its
   account gave way to such a request (the unique external key of MySQL).
   Without an overlap, no deletion leaves anything. *)
OrphansRaced ==
    /\ \A rows \in {db.keys, db.subs} : \A id \in DOMAIN rows :
          /\ rows[id].account \in DOMAIN db.accounts \cup strays
          /\ rows[id].group \in db.groups \cup {None} \cup strays
    /\ \A m \in db.members : m[1] \in DOMAIN db.accounts \cup strays /\ m[2] \in db.groups \cup strays
    /\ \A a \in DOMAIN db.accounts : Row(a).allowed \subseteq db.groups \cup strays

(* An account is in two groups that are exclusive only if a subscription or
   a copied group added one to those it had: neither looks at them. *)
ExclusiveApart ==
    \A a \in Accounts : Apart({m[2] : m \in {m \in db.members : m[1] = a}}) \/ a \in joined

\* The request whose step this is asks for op, or was overtaken.
By(ops) == \E h \in Handlers : (pc'[h] # pc[h] \/ job'[h] # job[h]) /\ (job[h].op \in ops \/ late[h])
Both(f) == DOMAIN db[f] \cap DOMAIN db'[f]

(* What was switched off, revoked or deleted comes back only through a
   request that asks for it, or through a late write of an old row.  The
   exception is an account that only its status switched off: the next form
   that does not mention the status, the user's own profile too, makes it
   active. *)
NothingComesBack ==
    [][/\ DOMAIN db'.accounts \subseteq DOMAIN db.accounts \/ By({"create"})
       /\ \A a \in Both("accounts") :
             /\ Row(a).enabled \/ ~db'.accounts[a].enabled \/ By({"enable", "activate"})
             /\ \/ Active(Row(a)) \/ ~Active(db'.accounts[a]) \/ By({"enable", "activate"})
                \/ Row(a).enabled /\ By({"edit", "profile"})
       /\ DOMAIN db'.keys \subseteq DOMAIN db.keys \/ By({"create"})
       /\ \A k \in Both("keys") : db.keys[k].enabled \/ ~db'.keys[k].enabled \/ By({"enable"})
       /\ \A s \in Both("subs") :
             db.subs[s].status = "active" \/ db'.subs[s].status # "active" \/ By({"assign"})]_vars

(* A group, a key, an account or the days of a subscription are lost only to
   a request that takes them away, to a late write, to the form of a profile
   (groups), or to the extension of a subscription that had no end. *)
NothingLost ==
    [][/\ \A a \in Both("accounts") :
             \A g \in db.groups \cap db'.groups :
                <<a, g>> \in db.members => <<a, g>> \in db'.members \/ By({"create", "edit", "activate", "profile"})
       /\ DOMAIN db.accounts \subseteq DOMAIN db'.accounts \/ By({"delete"})
       /\ DOMAIN db.keys \subseteq DOMAIN db'.keys \/ By({"delete"})
       /\ \A s \in Both("subs") :
             LET e == db.subs[s].expires IN LET f == db'.subs[s].expires IN
             e = f \/ By({"assign"}) \/ (By({"extend"}) /\ (e = None \/ f > e))]_vars
=============================================================================
