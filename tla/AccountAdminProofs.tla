------------------------- MODULE AccountAdminProofs -------------------------
(***************************************************************************)
(* For any accounts, groups, keys, subscriptions and threads, over either  *)
(* storage: a row that names what is gone, a membership or a row that is   *)
(* lost, and one that comes back, are the work of a request that another   *)
(* one overtook, or of one that asks for it.  What a request validated, and*)
(* what it read, still holds (Knows) as long as no other request has       *)
(* written; every write is judged by that, or its names are in strays.     *)
(***************************************************************************)
EXTENDS AccountAdmin, FiniteSetTheorems, TLAPS

Sections == {"accounts", "groups", "members", "keys", "subs"}

-----------------------------------------------------------------------------
(* What the calls of the two storages do to the sections, d before and e   *)
(* after.                                                                  *)

AccountPut(d, e, a, row) ==
    /\ Sections \subseteq DOMAIN e
    /\ e.groups = d.groups /\ e.members = d.members /\ e.keys = d.keys /\ e.subs = d.subs
    /\ DOMAIN e.accounts \subseteq DOMAIN d.accounts \cup {a}
    /\ a \in DOMAIN e.accounts /\ e.accounts[a] = row
    /\ \A b \in DOMAIN e.accounts \ {a} : e.accounts[b] = d.accounts[b]

AccountCut(d, e, a) ==
    /\ Sections \subseteq DOMAIN e
    /\ e.groups = d.groups /\ e.members = {m \in d.members : m[1] # a}
    /\ DOMAIN e.accounts = DOMAIN d.accounts \ {a}
    /\ \A b \in DOMAIN e.accounts : e.accounts[b] = d.accounts[b]
    /\ DOMAIN e.keys = {k \in DOMAIN d.keys : d.keys[k].account # a}
    /\ \A k \in DOMAIN e.keys : e.keys[k] = d.keys[k]
    /\ DOMAIN e.subs = {s \in DOMAIN d.subs : d.subs[s].account # a}
    /\ \A s \in DOMAIN e.subs : e.subs[s] = d.subs[s]

MembersPut(d, e, a, gs) ==
    /\ Sections \subseteq DOMAIN e
    /\ e.accounts = d.accounts /\ e.groups = d.groups /\ e.keys = d.keys /\ e.subs = d.subs
    /\ e.members = {m \in d.members : m[1] # a} \cup ({a} \X gs)

KeysPut(d, e) ==
    /\ Sections \subseteq DOMAIN e
    /\ e.accounts = d.accounts /\ e.groups = d.groups /\ e.members = d.members /\ e.subs = d.subs

SubPut(d, e, s, row) ==
    /\ Sections \subseteq DOMAIN e
    /\ e.accounts = d.accounts /\ e.groups = d.groups /\ e.members = d.members /\ e.keys = d.keys
    /\ DOMAIN e.subs = DOMAIN d.subs \cup {s} /\ e.subs[s] = row
    /\ \A t \in DOMAIN d.subs \ {s} : e.subs[t] = d.subs[t]

GroupPut(d, e, g) ==
    /\ Sections \subseteq DOMAIN e
    /\ e.accounts = d.accounts /\ e.members = d.members /\ e.keys = d.keys /\ e.subs = d.subs
    /\ e.groups = d.groups \cup {g}

GroupCut(d, e, g) ==
    /\ Sections \subseteq DOMAIN e
    /\ e.groups = d.groups \ {g} /\ e.members = {m \in d.members : m[2] # g}
    /\ DOMAIN e.accounts = DOMAIN d.accounts
    /\ DOMAIN e.keys = DOMAIN d.keys
    /\ \A k \in DOMAIN d.keys :
          e.keys[k] = IF d.keys[k].group = g THEN [d.keys[k] EXCEPT !.group = None] ELSE d.keys[k]
    /\ DOMAIN e.subs = DOMAIN d.subs
    /\ \A s \in DOMAIN d.subs :
          e.subs[s] = IF d.subs[s].group = g THEN [d.subs[s] EXCEPT !.group = None] ELSE d.subs[s]

LEMMA LocalAccountPut ==
  ASSUME NEW d, Sections \subseteq DOMAIN d, NEW a, NEW row
  PROVE  LET e == L!UpsertAccount(d, a, row)
         IN  AccountPut(d, e, a, row) /\ DOMAIN d.accounts \subseteq DOMAIN e.accounts
<1>1. LET e == L!UpsertAccount(d, a, row)
      IN  /\ Sections \subseteq DOMAIN e /\ e.accounts = L!Put(d.accounts, a, row)
          /\ e.groups = d.groups /\ e.members = d.members /\ e.keys = d.keys /\ e.subs = d.subs
  BY DEF L!UpsertAccount, Sections
<1> QED  BY <1>1 DEF AccountPut, L!Put

LEMMA MysqlAccountPut ==
  ASSUME NEW d, Sections \subseteq DOMAIN d, NEW a, NEW row
  PROVE  LET e == M!UpsertAccount(d, a, row)
         IN  /\ AccountPut(d, e, a, row)
             /\ \A b \in DOMAIN d.accounts :
                   b \in DOMAIN e.accounts \/ d.accounts[b].external = row.external
             /\ \A b \in DOMAIN e.accounts \ {a} : d.accounts[b].external # row.external
<1> DEFINE same == M!Select(d.accounts, LAMBDA r : r.external = row.external)
           e    == M!UpsertAccount(d, a, row)
<1>1. /\ Sections \subseteq DOMAIN e /\ e.accounts = M!Replace(M!DeleteIds(d.accounts, same), a, row)
      /\ e.groups = d.groups /\ e.members = d.members /\ e.keys = d.keys /\ e.subs = d.subs
  BY DEF M!UpsertAccount, Sections
<1>2. same = {b \in DOMAIN d.accounts : d.accounts[b].external = row.external}
  BY DEF M!Select
<1> HIDE DEF same, e
<1>3. /\ DOMAIN M!DeleteIds(d.accounts, same) = DOMAIN d.accounts \ same
      /\ \A b \in DOMAIN d.accounts \ same : M!DeleteIds(d.accounts, same)[b] = d.accounts[b]
  BY DEF M!DeleteIds, M!Restrict
<1>4. /\ DOMAIN e.accounts = (DOMAIN d.accounts \ same) \cup {a} /\ e.accounts[a] = row
      /\ \A b \in DOMAIN e.accounts \ {a} : e.accounts[b] = M!DeleteIds(d.accounts, same)[b]
  BY <1>1, <1>3 DEF M!Replace
<1> QED  BY <1>1, <1>2, <1>3, <1>4 DEF AccountPut, e

LEMMA LocalAccountCut ==
  ASSUME NEW d, Sections \subseteq DOMAIN d, NEW a
  PROVE  AccountCut(d, L!DeleteAccount(d, a), a)
<1> DEFINE e == L!DeleteAccount(d, a)
<1>1. /\ Sections \subseteq DOMAIN e
      /\ e.accounts = L!Drop(d.accounts, {a}) /\ e.groups = d.groups
      /\ e.members = {m \in d.members : m[1] # a}
      /\ e.keys = L!Drop(d.keys, {k \in DOMAIN d.keys : d.keys[k].account = a})
      /\ e.subs = L!Drop(d.subs, {s \in DOMAIN d.subs : d.subs[s].account = a})
  BY DEF L!DeleteAccount, Sections, L!Where
<1> HIDE DEF e
<1> QED  BY <1>1 DEF AccountCut, L!Drop, L!Restrict, e

LEMMA MysqlAccountCut ==
  ASSUME NEW d, Sections \subseteq DOMAIN d, NEW a
  PROVE  AccountCut(d, M!DeleteAccount(d, a), a)
<1> DEFINE e == M!DeleteAccount(d, a)
<1>1. /\ Sections \subseteq DOMAIN e
      /\ e.accounts = M!DeleteIds(d.accounts, {a}) /\ e.groups = d.groups
      /\ e.members = {m \in d.members : m[1] # a}
      /\ e.keys = M!DeleteIds(d.keys, {k \in DOMAIN d.keys : d.keys[k].account = a})
      /\ e.subs = M!DeleteIds(d.subs, {s \in DOMAIN d.subs : d.subs[s].account = a})
  BY DEF M!DeleteAccount, Sections, M!Of, M!Select
<1> HIDE DEF e
<1> QED  BY <1>1 DEF AccountCut, M!DeleteIds, M!Restrict, e

LEMMA LocalGroupCut ==
  ASSUME NEW d, Sections \subseteq DOMAIN d, NEW g
  PROVE  LET e == L!DeleteGroup(d, g)
         IN  /\ GroupCut(d, e, g)
             /\ \A a \in DOMAIN d.accounts :
                   e.accounts[a] = [d.accounts[a] EXCEPT !.allowed = @ \ {g}]
<1> DEFINE e == L!DeleteGroup(d, g)
<1>1. /\ Sections \subseteq DOMAIN e
      /\ e.accounts = L!Disallowed(d.accounts, g) /\ e.groups = d.groups \ {g}
      /\ e.members = {m \in d.members : m[2] # g}
      /\ e.keys = L!Ungrouped(d.keys, g) /\ e.subs = L!Ungrouped(d.subs, g)
  BY DEF L!DeleteGroup, Sections
<1> HIDE DEF e
<1> QED  BY <1>1 DEF GroupCut, L!Disallowed, L!Ungrouped, e

LEMMA MysqlGroupCut ==
  ASSUME NEW d, Sections \subseteq DOMAIN d, NEW g, NEW lists
  PROVE  LET e == M!CommitDeleteGroup(d, g, lists)
         IN  /\ GroupCut(d, e, g)
             /\ \A a \in DOMAIN d.accounts :
                   e.accounts[a] = IF a \in DOMAIN lists
                                   THEN [d.accounts[a] EXCEPT !.allowed = lists[a]] ELSE d.accounts[a]
<1> DEFINE e == M!CommitDeleteGroup(d, g, lists)
<1>1. /\ Sections \subseteq DOMAIN e
      /\ e.accounts = M!UpdateAllowed(d.accounts, lists) /\ e.groups = d.groups \ {g}
      /\ e.members = {m \in d.members : m[2] # g}
      /\ e.keys = M!SetNull(d.keys, g) /\ e.subs = M!SetNull(d.subs, g)
  BY DEF M!CommitDeleteGroup, Sections
<1> HIDE DEF e
<1> QED  BY <1>1 DEF GroupCut, M!UpdateAllowed, M!SetNull, e

\* Both storages make the same of the other calls.
LEMMA MembersEffect ==
  ASSUME NEW d, Sections \subseteq DOMAIN d, NEW a, NEW gs,
         NEW e \in {L!ReplaceGroups(d, a, gs), M!ReplaceGroups(d, a, gs)}
  PROVE  MembersPut(d, e, a, gs)
<1>1. {<<a, g>> : g \in gs} = {a} \X gs
  OBVIOUS
<1>2. CASE e = L!ReplaceGroups(d, a, gs)
  BY <1>2 DEF L!ReplaceGroups, MembersPut, Sections
<1>3. CASE e = M!ReplaceGroups(d, a, gs)
  BY <1>1, <1>3 DEF M!ReplaceGroups, MembersPut, Sections
<1> QED  BY <1>2, <1>3

LEMMA KeyEffect ==
  ASSUME NEW d, Sections \subseteq DOMAIN d, NEW k, NEW row,
         NEW e \in {L!UpsertKey(d, k, row), M!UpsertKey(d, k, row)}
  PROVE  /\ KeysPut(d, e) /\ DOMAIN e.keys = DOMAIN d.keys \cup {k} /\ e.keys[k] = row
         /\ \A i \in DOMAIN d.keys \ {k} : e.keys[i] = d.keys[i]
BY DEF L!UpsertKey, M!UpsertKey, L!Put, M!Replace, KeysPut, Sections

LEMMA KeyCutEffect ==
  ASSUME NEW d, Sections \subseteq DOMAIN d, NEW k,
         NEW e \in {L!DeleteKey(d, k), M!DeleteKey(d, k)}
  PROVE  /\ KeysPut(d, e) /\ DOMAIN e.keys = DOMAIN d.keys \ {k}
         /\ \A i \in DOMAIN d.keys \ {k} : e.keys[i] = d.keys[i]
BY DEF L!DeleteKey, M!DeleteKey, L!Drop, M!DeleteIds, L!Restrict, M!Restrict, KeysPut, Sections

LEMMA SwitchEffect ==
  ASSUME NEW d, Stored(d), NEW k, NEW on \in BOOLEAN,
         NEW e \in {L!SetKeyEnabled(d, k, on), M!SetKeyEnabled(d, k, on)}
  PROVE  /\ KeysPut(d, e) /\ DOMAIN e.keys = DOMAIN d.keys
         /\ \A i \in DOMAIN d.keys : e.keys[i] = IF i = k THEN [d.keys[i] EXCEPT !.enabled = on] ELSE d.keys[i]
<1>0. Sections \subseteq DOMAIN d /\ \A i \in DOMAIN d.keys : d.keys[i] \in KeyRows
  BY DEF Stored, Sections
<1>1. CASE e = L!SetKeyEnabled(d, k, on)
  <2>1. KeysPut(d, e)
    BY <1>0, <1>1 DEF L!SetKeyEnabled, KeysPut, Sections
  <2>2. e.keys = IF k \in DOMAIN d.keys THEN [d.keys EXCEPT ![k].enabled = on] ELSE d.keys
    BY <1>0, <1>1 DEF L!SetKeyEnabled, Sections
  <2> QED  BY <2>1, <2>2
<1>2. CASE e = M!SetKeyEnabled(d, k, on)
  <2>1. KeysPut(d, e)
    BY <1>0, <1>2 DEF M!SetKeyEnabled, KeysPut, Sections
  <2>2. e.keys = [i \in DOMAIN d.keys |-> [d.keys[i] EXCEPT !.enabled = IF i = k THEN on ELSE @]]
    BY <1>0, <1>2 DEF M!SetKeyEnabled, Sections
  <2>3. ASSUME NEW i \in DOMAIN d.keys
        PROVE  e.keys[i] = IF i = k THEN [d.keys[i] EXCEPT !.enabled = on] ELSE d.keys[i]
    <3>1. d.keys[i] \in KeyRows  BY <1>0
    <3> QED  BY <2>2, <3>1 DEF KeyRows
  <2> QED  BY <2>1, <2>2, <2>3
<1> QED  BY <1>1, <1>2

LEMMA SubEffect ==
  ASSUME NEW d, Sections \subseteq DOMAIN d, NEW s, NEW row,
         NEW e \in {L!UpsertSubscription(d, s, row), M!UpsertSubscription(d, s, row)}
  PROVE  SubPut(d, e, s, row)
BY DEF L!UpsertSubscription, M!UpsertSubscription, L!Put, M!Replace, SubPut, Sections

LEMMA GroupEffect ==
  ASSUME NEW d, Sections \subseteq DOMAIN d, NEW g,
         NEW e \in {L!UpsertGroup(d, g), M!UpsertGroup(d, g)}
  PROVE  GroupPut(d, e, g)
BY DEF L!UpsertGroup, M!UpsertGroup, GroupPut, Sections

-----------------------------------------------------------------------------
(* What a request knows.                                                    *)

Whole(d, st) ==
    /\ \A rows \in {d.keys, d.subs} : \A id \in DOMAIN rows :
          /\ rows[id].account \in DOMAIN d.accounts \cup st
          /\ rows[id].group \in d.groups \cup {None} \cup st
    /\ \A m \in d.members : m[1] \in DOMAIN d.accounts \cup st /\ m[2] \in d.groups \cup st
    /\ \A a \in DOMAIN d.accounts : d.accounts[a].allowed \subseteq d.groups \cup st

Had(d, a)      == {m[2] : m \in {m \in d.members : m[1] = a}}
Alone(d, a, x) == \A b \in DOMAIN d.accounts \ {a} : d.accounts[b].external # x

\* The unique key of the accounts' table.
Unshared(d, b) == b = "mysql" => \A a \in DOMAIN d.accounts : Alone(d, a, d.accounts[a].external)

\* A row that a request of this kind may store for an account that is off.
StaysOff(op, old, new) ==
    /\ op \in {"enable", "activate"} \/ ~new.enabled \/ old.enabled
    /\ op \in {"enable", "activate", "edit", "profile"} \/ ~Active(new) \/ Active(old)

\* Each member of the request's next write, in the contents that it read.
KnowsAccount(j, d, b) ==
    /\ b = "mysql" => Alone(d, j.account, j.row.external)
    /\ j.op = "create" => j.account \notin DOMAIN d.accounts /\ j.row.allowed = {}
    /\ j.op # "create" =>
          /\ j.account \in DOMAIN d.accounts
          /\ j.row.allowed \subseteq d.accounts[j.account].allowed
          /\ StaysOff(j.op, d.accounts[j.account], j.row)

KnowsKey(j, d, st) ==
    /\ j.account \in DOMAIN d.accounts
    /\ j.row.group \in d.groups \cup {None} \cup st
    /\ j.op = "create" <=> j.id \notin DOMAIN d.keys
    /\ j.op = "edit" => ~j.row.enabled \/ d.keys[j.id].enabled

KnowsSub(j, d, st) ==
    /\ j.account \in DOMAIN d.accounts \cup st
    /\ j.row.group \in d.groups \cup {None} \cup st
    /\ j.op # "assign" =>
          /\ j.id \in DOMAIN d.subs
          /\ d.subs[j.id].status = "active" \/ j.row.status # "active"
          /\ \/ j.row.expires = d.subs[j.id].expires
             \/ j.op = "extend" /\ d.subs[j.id].expires = None
             \/ j.op = "extend" /\ j.row.expires > d.subs[j.id].expires

Knows(p, j, d, b, st) ==
    /\ p = "account" => KnowsAccount(j, d, b)
    /\ p \in {"account", "groups"} => j.groups \subseteq d.groups \cup st
    /\ p = "groups" => /\ j.account \in DOMAIN d.accounts \cup st
                       /\ j.op = "assign" => Had(d, j.account) \subseteq j.groups
                       /\ j.op # "assign" => j.account \in DOMAIN d.accounts
    /\ p = "invite" => j.account \in DOMAIN d.accounts
    /\ p = "key" => KnowsKey(j, d, st)
    /\ p = "sub" => KnowsSub(j, d, st)
    /\ p = "members" => /\ j.account \in DOMAIN d.accounts \cup st
                        /\ j.row.group \in d.groups \cup st
    /\ p = "copy" => j.id \in d.groups
    /\ p = "paste" => \A a \in DOMAIN j.plan :
                         /\ a \in DOMAIN d.accounts \cup st
                         /\ j.plan[a] \subseteq d.groups \cup st /\ Had(d, a) \subseteq j.plan[a]
    /\ p = "commit" => \A a \in DOMAIN j.plan :
                          a \in DOMAIN d.accounts /\ j.plan[a] \subseteq d.accounts[a].allowed \ {j.id}

\* A deletion of a group that has selected the lists has all that name it:
\* whatever is stored since, no list grows but by what is in strays.
Listed(p, j, d, st) ==
    p = "commit" => \A a \in DOMAIN d.accounts :
                       j.id \in d.accounts[a].allowed => a \in DOMAIN j.plan \/ j.id \in st

JobsApart == \A h \in Handlers : job[h].op \in {"create", "profile", "edit", "activate"} => Apart(job[h].groups)

IInv ==
    /\ TypeOK /\ Whole(db, strays) /\ Unshared(db, backend) /\ JobsApart /\ ExclusiveApart
    /\ \A h \in Handlers : pc[h] = "idle" \/ late[h] \/ Knows(pc[h], job[h], db, backend, strays)
    /\ \A h \in Handlers : Listed(pc[h], job[h], db, strays)

-----------------------------------------------------------------------------
LEMMA ApartShrinks ==
  ASSUME NEW gs, NEW hs, gs \subseteq Groups, hs \subseteq gs, Apart(gs)
  PROVE  Apart(hs)
<1> DEFINE G == gs \cap Exclusive
           H == hs \cap Exclusive
<1>1. IsFiniteSet(G)
  BY FS_Subset, AdminAssumption
<1>2. IsFiniteSet(H) /\ Cardinality(H) <= Cardinality(G)
  BY <1>1, FS_Subset, H \subseteq G
<1>3. Cardinality(G) \in Nat /\ Cardinality(H) \in Nat
  BY <1>1, <1>2, FS_CardinalityType
<1> QED  BY <1>2, <1>3 DEF Apart

LEMMA NoneApart == Apart({})
<1>1. {} \cap Exclusive = {}  OBVIOUS
<1> QED  BY <1>1, FS_EmptySet DEF Apart

LEMMA Same == ASSUME NEW d, NEW a PROVE L!GroupsOf(d, a) = Had(d, a) /\ M!GroupsOf(d, a) = Had(d, a)
BY DEF L!GroupsOf, M!GroupsOf, Had

LEMMA ExclusiveMeans == ExclusiveApart <=> \A a \in Accounts : Apart(Had(db, a)) \/ a \in joined
BY DEF ExclusiveApart, Had

LEMMA ExclusiveMeansNext ==
  ExclusiveApart' <=> \A a \in Accounts : Apart(Had(db', a)) \/ a \in joined'
BY DEF ExclusiveApart, Had, Apart

LEMMA OrphansMean == OrphansRaced <=> Whole(db, strays)
BY DEF OrphansRaced, Whole, Row

LEMMA MoreStrays ==
  ASSUME NEW p, NEW j, NEW d, NEW b, NEW st, NEW su, st \subseteq su
  PROVE  /\ Knows(p, j, d, b, st) => Knows(p, j, d, b, su)
         /\ Listed(p, j, d, st) => Listed(p, j, d, su)
BY DEF Knows, KnowsKey, KnowsSub, Listed

\* A step that stores nothing.
LEMMA Quiet ==
  ASSUME IInv, NEW h \in Handlers, NEW p, NEW j,
         UNCHANGED <<db, backend, strays, joined>>, calls' \in 0..MaxCalls,
         pc' = [pc EXCEPT ![h] = p], job' = [job EXCEPT ![h] = j],
         late' \in [Handlers -> BOOLEAN], \A g \in Handlers \ {h} : late'[g] = late[g],
         JobOK(p, j), j.op \in {"create", "profile", "edit", "activate"} => Apart(j.groups),
         p = "idle" \/ late'[h] \/ Knows(p, j, db, backend, strays),
         Listed(p, j, db, strays)
  PROVE  IInv'
<1>1. /\ pc'[h] = p /\ job'[h] = j
      /\ \A g \in Handlers \ {h} : pc'[g] = pc[g] /\ job'[g] = job[g]
      /\ DOMAIN pc' = Handlers /\ DOMAIN job' = Handlers
  BY DEF IInv, TypeOK
<1>2. TypeOK'
  <2>1. \A g \in Handlers : JobOK(pc'[g], job'[g])
    BY <1>1 DEF IInv, TypeOK
  <2> QED  BY <1>1, <2>1 DEF IInv, TypeOK
<1>3. JobsApart'
  BY <1>1 DEF IInv, JobsApart
<1>4. ExclusiveApart'
  BY ExclusiveMeans, ExclusiveMeansNext DEF IInv
<1>5. \A g \in Handlers : pc'[g] = "idle" \/ late'[g] \/ Knows(pc'[g], job'[g], db, backend, strays)
  BY <1>1 DEF IInv
<1>6. \A g \in Handlers : Listed(pc'[g], job'[g], db, strays)
  BY <1>1 DEF IInv
<1> QED  BY <1>2, <1>3, <1>4, <1>5, <1>6 DEF IInv

\* A write: whoever else is under way is late, unless nothing changed.
LEMMA Wrote ==
  ASSUME IInv, NEW h \in Handlers, NEW d, NEW p, NEW j,
         Write(h, d, p),
         DOMAIN job' = Handlers, job'[h] = j, \A g \in Handlers \ {h} : job'[g] = job[g],
         Stored(d), Whole(d, strays'), Unshared(d, backend), joined' \subseteq Accounts,
         \A a \in Accounts : Apart(Had(d, a)) \/ a \in joined',
         \A a \in DOMAIN d.accounts : \A g \in d.accounts[a].allowed \ strays' :
            a \in DOMAIN db.accounts /\ g \in db.accounts[a].allowed,
         JobOK(p, j), j.op \in {"create", "profile", "edit", "activate"} => Apart(j.groups), p # "commit",
         p = "idle" \/ late[h] \/ Knows(p, j, d, backend, strays')
  PROVE  IInv'
<1>1. /\ pc'[h] = p /\ job'[h] = j /\ late'[h] = late[h]
      /\ \A g \in Handlers \ {h} : pc'[g] = pc[g] /\ job'[g] = job[g]
      /\ DOMAIN pc' = Handlers /\ DOMAIN job' = Handlers
      /\ db' = d /\ backend' = backend /\ calls' = calls
  BY DEF IInv, TypeOK, Write
<1>2. late' \in [Handlers -> BOOLEAN]
  BY DEF IInv, TypeOK, Write
<1>3. strays \subseteq strays'
  BY DEF Write
<1>4. TypeOK'
  <2>1. \A g \in Handlers : JobOK(pc'[g], job'[g])
    BY <1>1 DEF IInv, TypeOK
  <2> QED  BY <1>1, <1>2, <2>1 DEF IInv, TypeOK
<1>5. JobsApart'
  BY <1>1 DEF IInv, JobsApart
<1>6. ExclusiveApart'
  BY <1>1, ExclusiveMeansNext
<1>7. ASSUME NEW g \in Handlers
      PROVE  pc'[g] = "idle" \/ late'[g] \/ Knows(pc'[g], job'[g], db', backend', strays')
  <2>1. CASE g = h
    BY <1>1, <2>1
  <2>2. CASE g # h /\ (late[g] \/ pc[g] = "idle")
    BY <1>1, <2>2 DEF Write
  <2>3. CASE g # h /\ ~late[g] /\ pc[g] # "idle" /\ d # db
    BY <1>1, <2>3 DEF Write
  <2>4. CASE g # h /\ ~late[g] /\ pc[g] # "idle" /\ d = db
    <3>1. Knows(pc[g], job[g], db, backend, strays)
      BY <2>4 DEF IInv
    <3> QED  BY <1>1, <1>3, <2>4, <3>1, MoreStrays
  <2> QED  BY <2>1, <2>2, <2>3, <2>4
<1>8. ASSUME NEW g \in Handlers PROVE Listed(pc'[g], job'[g], db', strays')
  <2>1. CASE g = h
    BY <1>1, <2>1 DEF Listed
  <2>2. CASE g # h
    <3>1. Listed(pc[g], job[g], db, strays)
      BY DEF IInv
    <3> QED  BY <1>1, <1>3, <2>2, <3>1 DEF Listed
  <2> QED  BY <2>1, <2>2
<1> QED  BY <1>1, <1>4, <1>5, <1>6, <1>7, <1>8 DEF IInv

LEMMA InitInv == Init => IInv
<1> SUFFICES ASSUME Init PROVE IInv
  OBVIOUS
<1>1. PICK a \in Accounts, x \in Externals, g \in Groups, k \in Keys, s \in Subs,
           allowed \in SUBSET Groups, end \in {None, 1} :
         db = [Empty EXCEPT
                 !.accounts = L!Put(@, a, [external |-> x, status |-> "active", enabled |-> TRUE, allowed |-> allowed]),
                 !.members  = {<<a, g>>},
                 !.keys     = L!Put(@, k, [account |-> a, group |-> g, enabled |-> FALSE]),
                 !.subs     = L!Put(@, s, [account |-> a, group |-> g, status |-> "active",
                                           expires |-> end, quota |-> 1])]
  BY DEF Init
<1>2. /\ Sections \subseteq DOMAIN db
      /\ db.groups = Groups /\ db.members = {<<a, g>>}
      /\ db.accounts = L!Put(<<>>, a, [external |-> x, status |-> "active", enabled |-> TRUE, allowed |-> allowed])
      /\ db.keys = L!Put(<<>>, k, [account |-> a, group |-> g, enabled |-> FALSE])
      /\ db.subs = L!Put(<<>>, s, [account |-> a, group |-> g, status |-> "active",
                                   expires |-> end, quota |-> 1])
  BY <1>1 DEF Empty, Sections
<1>3. DOMAIN <<>> = {}
  OBVIOUS
<1>4. /\ DOMAIN db.accounts = {a} /\ db.accounts[a] = [external |-> x, status |-> "active", enabled |-> TRUE, allowed |-> allowed]
      /\ DOMAIN db.keys = {k} /\ db.keys[k] = [account |-> a, group |-> g, enabled |-> FALSE]
      /\ DOMAIN db.subs = {s}
      /\ db.subs[s] = [account |-> a, group |-> g, status |-> "active", expires |-> end, quota |-> 1]
  BY <1>2, <1>3 DEF L!Put
<1>5. Stored(db)
  <2>1. db.accounts[a] \in AccountRows
    BY <1>4 DEF AccountRows
  <2>2. db.keys[k] \in KeyRows
    BY <1>4 DEF KeyRows
  <2>3. db.subs[s] \in SubRows
    BY <1>4 DEF SubRows
  <2>4. db.groups \subseteq Groups /\ db.members \subseteq Accounts \X Groups
    BY <1>2
  <2>5. /\ DOMAIN db.accounts \subseteq Accounts /\ \A b \in DOMAIN db.accounts : db.accounts[b] \in AccountRows
        /\ DOMAIN db.keys \subseteq Keys /\ \A b \in DOMAIN db.keys : db.keys[b] \in KeyRows
        /\ DOMAIN db.subs \subseteq Subs /\ \A b \in DOMAIN db.subs : db.subs[b] \in SubRows
    BY <1>4, <2>1, <2>2, <2>3
  <2> QED  BY <1>2, <2>4, <2>5 DEF Stored, Sections
<1>6. Whole(db, strays)
  <2>1. \A id \in DOMAIN db.keys : db.keys[id].account = a /\ db.keys[id].group = g
    BY <1>4
  <2>2. \A id \in DOMAIN db.subs : db.subs[id].account = a /\ db.subs[id].group = g
    BY <1>4
  <2>3. \A b \in DOMAIN db.accounts : db.accounts[b].allowed \subseteq Groups
    BY <1>4
  <2>4. \A m \in db.members : m[1] = a /\ m[2] = g
    BY <1>2
  <2> QED  BY <1>2, <1>4, <2>1, <2>2, <2>3, <2>4 DEF Whole
<1>7. Unshared(db, backend)
  BY <1>4 DEF Unshared, Alone
<1>8. /\ \A h \in Handlers : pc[h] = "idle" /\ job[h] = NoJob
      /\ DOMAIN pc = Handlers /\ DOMAIN job = Handlers /\ late \in [Handlers -> BOOLEAN]
      /\ backend \in {"local", "mysql"} /\ joined = {} /\ calls = 0
  BY DEF Init
<1>9. TypeOK
  <2>1. JobOK("idle", NoJob)
    BY <1>3 DEF JobOK, NoJob, Steps
  <2> QED  BY <1>5, <1>8, <2>1, AdminAssumption DEF TypeOK
<1>10. JobsApart
  BY <1>8 DEF JobsApart, NoJob
<1>11. ExclusiveApart
  <2>1. ASSUME NEW b \in Accounts PROVE Apart(Had(db, b))
    <3>1. Had(db, b) \subseteq {g}
      BY <1>2 DEF Had
    <3>2. {g} \cap Exclusive = {} \/ {g} \cap Exclusive = {g}
      OBVIOUS
    <3>3. Apart({g})
      <4>1. Cardinality({g}) = 1 /\ Cardinality({}) = 0
        BY FS_EmptySet, FS_Singleton
      <4> QED  BY <3>2, <4>1 DEF Apart
    <3> QED  BY <3>1, <3>3, ApartShrinks
  <2> QED  BY <2>1, ExclusiveMeans
<1> QED  BY <1>6, <1>7, <1>8, <1>9, <1>10, <1>11 DEF IInv, Listed

-----------------------------------------------------------------------------
(* What the requests validate, and read, is what they then know.           *)

LEMMA Begun ==
  ASSUME IInv, NEW h \in Handlers, NEW p, NEW j, Begin(h, p, j), p # "commit", JobOK(p, j),
         j.op \in {"create", "profile", "edit", "activate"} => Apart(j.groups),
         Knows(p, j, db, backend, strays)
  PROVE  IInv'
<1>1. /\ UNCHANGED <<db, backend, strays, joined>>
      /\ pc' = [pc EXCEPT ![h] = p] /\ job' = [job EXCEPT ![h] = j]
  BY DEF Begin
<1>2. calls' \in 0..MaxCalls
  BY AdminAssumption DEF Begin, IInv, TypeOK
<1>3. late' \in [Handlers -> BOOLEAN] /\ \A g \in Handlers \ {h} : late'[g] = late[g]
  BY DEF Begin, IInv, TypeOK
<1>4. Listed(p, j, db, strays)
  BY DEF Listed
<1> QED  BY <1>1, <1>2, <1>3, <1>4, Quiet

LEMMA AccountFields ==
  ASSUME NEW op, NEW a, NEW row, NEW gs
  PROVE  LET j == AccountJob(op, a, row, gs)
         IN  /\ DOMAIN j = DOMAIN NoJob /\ j.op = op /\ j.account = a /\ j.id = None /\ j.row = row
             /\ j.groups = gs /\ j.plan = <<>> /\ DOMAIN j.plan = {}
BY DEF AccountJob, NoJob

LEMMA KeyFields ==
  ASSUME NEW op, NEW k, NEW a, NEW row
  PROVE  LET j == KeyJob(op, k, a, row)
         IN  /\ DOMAIN j = DOMAIN NoJob /\ j.op = op /\ j.account = a /\ j.id = k /\ j.row = row
             /\ j.groups = {} /\ j.plan = <<>> /\ DOMAIN j.plan = {}
BY DEF KeyJob, NoJob

LEMMA AccountJobOK ==
  ASSUME NEW p \in {"account", "remove"}, NEW op, <<p, op>> \in Steps, NEW a \in Accounts, NEW row,
         p = "account" => row \in AccountRows, NEW gs, gs \subseteq Groups
  PROVE  JobOK(p, AccountJob(op, a, row, gs))
<1> DEFINE j == AccountJob(op, a, row, gs)
<1>1. /\ DOMAIN j = DOMAIN NoJob /\ j.op = op /\ j.account = a /\ j.id = None /\ j.row = row
      /\ j.groups = gs /\ DOMAIN j.plan = {}
  BY AccountFields
<1> HIDE DEF j
<1>2. JobOK(p, j)
  BY <1>1 DEF JobOK
<1> QED  BY <1>2 DEF j

LEMMA KeyJobOK ==
  ASSUME NEW p \in {"key", "switch", "removekey", "sub"}, NEW op, <<p, op>> \in Steps,
         NEW a \in Accounts, NEW k, NEW row, p = "sub" => k \in Subs, p # "sub" => k \in Keys,
         p = "key" => row \in KeyRows, p = "sub" => row \in SubRows,
         p \in {"key", "sub"} => row.account = a
  PROVE  JobOK(p, KeyJob(op, k, a, row))
<1> DEFINE j == KeyJob(op, k, a, row)
<1>1. /\ DOMAIN j = DOMAIN NoJob /\ j.op = op /\ j.account = a /\ j.id = k /\ j.row = row
      /\ j.groups = {} /\ DOMAIN j.plan = {}
  BY KeyFields
<1> HIDE DEF j
<1>2. JobOK(p, j)
  BY <1>1 DEF JobOK
<1> QED  BY <1>2 DEF j

LEMMA InStore ==
  ASSUME IInv
  PROVE  /\ Sections \subseteq DOMAIN db /\ backend \in {"local", "mysql"}
         /\ db.groups \subseteq Groups /\ db.members \subseteq Accounts \X Groups
         /\ DOMAIN db.accounts \subseteq Accounts /\ DOMAIN db.keys \subseteq Keys /\ DOMAIN db.subs \subseteq Subs
         /\ \A a \in DOMAIN db.accounts : Row(a) \in AccountRows
         /\ \A k \in DOMAIN db.keys :
               /\ db.keys[k] \in KeyRows /\ db.keys[k].account \in DOMAIN db.accounts \cup strays
               /\ db.keys[k].group \in db.groups \cup {None} \cup strays
         /\ \A s \in DOMAIN db.subs :
               /\ db.subs[s] \in SubRows /\ db.subs[s].account \in DOMAIN db.accounts \cup strays
               /\ db.subs[s].group \in db.groups \cup {None} \cup strays
BY DEF IInv, TypeOK, Stored, Whole, Row, Sections

LEMMA KeyGroupMeans ==
  ASSUME NEW a, NEW g, KeyGroup(a, g)
  PROVE  g = None \/ g \in db.groups
BY DEF KeyGroup, ValidSet

LEMMA AccountBegun ==
  ASSUME IInv, NEW h \in Handlers, NEW op, NEW a \in Accounts, NEW row \in AccountRows, NEW gs,
         <<"account", op>> \in Steps, gs \subseteq db.groups, Apart(gs),
         Unique(a, row.external) \/ (Known(a) /\ row.external = Row(a).external),
         op = "create" => ~Known(a) /\ row.allowed = {},
         op # "create" => /\ Known(a) /\ row.allowed \subseteq Row(a).allowed
                          /\ StaysOff(op, Row(a), row),
         Begin(h, "account", AccountJob(op, a, row, gs))
  PROVE  IInv'
<1> DEFINE j == AccountJob(op, a, row, gs)
<1>1. /\ j.op = op /\ j.account = a /\ j.row = row /\ j.groups = gs
  BY AccountFields
<1>2. JobOK("account", j)
  BY AccountJobOK, InStore
<1> HIDE DEF j
<1>3. backend = "mysql" => Alone(db, a, row.external)
  BY DEF IInv, Unshared, Alone, Unique, Known, Row
<1>4. KnowsAccount(j, db, backend)
  BY <1>1, <1>3 DEF KnowsAccount, Known, Row
<1>5. Knows("account", j, db, backend, strays)
  BY <1>1, <1>4 DEF Knows
<1>6. Begin(h, "account", j)
  BY DEF j
<1> QED  BY <1>1, <1>2, <1>5, <1>6, Begun

LEMMA SwitchedRow ==
  ASSUME NEW row \in AccountRows, NEW flag \in Flags, NEW status \in Statuses
  PROVE  LET new == Switched(row, flag, status)
         IN  /\ new \in AccountRows /\ new.external = row.external /\ new.allowed = row.allowed
             /\ flag = "kept" => new.enabled = row.enabled
             /\ flag = "off" => ~new.enabled
<1> DEFINE on == IF flag = "kept" THEN row.enabled ELSE flag = "on"
           st == IF status # "kept" THEN status ELSE IF on THEN "active" ELSE "disabled"
           new == [row EXCEPT !.enabled = on, !.status = st]
<1>1. on \in BOOLEAN
  BY DEF AccountRows
<1>2. flag = "off" => ~on
  OBVIOUS
<1>3. flag = "kept" => on = row.enabled
  OBVIOUS
<1> HIDE DEF on
<1>4. st \in {"active", "disabled"}
  BY DEF Statuses
<1> HIDE DEF st
<1>5. /\ new \in AccountRows /\ new.external = row.external /\ new.allowed = row.allowed
      /\ new.enabled = on
  BY <1>1, <1>4 DEF AccountRows
<1>6. new = Switched(row, flag, status)
  BY DEF Switched, on, st
<1> HIDE DEF new
<1> QED  BY <1>2, <1>3, <1>5, <1>6

LEMMA NewRow ==
  ASSUME NEW x \in Externals
  PROVE  NewAccount(x) \in AccountRows /\ NewAccount(x).external = x /\ NewAccount(x).allowed = {}
BY DEF NewAccount, AccountRows

LEMMA UpdateUserInv ==
  ASSUME IInv, NEW h \in Handlers, NEW a \in Accounts, NEW x \in Externals, NEW gs \in SUBSET Groups,
         NEW flag \in Flags, NEW status \in Statuses,
         CreateUser(h, a, x, flag, status, gs) \/ UpdateUser(h, a, x, flag, status, gs)
  PROVE  IInv'
<1>1. CASE CreateUser(h, a, x, flag, status, gs)
  <2> DEFINE row == Switched(NewAccount(x), flag, status)
  <2>1. row \in AccountRows /\ row.external = x /\ row.allowed = {}
    BY NewRow, SwitchedRow
  <2>2. gs \subseteq db.groups /\ Apart(gs) /\ Unique(a, x) /\ ~Known(a)
    BY <1>1 DEF CreateUser, ValidSet
  <2>3. Begin(h, "account", AccountJob("create", a, row, gs))
    BY <1>1 DEF CreateUser
  <2>4. <<"account", "create">> \in Steps
    BY DEF Steps
  <2> HIDE DEF row
  <2> QED  BY <2>1, <2>2, <2>3, <2>4, AccountBegun
<1>2. CASE UpdateUser(h, a, x, flag, status, gs)
  <2> DEFINE form == [Row(a) EXCEPT !.external = x]
             row  == Switched(form, flag, status)
             op   == IF flag = "on" \/ status = "active" THEN "activate" ELSE "edit"
  <2>1. gs \subseteq db.groups /\ Apart(gs) /\ Unique(a, x) /\ Known(a)
    BY <1>2 DEF UpdateUser, ValidSet
  <2>2. Row(a) \in AccountRows
    BY <2>1, InStore DEF Known
  <2>3. /\ form \in AccountRows /\ form.external = x /\ form.allowed = Row(a).allowed
        /\ form.enabled = Row(a).enabled
    BY <2>2 DEF AccountRows
  <2>4. Begin(h, "account", AccountJob(op, a, row, gs))
    BY <1>2 DEF UpdateUser
  <2>5. <<"account", op>> \in Steps /\ op \in {"activate", "edit"} /\ (op = "edit" => flag # "on")
    BY DEF Steps
  <2> HIDE DEF form, op
  <2>6. /\ row \in AccountRows /\ row.external = x /\ row.allowed = Row(a).allowed
        /\ flag = "kept" => row.enabled = Row(a).enabled
        /\ flag = "off" => ~row.enabled
    BY <2>3, SwitchedRow
  <2> HIDE DEF row
  <2>7. StaysOff(op, Row(a), row)
    <3>1. CASE op = "activate"
      BY <3>1 DEF StaysOff
    <3>2. CASE op = "edit" /\ flag = "kept"
      BY <2>6, <3>2 DEF StaysOff
    <3>3. CASE op = "edit" /\ flag = "off"
      BY <2>6, <3>3 DEF StaysOff
    <3> QED  BY <2>5, <3>1, <3>2, <3>3 DEF Flags
  <2> QED  BY <2>1, <2>4, <2>5, <2>6, <2>7, AccountBegun
<1> QED  BY <1>1, <1>2

LEMMA OwnRowInv ==
  ASSUME IInv, NEW h \in Handlers, NEW a \in Accounts, NEW on \in BOOLEAN, NEW x,
         \/ SetUserEnabled(h, a, on) \/ UpdateProfile(h, a)
         \/ x \in RandomKeys /\ ResetExternalKey(h, a, x)
  PROVE  IInv'
<1>0. Known(a)
  BY DEF SetUserEnabled, ResetExternalKey, UpdateProfile
<1>1. Row(a) \in AccountRows
  BY <1>0, InStore DEF Known
<1>2. {} \subseteq db.groups /\ Apart({})
  BY NoneApart
<1>3. CASE SetUserEnabled(h, a, on)
  <2> DEFINE flag == IF on THEN "on" ELSE "off"
             row  == Switched(Row(a), flag, "kept")
             op   == IF on THEN "enable" ELSE "disable"
  <2>1. flag \in Flags /\ "kept" \in Statuses /\ (~on => flag = "off")
    BY DEF Flags, Statuses
  <2>2. Begin(h, "account", AccountJob(op, a, row, {}))
    BY <1>3 DEF SetUserEnabled
  <2>3. <<"account", op>> \in Steps /\ op # "create" /\ (op = "enable" \/ ~on)
    BY DEF Steps
  <2> HIDE DEF flag, op
  <2>4. /\ row \in AccountRows /\ row.external = Row(a).external /\ row.allowed = Row(a).allowed
        /\ ~on => ~row.enabled
    BY <1>1, <2>1, SwitchedRow
  <2> HIDE DEF row
  <2>5. StaysOff(op, Row(a), row)
    BY <2>3, <2>4 DEF StaysOff, Active
  <2> QED  BY <1>0, <1>2, <2>2, <2>3, <2>4, <2>5, AccountBegun
<1>4. CASE x \in RandomKeys /\ ResetExternalKey(h, a, x)
  <2> DEFINE row == [Row(a) EXCEPT !.external = x]
  <2>1. /\ row \in AccountRows /\ row.external = x /\ row.allowed = Row(a).allowed
        /\ row.enabled = Row(a).enabled /\ row.status = Row(a).status
    BY <1>1, <1>4 DEF AccountRows
  <2>2. Begin(h, "account", AccountJob("rekey", a, row, {})) /\ Unique(a, x)
    BY <1>4 DEF ResetExternalKey
  <2>3. <<"account", "rekey">> \in Steps
    BY DEF Steps
  <2> HIDE DEF row
  <2>4. StaysOff("rekey", Row(a), row)
    <3>1. (~row.enabled \/ Row(a).enabled) /\ (~Active(row) \/ Active(Row(a)))
      BY <2>1, Zenon DEF Active
    <3> QED  BY <3>1, Zenon DEF StaysOff
  <2> QED  BY <1>0, <1>2, <2>1, <2>2, <2>3, <2>4, AccountBegun
<1>5. CASE UpdateProfile(h, a)
  <2> DEFINE row == Switched(Row(a), "kept", "kept")
  <2>1. Begin(h, "account", AccountJob("profile", a, row, {}))
    BY <1>5 DEF UpdateProfile
  <2>2. <<"account", "profile">> \in Steps /\ "kept" \in Flags /\ "kept" \in Statuses
    BY DEF Steps, Flags, Statuses
  <2>3. /\ row \in AccountRows /\ row.external = Row(a).external /\ row.allowed = Row(a).allowed
        /\ row.enabled = Row(a).enabled
    BY <1>1, <2>2, SwitchedRow
  <2> HIDE DEF row
  <2>4. StaysOff("profile", Row(a), row)
    <3>1. ~row.enabled \/ Row(a).enabled
      BY <2>3, Zenon
    <3> QED  BY <3>1, Zenon DEF StaysOff
  <2> QED  BY <1>0, <1>2, <2>1, <2>2, <2>3, <2>4, AccountBegun
<1> QED  BY <1>3, <1>4, <1>5

LEMMA DeletionInv ==
  ASSUME IInv, NEW h \in Handlers, NEW a \in Accounts, DeleteUser(h, a)
  PROVE  IInv'
<1> DEFINE j == AccountJob("delete", a, NoRow, {})
<1>1. j.op = "delete"
  BY AccountFields
<1>2. JobOK("remove", j)
  BY AccountJobOK DEF Steps
<1>3. Begin(h, "remove", j)
  BY DEF DeleteUser
<1> HIDE DEF j
<1>4. Knows("remove", j, db, backend, strays)
  BY DEF Knows
<1> QED  BY <1>1, <1>2, <1>3, <1>4, Begun

LEMMA KeyBegun ==
  ASSUME IInv, NEW h \in Handlers, NEW op, NEW k \in Keys, NEW a \in Accounts, NEW row \in KeyRows,
         <<"key", op>> \in Steps, Known(a), row.account = a,
         row.group \in db.groups \cup {None} \cup strays,
         op = "create" <=> k \notin DOMAIN db.keys,
         op = "edit" => ~row.enabled \/ db.keys[k].enabled,
         Begin(h, "key", KeyJob(op, k, a, row))
  PROVE  IInv'
<1> DEFINE j == KeyJob(op, k, a, row)
<1>1. /\ j.op = op /\ j.account = a /\ j.id = k /\ j.row = row /\ j.groups = {}
  BY KeyFields
<1>2. JobOK("key", j)
  BY KeyJobOK
<1>3. Begin(h, "key", j)
  OBVIOUS
<1> HIDE DEF j
<1>4. Knows("key", j, db, backend, strays)
  BY <1>1 DEF Knows, KnowsKey, Known
<1> QED  BY <1>1, <1>2, <1>3, <1>4, NoneApart, Begun

LEMMA KeyRequestInv ==
  ASSUME IInv, NEW h \in Handlers, NEW k \in Keys, NEW a \in Accounts, NEW on \in BOOLEAN,
         NEW g \in Groups \cup {None}, CreateApiKey(h, k, a, g) \/ UpdateApiKey(h, k, a, on)
  PROVE  IInv'
<1>1. CASE CreateApiKey(h, k, a, g)
  <2> DEFINE row == [account |-> a, group |-> g, enabled |-> TRUE]
  <2>1. row \in KeyRows /\ row.account = a /\ row.group = g
    BY DEF KeyRows
  <2>2. /\ Begin(h, "key", KeyJob("create", k, a, row)) /\ k \notin DOMAIN db.keys
        /\ Known(a) /\ KeyGroup(a, g)
    BY <1>1 DEF CreateApiKey
  <2>3. <<"key", "create">> \in Steps
    BY DEF Steps
  <2> HIDE DEF row
  <2> QED  BY <2>1, <2>2, <2>3, KeyGroupMeans, KeyBegun
<1>2. CASE UpdateApiKey(h, k, a, on)
  <2> DEFINE row == [db.keys[k] EXCEPT !.account = a, !.enabled = on \/ @]
             op  == IF on THEN "enable" ELSE "edit"
  <2>1. k \in DOMAIN db.keys /\ Known(a)
    BY <1>2 DEF UpdateApiKey
  <2>2. db.keys[k] \in KeyRows /\ db.keys[k].group \in db.groups \cup {None} \cup strays
    BY <2>1, InStore
  <2>3. row \in KeyRows /\ row.account = a /\ row.group = db.keys[k].group
    BY <2>2 DEF KeyRows
  <2>4. row.enabled <=> on \/ db.keys[k].enabled
    BY <2>2 DEF KeyRows
  <2>5. Begin(h, "key", KeyJob(op, k, a, row))
    BY <1>2 DEF UpdateApiKey
  <2>6. <<"key", op>> \in Steps /\ op # "create" /\ (op = "edit" => ~on)
    BY DEF Steps
  <2> HIDE DEF row, op
  <2> QED  BY <2>1, <2>2, <2>3, <2>4, <2>5, <2>6, KeyBegun
<1> QED  BY <1>1, <1>2

LEMMA KeySwitchInv ==
  ASSUME IInv, NEW h \in Handlers, NEW k \in Keys, NEW on \in BOOLEAN,
         SwitchKey(h, k, on) \/ DeleteApiKey(h, k)
  PROVE  IInv'
<1> DEFINE op == IF on THEN "enable" ELSE "disable"
<1>1. PICK p \in {"switch", "removekey"}, o \in {op, "delete"} :
        /\ <<p, o>> \in Steps
        /\ Begin(h, p, KeyJob(o, k, db.keys[k].account, NoRow))
  <2>1. CASE SwitchKey(h, k, on)
    BY <2>1 DEF SwitchKey, Steps
  <2>2. CASE DeleteApiKey(h, k)
    BY <2>2 DEF DeleteApiKey, Steps
  <2> QED  BY <2>1, <2>2
<1>2. k \in DOMAIN db.keys
  BY DEF SwitchKey, DeleteApiKey
<1>3. db.keys[k].account \in Accounts
  BY <1>2, InStore DEF KeyRows
<1> DEFINE j == KeyJob(o, k, db.keys[k].account, NoRow)
<1>4. j.op = o /\ j.groups = {}
  BY KeyFields
<1>5. JobOK(p, j)
  BY <1>1, <1>3, KeyJobOK
<1> HIDE DEF j
<1>6. Knows(p, j, db, backend, strays)
  BY DEF Knows
<1>7. Begin(h, p, j)
  BY <1>1 DEF j
<1> QED  BY <1>4, <1>5, <1>6, <1>7, NoneApart, Begun

LEMMA SubBegun ==
  ASSUME IInv, NEW h \in Handlers, NEW op, NEW s \in Subs, NEW row \in SubRows,
         <<"sub", op>> \in Steps, row.account \in DOMAIN db.accounts \cup strays,
         row.group \in db.groups \cup {None} \cup strays,
         op # "assign" => /\ s \in DOMAIN db.subs
                          /\ db.subs[s].status = "active" \/ row.status # "active"
                          /\ \/ row.expires = db.subs[s].expires
                             \/ op = "extend" /\ db.subs[s].expires = None
                             \/ op = "extend" /\ row.expires > db.subs[s].expires,
         Begin(h, "sub", KeyJob(op, s, row.account, row))
  PROVE  IInv'
<1> DEFINE j == KeyJob(op, s, row.account, row)
<1>1. /\ j.op = op /\ j.account = row.account /\ j.id = s /\ j.row = row /\ j.groups = {}
  BY KeyFields
<1>2. JobOK("sub", j)
  BY KeyJobOK DEF SubRows
<1>3. Begin(h, "sub", j)
  OBVIOUS
<1> HIDE DEF j
<1>4. Knows("sub", j, db, backend, strays)
  BY <1>1 DEF Knows, KnowsSub
<1> QED  BY <1>1, <1>2, <1>3, <1>4, NoneApart, Begun

LEMMA AssignInv ==
  ASSUME IInv, NEW h \in Handlers, NEW s \in Subs, NEW a \in Accounts, NEW g \in Groups \cup {None},
         AssignSubscription(h, s, a, g)
  PROVE  IInv'
<1> DEFINE row == [account |-> a, group |-> g, status |-> "active", expires |-> None, quota |-> 0]
<1>1. row \in SubRows /\ row.account = a /\ row.group = g
  BY DEF SubRows
<1>2. Begin(h, "sub", KeyJob("assign", s, a, row)) /\ Known(a) /\ KeyGroup(a, g)
  BY DEF AssignSubscription
<1>3. <<"sub", "assign">> \in Steps
  BY DEF Steps
<1> HIDE DEF row
<1> QED  BY <1>1, <1>2, <1>3, KeyGroupMeans, SubBegun DEF Known

LEMMA ChangeInv ==
  ASSUME IInv, NEW h \in Handlers, NEW s \in Subs, NEW op \in {"extend", "revoke", "reset"},
         ChangeSubscription(h, s, op)
  PROVE  IInv'
<1> DEFINE old == db.subs[s]
<1>1. s \in DOMAIN db.subs
  BY DEF ChangeSubscription
<1>2. /\ old \in SubRows /\ old.account \in DOMAIN db.accounts \cup strays
      /\ old.group \in db.groups \cup {None} \cup strays
  BY <1>1, InStore
<1> DEFINE new == CASE op = "extend" -> Pick(L!Extended(old, 1, 1), M!Extended(old, 1, 1))
                    [] op = "revoke" -> Pick(L!Revoked(old), M!Revoked(old))
                    [] op = "reset"  -> Pick(L!QuotaReset(old), M!QuotaReset(old))
<1>3. Begin(h, "sub", KeyJob(op, s, old.account, new))
  BY DEF ChangeSubscription
<1> HIDE DEF old
<1>4. CASE op = "extend"
  <2> DEFINE later == IF old.expires \in {None, 0} THEN 2 ELSE old.expires + 1
  <2>1. L!Extended(old, 1, 1) = [old EXCEPT !.expires = later]
    BY <1>2 DEF L!Extended, SubRows
  <2>2. M!Extended(old, 1, 1) = [old EXCEPT !.expires = later]
    BY <1>2 DEF M!Extended, SubRows
  <2>3. new = [old EXCEPT !.expires = later]
    BY <1>4, <2>1, <2>2 DEF Pick
  <2>4. later \in Int /\ (old.expires = None \/ later > old.expires)
    BY <1>2 DEF SubRows
  <2> HIDE DEF later, new
  <2>5. /\ new \in SubRows /\ new.account = old.account /\ new.group = old.group
        /\ new.status = old.status /\ new.expires = later
    BY <1>2, <2>3, <2>4 DEF SubRows
  <2>6. <<"sub", op>> \in Steps
    BY <1>4 DEF Steps
  <2>7. db.subs[s].status = "active" \/ new.status # "active"
    BY <2>5 DEF old
  <2>8. db.subs[s].expires = None \/ new.expires > db.subs[s].expires
    BY <2>4, <2>5 DEF old
  <2> QED  BY <1>1, <1>2, <1>3, <1>4, <2>5, <2>6, <2>7, <2>8, SubBegun
<1>5. CASE op \in {"revoke", "reset"}
  <2>1. /\ new \in SubRows /\ new.account = old.account /\ new.group = old.group
        /\ new.expires = old.expires /\ (new.status = "active" => old.status = "active")
    BY <1>2, <1>5 DEF Pick, L!Revoked, M!Revoked, L!QuotaReset, M!QuotaReset, SubRows
  <2> HIDE DEF new
  <2>2. <<"sub", op>> \in Steps
    BY <1>5 DEF Steps
  <2>3. db.subs[s].status = "active" \/ new.status # "active"
    BY <2>1 DEF old
  <2>4. new.expires = db.subs[s].expires
    BY <2>1 DEF old
  <2> QED  BY <1>1, <1>2, <1>3, <2>1, <2>2, <2>3, <2>4, SubBegun
<1> QED  BY <1>4, <1>5

LEMMA GroupRequestInv ==
  ASSUME IInv, NEW h \in Handlers, NEW g \in Groups, NEW from \in SUBSET Groups,
         UpsertGroup(h, g, from) \/ DeleteGroup(h, g)
  PROVE  IInv'
<1>1. CASE UpsertGroup(h, g, from)
  <2> DEFINE j == [NoJob EXCEPT !.op = "group", !.id = g, !.groups = from]
  <2>1. /\ DOMAIN j = DOMAIN NoJob /\ j.op = "group" /\ j.id = g /\ j.groups = from
        /\ DOMAIN j.plan = {}
    BY DEF NoJob
  <2>2. Begin(h, "group", j)
    BY <1>1 DEF UpsertGroup
  <2> HIDE DEF j
  <2>3. JobOK("group", j)
    BY <2>1 DEF JobOK, Steps
  <2>4. Knows("group", j, db, backend, strays)
    BY DEF Knows
  <2> QED  BY <2>1, <2>2, <2>3, <2>4, Begun
<1>2. CASE DeleteGroup(h, g)
  <2> DEFINE j == [NoJob EXCEPT !.op = "ungroup", !.id = g]
  <2>1. /\ DOMAIN j = DOMAIN NoJob /\ j.op = "ungroup" /\ j.id = g /\ j.groups = {}
        /\ DOMAIN j.plan = {}
    BY DEF NoJob
  <2>2. Begin(h, "ungroup", j)
    BY <1>2 DEF DeleteGroup
  <2> HIDE DEF j
  <2>3. JobOK("ungroup", j)
    BY <2>1 DEF JobOK, Steps
  <2>4. Knows("ungroup", j, db, backend, strays)
    BY DEF Knows
  <2> QED  BY <2>1, <2>2, <2>3, <2>4, Begun
<1> QED  BY <1>1, <1>2

LEMMA AskInv == ASSUME IInv, NEW h \in Handlers, Ask(h) PROVE IInv'
<1>1. ASSUME NEW a \in Accounts, NEW x \in Externals, NEW gs \in SUBSET Groups,
             NEW flag \in Flags, NEW status \in Statuses,
             CreateUser(h, a, x, flag, status, gs) \/ UpdateUser(h, a, x, flag, status, gs)
      PROVE  IInv'
  BY <1>1, UpdateUserInv
<1>2. ASSUME NEW a \in Accounts,
             \/ \E x \in RandomKeys : ResetExternalKey(h, a, x)
             \/ \E on \in BOOLEAN : SetUserEnabled(h, a, on)
             \/ UpdateProfile(h, a)
      PROVE  IInv'
  <2>1. ASSUME NEW x \in RandomKeys, ResetExternalKey(h, a, x) PROVE IInv'
    BY <2>1, OwnRowInv
  <2>2. ASSUME NEW on \in BOOLEAN, SetUserEnabled(h, a, on) PROVE IInv'
    BY <2>2, OwnRowInv
  <2>3. ASSUME UpdateProfile(h, a) PROVE IInv'
    BY <2>3, OwnRowInv
  <2> QED  BY <1>2, <2>1, <2>2, <2>3
<1>3. ASSUME NEW a \in Accounts, DeleteUser(h, a) PROVE IInv'
  BY <1>3, DeletionInv
<1>4. ASSUME NEW a \in Accounts, NEW k \in Keys,
             \/ \E g \in Groups \cup {None} : CreateApiKey(h, k, a, g)
             \/ \E on \in BOOLEAN : UpdateApiKey(h, k, a, on)
      PROVE  IInv'
  <2>1. ASSUME NEW g \in Groups \cup {None}, CreateApiKey(h, k, a, g) PROVE IInv'
    BY <2>1, KeyRequestInv
  <2>2. ASSUME NEW on \in BOOLEAN, UpdateApiKey(h, k, a, on) PROVE IInv'
    BY <2>2, KeyRequestInv
  <2> QED  BY <1>4, <2>1, <2>2
<1>5. ASSUME NEW a \in Accounts, NEW s \in Subs, NEW g \in Groups \cup {None},
             AssignSubscription(h, s, a, g)
      PROVE  IInv'
  BY <1>5, AssignInv
<1>6. ASSUME NEW k \in Keys, DeleteApiKey(h, k) \/ \E on \in BOOLEAN : SwitchKey(h, k, on)
      PROVE  IInv'
  <2>1. ASSUME NEW on \in BOOLEAN, SwitchKey(h, k, on) PROVE IInv'
    BY <2>1, KeySwitchInv
  <2>2. ASSUME DeleteApiKey(h, k) PROVE IInv'
    BY <2>2, KeySwitchInv
  <2> QED  BY <1>6, <2>1, <2>2
<1>7. ASSUME NEW s \in Subs, NEW op \in {"extend", "revoke", "reset"}, ChangeSubscription(h, s, op)
      PROVE  IInv'
  BY <1>7, ChangeInv
<1>8. ASSUME NEW g \in Groups,
             DeleteGroup(h, g) \/ \E from \in SUBSET (Groups \ {g}) : UpsertGroup(h, g, from)
      PROVE  IInv'
  <2>1. ASSUME NEW from \in SUBSET (Groups \ {g}), UpsertGroup(h, g, from) PROVE IInv'
    <3>1. from \in SUBSET Groups
      OBVIOUS
    <3> QED  BY <2>1, <3>1, GroupRequestInv
  <2>2. ASSUME DeleteGroup(h, g) PROVE IInv'
    <3>1. {} \in SUBSET Groups
      OBVIOUS
    <3> QED  BY <2>2, <3>1, GroupRequestInv
  <2> QED  BY <1>8, <2>1, <2>2
<1> QED  BY <1>1, <1>2, <1>3, <1>4, <1>5, <1>6, <1>7, <1>8 DEF Ask

-----------------------------------------------------------------------------
(* Steps that read, or that end a request.                                  *)

LEMMA Idle == JobOK("idle", NoJob) /\ NoJob.op = "none"
<1>1. DOMAIN <<>> = {}
  OBVIOUS
<1> QED  BY <1>1 DEF JobOK, NoJob, Steps

LEMMA FailInv == ASSUME IInv, NEW h \in Handlers, Fail(h) PROVE IInv'
<1>1. calls' \in 0..MaxCalls /\ late' \in [Handlers -> BOOLEAN]
      /\ \A g \in Handlers \ {h} : late'[g] = late[g]
  BY DEF Fail, IInv, TypeOK
<1>2. Listed("idle", NoJob, db, strays)
  BY DEF Listed
<1> QED  BY <1>1, <1>2, Idle, Quiet DEF Fail

LEMMA Read ==
  ASSUME IInv, NEW h \in Handlers, NEW p, NEW j,
         UNCHANGED <<db, backend, calls, late, strays, joined>>,
         pc' = [pc EXCEPT ![h] = p], job' = [job EXCEPT ![h] = j],
         JobOK(p, j), j.op \in {"create", "profile", "edit", "activate"} => Apart(j.groups),
         late[h] \/ Knows(p, j, db, backend, strays), Listed(p, j, db, strays)
  PROVE  IInv'
<1>1. calls' \in 0..MaxCalls /\ late' \in [Handlers -> BOOLEAN]
  BY DEF IInv, TypeOK
<1> QED  BY <1>1, Quiet

LEMMA MyJob ==
  ASSUME IInv, NEW h \in Handlers
  PROVE  /\ JobOK(pc[h], job[h]) /\ DOMAIN job = Handlers /\ DOMAIN pc = Handlers
         /\ job[h].op \in {"create", "profile", "edit", "activate"} => Apart(job[h].groups)
         /\ pc[h] = "idle" \/ late[h] \/ Knows(pc[h], job[h], db, backend, strays)
         /\ Listed(pc[h], job[h], db, strays)
BY DEF IInv, TypeOK, JobsApart

LEMMA InviteInv == ASSUME IInv, NEW h \in Handlers, Invite(h) PROVE IInv'
<1> DEFINE a   == job[h].account
           row == IF Known(a) THEN Row(a) ELSE job[h].row
           j   == AccountJob("invite", a, row, {})
<1>1. JobOK(pc[h], job[h]) /\ pc[h] = "invite" /\ (late[h] \/ Knows("invite", job[h], db, backend, strays))
  BY MyJob DEF Invite
<1>2. a \in Accounts /\ job[h].row \in AccountRows
  BY <1>1 DEF JobOK
<1>3. row \in AccountRows
  BY <1>2, InStore DEF Known
<1>4. /\ job' = [job EXCEPT ![h] = j] /\ pc' = [pc EXCEPT ![h] = "account"]
      /\ UNCHANGED <<db, backend, calls, late, strays, joined>>
  BY DEF Invite
<1>5. j.op = "invite" /\ j.account = a /\ j.row = row /\ j.groups = {}
  BY AccountFields
<1>6. JobOK("account", j)
  BY <1>2, <1>3, AccountJobOK DEF Steps
<1>7. Listed("account", j, db, strays)
  BY DEF Listed
<1>8. ASSUME ~late[h] PROVE Knows("account", j, db, backend, strays)
  <2>1. Known(a)
    BY <1>1, <1>8 DEF Knows, Known
  <2>2. row = db.accounts[a] /\ StaysOff("invite", db.accounts[a], row)
    BY <1>3, <2>1, Zenon DEF Row, StaysOff
  <2> HIDE DEF j, row
  <2>3. backend = "mysql" => Alone(db, a, row.external)
    BY <2>1, <2>2 DEF IInv, Unshared, Known
  <2> QED  BY <1>5, <2>1, <2>2, <2>3 DEF Knows, KnowsAccount, Known
<1> HIDE DEF j
<1> QED  BY <1>4, <1>5, <1>6, <1>7, <1>8, Read

LEMMA ReadMembersInv == ASSUME IInv, NEW h \in Handlers, ReadMembers(h) PROVE IInv'
<1> DEFINE a  == job[h].account
           gs == Had(db, a) \cup {job[h].row.group}
           j  == [job[h] EXCEPT !.groups = gs]
<1>1. /\ JobOK(pc[h], job[h]) /\ DOMAIN job = Handlers
      /\ pc[h] = "members" /\ (late[h] \/ Knows("members", job[h], db, backend, strays))
  BY MyJob DEF ReadMembers
<1>2. /\ job' = [job EXCEPT ![h] = j] /\ pc' = [pc EXCEPT ![h] = "groups"]
      /\ UNCHANGED <<db, backend, calls, late, strays, joined>>
  BY <1>1, Same DEF ReadMembers, Pick
<1>3. /\ j.op = job[h].op /\ j.account = a /\ j.row = job[h].row /\ j.id = job[h].id
      /\ j.plan = job[h].plan /\ j.groups = gs /\ DOMAIN j = DOMAIN NoJob
  BY <1>1 DEF JobOK, NoJob
<1>4. job[h].op = "assign"
  BY <1>1 DEF JobOK, Steps
<1>5. a \in Accounts /\ job[h].row \in SubRows
  BY <1>1 DEF JobOK
<1> HIDE DEF j
<1>6. Listed("groups", j, db, strays)
  BY DEF Listed
<1>7. ASSUME ~late[h] PROVE Knows("groups", j, db, backend, strays)
  <2>1. a \in DOMAIN db.accounts \cup strays /\ job[h].row.group \in db.groups \cup strays
    BY <1>1, <1>7 DEF Knows
  <2>2. Had(db, a) \subseteq db.groups \cup strays
    BY DEF IInv, Whole, Had
  <2> QED  BY <1>3, <1>4, <2>1, <2>2 DEF Knows
<1>8. gs \subseteq Groups
  <2>1. job[h].row.group \in Groups
    BY <1>1 DEF JobOK
  <2> QED  BY <2>1, InStore DEF Had
<1>9. JobOK("groups", j)
  <2>1. /\ DOMAIN job[h].plan \subseteq Accounts
        /\ \A b \in DOMAIN job[h].plan : job[h].plan[b] \subseteq Groups
    BY <1>1 DEF JobOK
  <2>2. <<"groups", "assign">> \in Steps
    BY DEF Steps
  <2> HIDE DEF gs
  <2> QED  BY <1>3, <1>4, <1>5, <1>8, <2>1, <2>2 DEF JobOK
<1> QED  BY <1>2, <1>3, <1>4, <1>6, <1>7, <1>9, Read

LEMMA CopyInv == ASSUME IInv, NEW h \in Handlers, CopyMembers(h) PROVE IInv'
<1> DEFINE from == {m[1] : m \in {m \in db.members : m[2] \in job[h].groups}}
           plan == [a \in from |-> L!GroupsOf(db, a) \cup {job[h].id}]
           j    == [job[h] EXCEPT !.plan = plan]
<1>1. /\ JobOK(pc[h], job[h]) /\ DOMAIN job = Handlers
      /\ pc[h] = "copy" /\ (late[h] \/ Knows("copy", job[h], db, backend, strays))
  BY MyJob DEF CopyMembers
<1>2. /\ job' = [job EXCEPT ![h] = j] /\ pc' = [pc EXCEPT ![h] = "paste"]
      /\ UNCHANGED <<db, backend, calls, late, strays, joined>>
  BY <1>1 DEF CopyMembers
<1>3. /\ j.op = job[h].op /\ j.id = job[h].id /\ j.groups = job[h].groups /\ j.plan = plan
      /\ DOMAIN j = DOMAIN NoJob
  BY <1>1 DEF JobOK, NoJob
<1>4. job[h].op = "group" /\ job[h].id \in Groups /\ job[h].groups \subseteq Groups
  BY <1>1 DEF JobOK, Steps
<1>5. /\ DOMAIN plan = from /\ \A a \in from : plan[a] = Had(db, a) \cup {job[h].id}
      /\ from \subseteq Accounts /\ \A a \in from : \E m \in db.members : a = m[1]
  BY Same, InStore
<1> HIDE DEF j, plan, from
<1>6. \A a \in Accounts : Had(db, a) \subseteq Groups /\ Had(db, a) \subseteq db.groups \cup strays
  BY InStore DEF IInv, Whole, Had
<1>7. JobOK("paste", j)
  BY <1>3, <1>4, <1>5, <1>6 DEF JobOK, Steps
<1>8. Listed("paste", j, db, strays)
  BY DEF Listed
<1>9. ASSUME ~late[h] PROVE Knows("paste", j, db, backend, strays)
  <2>1. job[h].id \in db.groups
    BY <1>1, <1>9 DEF Knows
  <2>2. \A a \in from : a \in DOMAIN db.accounts \cup strays
    BY <1>5 DEF IInv, Whole
  <2> QED  BY <1>3, <1>5, <1>6, <2>1, <2>2 DEF Knows
<1> QED  BY <1>2, <1>3, <1>4, <1>7, <1>8, <1>9, Read

LEMMA SelectInv == ASSUME IInv, NEW h \in Handlers, SelectLists(h) PROVE IInv'
<1> DEFINE plan == M!SelectAllowed(db.accounts, job[h].id)
           j    == [job[h] EXCEPT !.plan = plan]
<1>1. JobOK(pc[h], job[h]) /\ DOMAIN job = Handlers /\ pc[h] = "ungroup"
  BY MyJob DEF SelectLists
<1>2. /\ job' = [job EXCEPT ![h] = j] /\ pc' = [pc EXCEPT ![h] = "commit"]
      /\ UNCHANGED <<db, backend, calls, late, strays, joined>>
  BY <1>1 DEF SelectLists
<1>3. /\ j.op = job[h].op /\ j.id = job[h].id /\ j.groups = job[h].groups /\ j.plan = plan
      /\ DOMAIN j = DOMAIN NoJob
  BY <1>1 DEF JobOK, NoJob
<1>4. job[h].op = "ungroup" /\ job[h].id \in Groups /\ job[h].groups \subseteq Groups
  BY <1>1 DEF JobOK, Steps
<1>5. /\ DOMAIN plan = {a \in DOMAIN db.accounts : job[h].id \in db.accounts[a].allowed}
      /\ \A a \in DOMAIN plan : plan[a] = db.accounts[a].allowed \ {job[h].id}
  BY DEF M!SelectAllowed, M!Allowing, M!Select
<1> HIDE DEF j, plan
<1>6. \A a \in DOMAIN db.accounts : a \in Accounts /\ db.accounts[a].allowed \subseteq Groups
  BY InStore DEF Row, AccountRows
<1>7. JobOK("commit", j)
  BY <1>3, <1>4, <1>5, <1>6 DEF JobOK, Steps
<1>8. Listed("commit", j, db, strays)
  BY <1>3, <1>5 DEF Listed
<1>9. Knows("commit", j, db, backend, strays)
  BY <1>3, <1>5 DEF Knows
<1> QED  BY <1>2, <1>3, <1>4, <1>7, <1>8, <1>9, Read

-----------------------------------------------------------------------------
(* The writes.  What a late one stores, and takes, is in strays.            *)

LEMMA LateStrays ==
  ASSUME NEW h \in Handlers, NEW d, NEW p, Write(h, d, p)
  PROVE  /\ strays \subseteq strays'
         /\ late[h] => /\ job[h].account \in strays' /\ job[h].groups \subseteq strays'
                       /\ DOMAIN job[h].plan \subseteq strays'
                       /\ \A a \in DOMAIN job[h].plan : job[h].plan[a] \subseteq strays'
                       /\ DOMAIN db.accounts \ DOMAIN d.accounts \subseteq strays'
                       /\ job[h].row \in AccountRows => job[h].row.allowed \subseteq strays'
                       /\ job[h].row \in KeyRows \cup SubRows => job[h].row.group \in strays'
         /\ ~late[h] => strays' = strays
<1>1. CASE late[h]
  <2>1. Named(job[h]) \subseteq strays' /\ DOMAIN job[h].plan \subseteq strays'
        /\ strays \subseteq strays' /\ DOMAIN db.accounts \ DOMAIN d.accounts \subseteq strays'
    BY <1>1 DEF Write
  <2>2. /\ job[h].account \in Named(job[h]) /\ job[h].groups \subseteq Named(job[h])
        /\ \A a \in DOMAIN job[h].plan : job[h].plan[a] \subseteq Named(job[h])
    BY DEF Named
  <2>3. job[h].row \in AccountRows => job[h].row.allowed \subseteq Named(job[h])
    BY DEF Named, AccountRows
  <2>4. job[h].row \in KeyRows \cup SubRows => job[h].row.group \in Named(job[h])
    BY DEF Named, KeyRows, SubRows
  <2> QED  BY <1>1, <2>1, <2>2, <2>3, <2>4
<1>2. CASE ~late[h]
  BY <1>2 DEF Write
<1> QED  BY <1>1, <1>2

LEMMA WroteLast ==
  ASSUME IInv, NEW h \in Handlers, NEW d, Last(h, d),
         Stored(d), Whole(d, strays'), Unshared(d, backend), joined' \subseteq Accounts,
         \A a \in Accounts : Apart(Had(d, a)) \/ a \in joined',
         \A a \in DOMAIN d.accounts : \A g \in d.accounts[a].allowed \ strays' :
            a \in DOMAIN db.accounts /\ g \in db.accounts[a].allowed
  PROVE  IInv'
<1>1. /\ DOMAIN job' = Handlers /\ job'[h] = NoJob
      /\ \A g \in Handlers \ {h} : job'[g] = job[g]
  BY MyJob DEF Last
<1>2. Write(h, d, "idle")
  BY DEF Last
<1> QED  BY <1>1, <1>2, Idle, Wrote

LEMMA SaveAccountDoes ==
  ASSUME IInv, NEW h \in Handlers, SaveAccount(h)
  PROVE  \E d : /\ AccountPut(db, d, job[h].account, job[h].row)
                /\ \/ job[h].op \in {"create", "profile", "edit", "activate"} /\ Write(h, d, "groups") /\ UNCHANGED job
                   \/ job[h].op \notin {"create", "profile", "edit", "activate"} /\ Last(h, d)
                /\ \A b \in DOMAIN db.accounts :
                      b \in DOMAIN d.accounts \/ (backend = "mysql" /\ db.accounts[b].external = job[h].row.external)
                /\ backend = "mysql" => \A b \in DOMAIN d.accounts \ {job[h].account} :
                                           db.accounts[b].external # job[h].row.external
<1> DEFINE a == job[h].account
           l == L!UpsertAccount(db, a, job[h].row)
           m == M!UpsertAccount(db, a, job[h].row)
           d == Pick(l, m)
<1>1. \/ job[h].op \in {"create", "profile", "edit", "activate"} /\ Write(h, d, "groups") /\ UNCHANGED job
      \/ job[h].op \notin {"create", "profile", "edit", "activate"} /\ Last(h, d)
  BY DEF SaveAccount
<1>2. Sections \subseteq DOMAIN db /\ backend \in {"local", "mysql"}
  BY InStore
<1>3. AccountPut(db, l, a, job[h].row) /\ DOMAIN db.accounts \subseteq DOMAIN l.accounts
  BY <1>2, LocalAccountPut
<1>4. /\ AccountPut(db, m, a, job[h].row)
      /\ \A b \in DOMAIN db.accounts : b \in DOMAIN m.accounts \/ db.accounts[b].external = job[h].row.external
      /\ \A b \in DOMAIN m.accounts \ {a} : db.accounts[b].external # job[h].row.external
  BY <1>2, MysqlAccountPut
<1> HIDE DEF l, m
<1>5. CASE backend = "local"
  <2>1. d = l  BY <1>5 DEF Pick
  <2> HIDE DEF d
  <2> QED  BY <1>1, <1>3, <1>5, <2>1
<1>6. CASE backend = "mysql"
  <2>1. d = m  BY <1>6 DEF Pick
  <2> HIDE DEF d
  <2> QED  BY <1>1, <1>4, <1>6, <2>1
<1> QED  BY <1>2, <1>5, <1>6

LEMMA SaveAccountInv == ASSUME IInv, NEW h \in Handlers, SaveAccount(h) PROVE IInv'
<1> DEFINE j == job[h]
           a == j.account
<1>0. PICK d : /\ AccountPut(db, d, a, j.row)
               /\ \/ j.op \in {"create", "profile", "edit", "activate"} /\ Write(h, d, "groups") /\ UNCHANGED job
                  \/ j.op \notin {"create", "profile", "edit", "activate"} /\ Last(h, d)
               /\ \A b \in DOMAIN db.accounts :
                     b \in DOMAIN d.accounts \/ (backend = "mysql" /\ db.accounts[b].external = j.row.external)
               /\ backend = "mysql" => \A b \in DOMAIN d.accounts \ {a} :
                                          db.accounts[b].external # j.row.external
  BY SaveAccountDoes
<1>1. /\ pc[h] = "account" /\ joined' = joined /\ JobOK("account", j)
      /\ j.op \in {"create", "profile", "edit", "activate"} => Apart(j.groups)
      /\ late[h] \/ Knows("account", j, db, backend, strays)
      /\ DOMAIN job = Handlers
  BY MyJob DEF SaveAccount
<1>2. a \in Accounts /\ j.row \in AccountRows
  BY <1>1 DEF JobOK
<1>3. PICK p : Write(h, d, p)
  BY <1>0 DEF Last
<1> HIDE DEF j, a
<1>4. Stored(d)
  <2>1. \A b \in DOMAIN d.accounts : b \in Accounts /\ d.accounts[b] \in AccountRows
    BY <1>0, <1>2, InStore DEF AccountPut, Row
  <2>2. Stored(db)
    BY DEF IInv, TypeOK
  <2> QED  BY <1>0, <2>1, <2>2 DEF Stored, AccountPut, Sections
<1>5. strays \subseteq strays'
  BY <1>3, LateStrays
<1>6. DOMAIN db.accounts \subseteq DOMAIN d.accounts \cup strays'
  <2>1. CASE late[h]
    BY <1>3, <2>1, LateStrays
  <2>2. CASE ~late[h]
    <3>1. KnowsAccount(j, db, backend)
      BY <1>1, <2>2 DEF Knows
    <3> QED  BY <1>0, <3>1 DEF KnowsAccount, Alone, AccountPut, a
  <2> QED  BY <2>1, <2>2
<1>7. \A b \in DOMAIN d.accounts : \A g \in d.accounts[b].allowed \ strays' :
         b \in DOMAIN db.accounts /\ g \in db.accounts[b].allowed
  <2>1. \A b \in DOMAIN d.accounts \ {a} : b \in DOMAIN db.accounts /\ d.accounts[b] = db.accounts[b]
    BY <1>0 DEF AccountPut
  <2>2. d.accounts[a] = j.row
    BY <1>0 DEF AccountPut
  <2>3. CASE late[h]
    <3>1. j.row.allowed \subseteq strays'
      BY <1>2, <1>3, <2>3, LateStrays DEF j
    <3> QED  BY <2>1, <2>2, <3>1
  <2>4. CASE ~late[h]
    <3>1. KnowsAccount(j, db, backend)
      BY <1>1, <2>4 DEF Knows
    <3> QED  BY <2>1, <2>2, <3>1 DEF KnowsAccount, a
  <2> QED  BY <2>3, <2>4
<1>8. Whole(d, strays')
  <2>1. Whole(db, strays)
    BY DEF IInv
  <2>2. \A b \in DOMAIN d.accounts : d.accounts[b].allowed \subseteq d.groups \cup strays'
    BY <1>0, <1>5, <1>7, <2>1 DEF Whole, AccountPut
  <2> QED  BY <1>0, <1>5, <1>6, <2>1, <2>2 DEF Whole, AccountPut
<1>9. Unshared(d, backend)
  <2>1. Unshared(db, backend)
    BY DEF IInv
  <2> QED  BY <1>0, <2>1 DEF Unshared, Alone, AccountPut
<1>10. \A b \in Accounts : Apart(Had(d, b)) \/ b \in joined'
  <2>1. \A b \in Accounts : Had(d, b) = Had(db, b)
    BY <1>0 DEF AccountPut, Had
  <2> QED  BY <1>1, <2>1, ExclusiveMeans DEF IInv
<1>11. joined' \subseteq Accounts
  BY <1>1 DEF IInv, TypeOK
<1>12. CASE Last(h, d)
  BY <1>4, <1>7, <1>8, <1>9, <1>10, <1>11, <1>12, WroteLast
<1>13. CASE j.op \in {"create", "profile", "edit", "activate"} /\ Write(h, d, "groups") /\ UNCHANGED job
  <2>1. JobOK("groups", j)
    BY <1>1, <1>13 DEF JobOK, Steps
  <2>2. ASSUME ~late[h] PROVE Knows("groups", j, d, backend, strays')
    <3>1. j.groups \subseteq db.groups \cup strays
      BY <1>1, <2>2 DEF Knows
    <3>2. a \in DOMAIN d.accounts /\ d.groups = db.groups
      BY <1>0 DEF AccountPut
    <3> QED  BY <1>5, <1>13, <3>1, <3>2 DEF Knows, a
  <2>3. job'[h] = j /\ DOMAIN job' = Handlers /\ \A g \in Handlers \ {h} : job'[g] = job[g]
    BY <1>1, <1>13 DEF j
  <2> QED  BY <1>1, <1>4, <1>7, <1>8, <1>9, <1>10, <1>11, <1>13, <2>1, <2>2, <2>3, Wrote
<1> QED  BY <1>0, <1>12, <1>13

LEMMA MembersStored ==
  ASSUME IInv, NEW h \in Handlers, NEW d, NEW p, Write(h, d, p), NEW a \in Accounts, NEW gs \in SUBSET Groups,
         MembersPut(db, d, a, gs),
         a \in DOMAIN db.accounts \cup strays', gs \subseteq db.groups \cup strays'
  PROVE  /\ Stored(d) /\ Whole(d, strays') /\ Unshared(d, backend)
         /\ \A b \in DOMAIN d.accounts : \A g \in d.accounts[b].allowed \ strays' :
               b \in DOMAIN db.accounts /\ g \in db.accounts[b].allowed
         /\ Had(d, a) = gs /\ \A b \in Accounts \ {a} : Had(d, b) = Had(db, b)
<1>1. strays \subseteq strays'
  BY LateStrays
<1>2. Stored(db) /\ Whole(db, strays) /\ Unshared(db, backend)
  BY DEF IInv, TypeOK
<1>3. /\ d.accounts = db.accounts /\ d.groups = db.groups /\ d.keys = db.keys /\ d.subs = db.subs
      /\ Sections \subseteq DOMAIN d
      /\ d.members = {m \in db.members : m[1] # a} \cup ({a} \X gs)
  BY DEF MembersPut
<1>4. \A m \in d.members : m \in db.members \/ (m \in {a} \X gs /\ m[1] = a /\ m[2] \in gs)
  BY <1>3
<1>5. d.members \subseteq Accounts \X Groups
  BY <1>2, <1>3 DEF Stored
<1>6. Stored(d)
  BY <1>2, <1>3, <1>5 DEF Stored, Sections
<1>7. Whole(d, strays')
  BY <1>1, <1>2, <1>3, <1>4 DEF Whole
<1>8. Had(d, a) = gs
  <2>1. \A g \in Had(d, a) : g \in gs
    BY <1>3 DEF Had
  <2>2. ASSUME NEW g \in gs PROVE g \in Had(d, a)
    <3>1. <<a, g>> \in d.members
      BY <1>3
    <3> QED  BY <3>1 DEF Had
  <2> QED  BY <2>1, <2>2
<1>9. ASSUME NEW b \in Accounts \ {a} PROVE Had(d, b) = Had(db, b)
  <2>1. \A m : m[1] = b => (m \in d.members <=> m \in db.members)
    BY <1>3
  <2> QED  BY <2>1 DEF Had
<1> QED  BY <1>2, <1>3, <1>6, <1>7, <1>8, <1>9 DEF Unshared, Alone

LEMMA SaveGroupsInv == ASSUME IInv, NEW h \in Handlers, SaveGroups(h) PROVE IInv'
<1> DEFINE a  == job[h].account
           gs == job[h].groups
           d  == Pick(L!ReplaceGroups(db, a, gs), M!ReplaceGroups(db, a, gs))
<1>1. /\ pc[h] = "groups" /\ JobOK("groups", job[h]) /\ DOMAIN job = Handlers
      /\ job[h].op \in {"create", "profile", "edit", "activate"} => Apart(gs)
      /\ late[h] \/ Knows("groups", job[h], db, backend, strays)
  BY MyJob DEF SaveGroups
<1>2. /\ Last(h, d) \/ (job[h].op = "create" /\ Write(h, d, "invite") /\ UNCHANGED job)
      /\ joined' = IF job[h].op = "assign" THEN joined \cup {a} ELSE joined
  BY DEF SaveGroups
<1>3. MembersPut(db, d, a, gs)
  BY MembersEffect, InStore DEF Pick
<1>4. a \in Accounts /\ gs \in SUBSET Groups
  BY <1>1 DEF JobOK
<1>5. job[h].op \in {"create", "profile", "edit", "activate", "assign"}
  BY <1>1 DEF JobOK, Steps
<1> HIDE DEF d
<1>6. PICK p : Write(h, d, p)
  BY <1>2 DEF Last
<1>7. a \in DOMAIN db.accounts \cup strays' /\ gs \subseteq db.groups \cup strays'
  <2>1. CASE late[h]
    BY <1>6, <2>1, LateStrays
  <2>2. CASE ~late[h]
    <3>1. strays' = strays
      BY <1>6, <2>2, LateStrays
    <3> QED  BY <1>1, <2>2, <3>1 DEF Knows
  <2> QED  BY <2>1, <2>2
<1>8. /\ Stored(d) /\ Whole(d, strays') /\ Unshared(d, backend)
      /\ \A b \in DOMAIN d.accounts : \A g \in d.accounts[b].allowed \ strays' :
            b \in DOMAIN db.accounts /\ g \in db.accounts[b].allowed
      /\ Had(d, a) = gs /\ \A b \in Accounts \ {a} : Had(d, b) = Had(db, b)
  BY <1>3, <1>4, <1>6, <1>7, MembersStored
<1>9. joined' \subseteq Accounts
  BY <1>2, <1>4 DEF IInv, TypeOK
<1>10. \A b \in Accounts : Apart(Had(d, b)) \/ b \in joined'
  <2>1. \A b \in Accounts : Apart(Had(db, b)) \/ b \in joined
    BY ExclusiveMeans DEF IInv
  <2>2. Apart(gs) \/ a \in joined'
    BY <1>1, <1>2, <1>5
  <2>3. joined \subseteq joined'
    BY <1>2
  <2> QED  BY <1>8, <2>1, <2>2, <2>3
<1>11. CASE Last(h, d)
  BY <1>8, <1>9, <1>10, <1>11, WroteLast
<1>12. CASE job[h].op = "create" /\ Write(h, d, "invite") /\ UNCHANGED job
  <2>1. JobOK("invite", job[h])
    BY <1>1, <1>12 DEF JobOK, Steps
  <2>2. ASSUME ~late[h] PROVE Knows("invite", job[h], d, backend, strays')
    <3>1. a \in DOMAIN db.accounts
      BY <1>1, <1>12, <2>2 DEF Knows
    <3> QED  BY <1>3, <3>1 DEF Knows, MembersPut
  <2>3. DOMAIN job' = Handlers /\ job'[h] = job[h] /\ \A g \in Handlers \ {h} : job'[g] = job[g]
    BY <1>1, <1>12
  <2> QED  BY <1>1, <1>8, <1>9, <1>10, <1>12, <2>1, <2>2, <2>3, Wrote
<1> QED  BY <1>2, <1>11, <1>12

LEMMA PasteInv == ASSUME IInv, NEW h \in Handlers, PasteMembers(h) PROVE IInv'
<1> DEFINE plan == job[h].plan
<1>1. /\ pc[h] = "paste" /\ JobOK("paste", job[h]) /\ DOMAIN job = Handlers
      /\ late[h] \/ Knows("paste", job[h], db, backend, strays)
  BY MyJob DEF PasteMembers
<1>2. Stored(db) /\ Whole(db, strays) /\ Unshared(db, backend) /\ joined \subseteq Accounts
      /\ \A b \in Accounts : Apart(Had(db, b)) \/ b \in joined
  BY ExclusiveMeans DEF IInv, TypeOK
<1>3. CASE plan = <<>>
  <2>1. Last(h, db) /\ joined' = joined
    BY <1>3 DEF PasteMembers
  <2>2. Whole(db, strays')
    <3>1. strays \subseteq strays'
      BY <2>1, LateStrays DEF Last
    <3> QED  BY <1>2, <3>1 DEF Whole
  <2> QED  BY <1>2, <2>1, <2>2, WroteLast
<1>4. CASE plan # <<>>
  <2>1. PICK a \in DOMAIN plan :
          /\ Write(h, Pick(L!ReplaceGroups(db, a, plan[a]), M!ReplaceGroups(db, a, plan[a])), "paste")
          /\ job' = [job EXCEPT ![h].plan = L!Drop(plan, {a})]
          /\ joined' = joined \cup {a}
    BY <1>4 DEF PasteMembers
  <2> DEFINE d == Pick(L!ReplaceGroups(db, a, plan[a]), M!ReplaceGroups(db, a, plan[a]))
             j == [job[h] EXCEPT !.plan = L!Drop(plan, {a})]
  <2>2. MembersPut(db, d, a, plan[a])
    BY MembersEffect, InStore DEF Pick
  <2>3. a \in Accounts /\ plan[a] \in SUBSET Groups
    BY <1>1 DEF JobOK
  <2>4. Write(h, d, "paste")
    BY <2>1
  <2>5. /\ DOMAIN job' = Handlers /\ job'[h] = j /\ \A g \in Handlers \ {h} : job'[g] = job[g]
    BY <1>1, <2>1
  <2>6. /\ DOMAIN L!Drop(plan, {a}) = DOMAIN plan \ {a}
        /\ \A b \in DOMAIN plan \ {a} : L!Drop(plan, {a})[b] = plan[b]
    BY DEF L!Drop, L!Restrict
  <2>7. /\ j.op = job[h].op /\ j.id = job[h].id /\ j.groups = job[h].groups
        /\ j.plan = L!Drop(plan, {a}) /\ DOMAIN j = DOMAIN NoJob
    BY <1>1 DEF JobOK, NoJob
  <2> HIDE DEF d, j
  <2>8. a \in DOMAIN db.accounts \cup strays' /\ plan[a] \subseteq db.groups \cup strays'
    <3>1. CASE late[h]
      BY <2>4, <3>1, LateStrays
    <3>2. CASE ~late[h]
      <4>1. strays' = strays
        BY <2>4, <3>2, LateStrays
      <4> QED  BY <1>1, <3>2, <4>1 DEF Knows
    <3> QED  BY <3>1, <3>2
  <2>9. /\ Stored(d) /\ Whole(d, strays') /\ Unshared(d, backend)
        /\ \A b \in DOMAIN d.accounts : \A g \in d.accounts[b].allowed \ strays' :
              b \in DOMAIN db.accounts /\ g \in db.accounts[b].allowed
        /\ Had(d, a) = plan[a] /\ \A b \in Accounts \ {a} : Had(d, b) = Had(db, b)
    BY <2>2, <2>3, <2>4, <2>8, MembersStored
  <2>10. joined' \subseteq Accounts /\ \A b \in Accounts : Apart(Had(d, b)) \/ b \in joined'
    BY <1>2, <2>1, <2>3, <2>9
  <2>11. job[h].op = "group"
    BY <1>1 DEF JobOK, Steps
  <2>12. JobOK("paste", j)
    <3>1. /\ DOMAIN j.plan \subseteq Accounts /\ \A b \in DOMAIN j.plan : j.plan[b] \subseteq Groups
      BY <1>1, <2>6, <2>7 DEF JobOK
    <3>2. <<"paste", j.op>> \in Steps /\ j.id \in Groups /\ j.groups \subseteq Groups
      BY <1>1, <2>7 DEF JobOK
    <3> QED  BY <2>7, <3>1, <3>2 DEF JobOK
  <2>13. ASSUME ~late[h] PROVE Knows("paste", j, d, backend, strays')
    <3>1. Knows("paste", job[h], db, backend, strays)
      BY <1>1, <2>13
    <3>2. d.accounts = db.accounts /\ d.groups = db.groups /\ strays \subseteq strays'
      BY <2>2, <2>4, LateStrays DEF MembersPut
    <3>3. \A b \in DOMAIN j.plan : b \in DOMAIN plan /\ j.plan[b] = plan[b] /\ Had(d, b) = Had(db, b)
      BY <1>1, <2>6, <2>7, <2>9 DEF JobOK
    <3> QED  BY <3>1, <3>2, <3>3 DEF Knows
  <2> QED  BY <2>4, <2>5, <2>7, <2>9, <2>10, <2>11, <2>12, <2>13, Wrote
<1> QED  BY <1>3, <1>4

LEMMA RemoveAccountInv == ASSUME IInv, NEW h \in Handlers, RemoveAccount(h) PROVE IInv'
<1> DEFINE a == job[h].account
           d == Pick(L!DeleteAccount(db, a), M!DeleteAccount(db, a))
<1>1. Last(h, d) /\ joined' = joined
  BY DEF RemoveAccount
<1>2. AccountCut(db, d, a)
  BY LocalAccountCut, MysqlAccountCut, InStore DEF Pick
<1>3. Stored(db) /\ Whole(db, strays) /\ Unshared(db, backend) /\ joined \subseteq Accounts
      /\ \A b \in Accounts : Apart(Had(db, b)) \/ b \in joined
  BY ExclusiveMeans DEF IInv, TypeOK
<1> HIDE DEF d, a
<1>4. strays \subseteq strays'
  BY <1>1, LateStrays DEF Last
<1>5. Stored(d)
  BY <1>2, <1>3 DEF Stored, AccountCut, Sections
<1>6. Whole(d, strays')
  <2>1. \A m \in d.members : m \in db.members /\ m[1] # a
    BY <1>2 DEF AccountCut
  <2>2. \A id \in DOMAIN d.keys : id \in DOMAIN db.keys /\ d.keys[id] = db.keys[id] /\ db.keys[id].account # a
    BY <1>2 DEF AccountCut
  <2>3. \A id \in DOMAIN d.subs : id \in DOMAIN db.subs /\ d.subs[id] = db.subs[id] /\ db.subs[id].account # a
    BY <1>2 DEF AccountCut
  <2>4. /\ d.groups = db.groups /\ DOMAIN d.accounts = DOMAIN db.accounts \ {a}
        /\ \A b \in DOMAIN d.accounts : d.accounts[b] = db.accounts[b]
    BY <1>2 DEF AccountCut
  <2> QED  BY <1>3, <1>4, <2>1, <2>2, <2>3, <2>4 DEF Whole
<1>7. Unshared(d, backend)
  BY <1>2, <1>3 DEF Unshared, Alone, AccountCut
<1>8. \A b \in Accounts : Apart(Had(d, b)) \/ b \in joined'
  <2>1. ASSUME NEW b \in Accounts, Apart(Had(db, b)) PROVE Apart(Had(d, b))
    <3>1. Had(d, b) \subseteq Had(db, b) /\ Had(db, b) \subseteq Groups
      BY <1>2, InStore DEF AccountCut, Had
    <3> QED  BY <2>1, <3>1, ApartShrinks
  <2> QED  BY <1>1, <1>3, <2>1
<1>9. \A b \in DOMAIN d.accounts : \A g \in d.accounts[b].allowed \ strays' :
         b \in DOMAIN db.accounts /\ g \in db.accounts[b].allowed
  BY <1>2 DEF AccountCut
<1> QED  BY <1>1, <1>3, <1>5, <1>6, <1>7, <1>8, <1>9, WroteLast

\* A write of the keys alone.
LEMMA KeysStored ==
  ASSUME IInv, NEW h \in Handlers, NEW d, Last(h, d), joined' = joined, KeysPut(db, d),
         DOMAIN d.keys \subseteq Keys,
         \A k \in DOMAIN d.keys : /\ d.keys[k] \in KeyRows
                                  /\ d.keys[k].account \in DOMAIN db.accounts \cup strays'
                                  /\ d.keys[k].group \in db.groups \cup {None} \cup strays'
  PROVE  IInv'
<1>1. Stored(db) /\ Whole(db, strays) /\ Unshared(db, backend) /\ joined \subseteq Accounts
      /\ \A b \in Accounts : Apart(Had(db, b)) \/ b \in joined
  BY ExclusiveMeans DEF IInv, TypeOK
<1>2. strays \subseteq strays'
  BY LateStrays DEF Last
<1>3. Stored(d)
  BY <1>1 DEF Stored, KeysPut, Sections
<1>4. Whole(d, strays')
  BY <1>1, <1>2 DEF Whole, KeysPut
<1>5. Unshared(d, backend)
  BY <1>1 DEF Unshared, Alone, KeysPut
<1>6. \A b \in Accounts : Had(d, b) = Had(db, b)
  BY DEF KeysPut, Had
<1>7. \A b \in DOMAIN d.accounts : b \in DOMAIN db.accounts /\ d.accounts[b] = db.accounts[b]
  BY DEF KeysPut
<1> QED  BY <1>1, <1>3, <1>4, <1>5, <1>6, <1>7, WroteLast

LEMMA SaveKeyInv == ASSUME IInv, NEW h \in Handlers, SaveKey(h) PROVE IInv'
<1> DEFINE j == job[h]
           d == Pick(L!UpsertKey(db, j.id, j.row), M!UpsertKey(db, j.id, j.row))
<1>1. /\ pc[h] = "key" /\ JobOK("key", j) /\ (late[h] \/ Knows("key", j, db, backend, strays))
      /\ Last(h, d) /\ joined' = joined
  BY MyJob DEF SaveKey
<1>2. /\ KeysPut(db, d) /\ DOMAIN d.keys = DOMAIN db.keys \cup {j.id} /\ d.keys[j.id] = j.row
      /\ \A k \in DOMAIN db.keys \ {j.id} : d.keys[k] = db.keys[k]
  BY KeyEffect, InStore DEF Pick
<1>3. j.id \in Keys /\ j.row \in KeyRows /\ j.account \in Accounts
  BY <1>1 DEF JobOK
<1> HIDE DEF d
<1>4. strays \subseteq strays'
  BY <1>1, LateStrays DEF Last
<1>5. j.row.account \in DOMAIN db.accounts \cup strays' /\ j.row.group \in db.groups \cup {None} \cup strays'
  <2>1. j.row.account = j.account
    BY <1>1 DEF JobOK
  <2>2. CASE late[h]
    BY <1>1, <1>3, <2>1, <2>2, LateStrays DEF Last
  <2>3. CASE ~late[h]
    BY <1>1, <1>4, <2>1, <2>3 DEF Knows, KnowsKey
  <2> QED  BY <2>2, <2>3
<1>6. \A k \in DOMAIN db.keys : /\ db.keys[k] \in KeyRows /\ k \in Keys
                                /\ db.keys[k].account \in DOMAIN db.accounts \cup strays
                                /\ db.keys[k].group \in db.groups \cup {None} \cup strays
  BY InStore
<1> QED  BY <1>1, <1>2, <1>3, <1>4, <1>5, <1>6, KeysStored

LEMMA SwitchInv == ASSUME IInv, NEW h \in Handlers, SetApiKeyEnabled(h) PROVE IInv'
<1> DEFINE k  == job[h].id
           on == job[h].op = "enable"
           d  == Pick(L!SetKeyEnabled(db, k, on), M!SetKeyEnabled(db, k, on))
<1>1. Last(h, d) /\ joined' = joined
  BY DEF SetApiKeyEnabled
<1>2. on \in BOOLEAN /\ Stored(db)
  BY DEF IInv, TypeOK
<1>3. /\ KeysPut(db, d) /\ DOMAIN d.keys = DOMAIN db.keys
      /\ \A i \in DOMAIN db.keys : d.keys[i] = IF i = k THEN [db.keys[i] EXCEPT !.enabled = on] ELSE db.keys[i]
  <2> HIDE DEF on
  <2>1. d \in {L!SetKeyEnabled(db, k, on), M!SetKeyEnabled(db, k, on)}
    BY DEF Pick
  <2> HIDE DEF d
  <2> QED  BY <1>2, <2>1, SwitchEffect
<1> HIDE DEF d, on
<1>4. strays \subseteq strays'
  BY <1>1, LateStrays DEF Last
<1>5. ASSUME NEW i \in DOMAIN d.keys
      PROVE  /\ i \in Keys /\ d.keys[i] \in KeyRows
             /\ d.keys[i].account \in DOMAIN db.accounts \cup strays'
             /\ d.keys[i].group \in db.groups \cup {None} \cup strays'
  <2>1. /\ db.keys[i] \in KeyRows /\ i \in Keys
        /\ db.keys[i].account \in DOMAIN db.accounts \cup strays
        /\ db.keys[i].group \in db.groups \cup {None} \cup strays
    BY <1>3, InStore
  <2>2. /\ d.keys[i] \in KeyRows /\ d.keys[i].account = db.keys[i].account
        /\ d.keys[i].group = db.keys[i].group
    <3>1. d.keys[i] = db.keys[i] \/ d.keys[i] = [db.keys[i] EXCEPT !.enabled = on]
      BY <1>3
    <3> QED  BY <1>2, <2>1, <3>1 DEF KeyRows
  <2> QED  BY <1>4, <2>1, <2>2
<1> QED  BY <1>1, <1>3, <1>5, KeysStored

LEMMA RemoveKeyInv == ASSUME IInv, NEW h \in Handlers, RemoveKey(h) PROVE IInv'
<1> DEFINE d == Pick(L!DeleteKey(db, job[h].id), M!DeleteKey(db, job[h].id))
<1>1. Last(h, d) /\ joined' = joined
  BY DEF RemoveKey
<1>2. /\ KeysPut(db, d) /\ DOMAIN d.keys = DOMAIN db.keys \ {job[h].id}
      /\ \A i \in DOMAIN db.keys \ {job[h].id} : d.keys[i] = db.keys[i]
  BY KeyCutEffect, InStore DEF Pick
<1> HIDE DEF d
<1>3. strays \subseteq strays'
  BY <1>1, LateStrays DEF Last
<1> QED  BY <1>1, <1>2, <1>3, InStore, KeysStored

LEMMA SaveSubscriptionInv == ASSUME IInv, NEW h \in Handlers, SaveSubscription(h) PROVE IInv'
<1> DEFINE j == job[h]
           d == Pick(L!UpsertSubscription(db, j.id, j.row), M!UpsertSubscription(db, j.id, j.row))
<1>1. /\ pc[h] = "sub" /\ JobOK("sub", j) /\ DOMAIN job = Handlers
      /\ late[h] \/ Knows("sub", j, db, backend, strays)
      /\ joined' = joined
      /\ j.op \in {"create", "profile", "edit", "activate"} => Apart(j.groups)
  BY MyJob DEF SaveSubscription
<1>2. \/ j.op = "assign" /\ j.row.group # None /\ Write(h, d, "members") /\ UNCHANGED job
      \/ Last(h, d)
  BY DEF SaveSubscription
<1>3. SubPut(db, d, j.id, j.row)
  BY SubEffect, InStore DEF Pick
<1>4. j.id \in Subs /\ j.row \in SubRows /\ j.account \in Accounts /\ j.row.account = j.account
  BY <1>1 DEF JobOK
<1> HIDE DEF d
<1>5. PICK p : Write(h, d, p)
  BY <1>2 DEF Last
<1>6. strays \subseteq strays'
  BY <1>5, LateStrays
<1>7. j.account \in DOMAIN db.accounts \cup strays' /\ j.row.group \in db.groups \cup {None} \cup strays'
  <2>1. CASE late[h]
    BY <1>4, <1>5, <2>1, LateStrays
  <2>2. CASE ~late[h]
    BY <1>1, <1>6, <2>2 DEF Knows, KnowsSub
  <2> QED  BY <2>1, <2>2
<1>8. Stored(db) /\ Whole(db, strays) /\ Unshared(db, backend) /\ joined \subseteq Accounts
      /\ \A b \in Accounts : Apart(Had(db, b)) \/ b \in joined
  BY ExclusiveMeans DEF IInv, TypeOK
<1>9. \A s \in DOMAIN d.subs : d.subs[s] = j.row \/ (s \in DOMAIN db.subs /\ d.subs[s] = db.subs[s])
  BY <1>3 DEF SubPut
<1>10. Stored(d)
  <2>1. DOMAIN d.subs \subseteq Subs
    BY <1>3, <1>4, <1>8 DEF SubPut, Stored
  <2>2. \A s \in DOMAIN d.subs : d.subs[s] \in SubRows
    BY <1>4, <1>8, <1>9 DEF Stored
  <2> QED  BY <1>3, <1>8, <2>1, <2>2 DEF SubPut, Stored, Sections
<1>11. Whole(d, strays')
  <2>1. ASSUME NEW s \in DOMAIN d.subs
        PROVE  /\ d.subs[s].account \in DOMAIN db.accounts \cup strays'
               /\ d.subs[s].group \in db.groups \cup {None} \cup strays'
    <3>1. CASE d.subs[s] = j.row
      BY <1>4, <1>7, <3>1
    <3>2. CASE s \in DOMAIN db.subs /\ d.subs[s] = db.subs[s]
      BY <1>6, <3>2, InStore
    <3> QED  BY <1>9, <3>1, <3>2
  <2>2. /\ d.accounts = db.accounts /\ d.groups = db.groups /\ d.members = db.members /\ d.keys = db.keys
    BY <1>3 DEF SubPut
  <2> QED  BY <1>6, <1>8, <2>1, <2>2 DEF Whole
<1>12. Unshared(d, backend) /\ (\A b \in Accounts : Apart(Had(d, b)) \/ b \in joined') /\ joined' \subseteq Accounts
  <2>1. d.accounts = db.accounts /\ d.members = db.members
    BY <1>3 DEF SubPut
  <2> QED  BY <1>1, <1>8, <2>1 DEF Unshared, Alone, Had
<1>13. \A b \in DOMAIN d.accounts : b \in DOMAIN db.accounts /\ d.accounts[b] = db.accounts[b]
  BY <1>3 DEF SubPut
<1>14. CASE Last(h, d)
  BY <1>10, <1>11, <1>12, <1>13, <1>14, WroteLast
<1>15. CASE j.op = "assign" /\ j.row.group # None /\ Write(h, d, "members") /\ UNCHANGED job
  <2>1. JobOK("members", j)
    <3>1. j.row.group \in Groups
      BY <1>4, <1>15 DEF SubRows
    <3> QED  BY <1>1, <1>15, <3>1 DEF JobOK, Steps
  <2>2. ASSUME ~late[h] PROVE Knows("members", j, d, backend, strays')
    <3>1. /\ j.account \in DOMAIN db.accounts \cup strays' /\ j.row.group \in db.groups \cup strays'
      BY <1>7, <1>15
    <3> QED  BY <1>3, <3>1 DEF Knows, SubPut
  <2>3. DOMAIN job' = Handlers /\ job'[h] = j /\ \A g \in Handlers \ {h} : job'[g] = job[g]
    BY <1>1, <1>15
  <2> QED  BY <1>1, <1>10, <1>11, <1>12, <1>13, <1>15, <2>1, <2>2, <2>3, Wrote
<1> QED  BY <1>2, <1>14, <1>15

LEMMA SaveGroupInv == ASSUME IInv, NEW h \in Handlers, SaveGroup(h) PROVE IInv'
<1> DEFINE g == job[h].id
           d == Pick(L!UpsertGroup(db, g), M!UpsertGroup(db, g))
<1>1. /\ pc[h] = "group" /\ JobOK("group", job[h]) /\ DOMAIN job = Handlers /\ joined' = joined
      /\ Last(h, d) \/ (Write(h, d, "copy") /\ UNCHANGED job)
  BY MyJob DEF SaveGroup
<1>2. GroupPut(db, d, g)
  BY GroupEffect, InStore DEF Pick
<1>3. g \in Groups /\ job[h].op = "group"
  BY <1>1 DEF JobOK, Steps
<1> HIDE DEF d
<1>4. strays \subseteq strays'
  BY <1>1, LateStrays DEF Last
<1>5. Stored(db) /\ Whole(db, strays) /\ Unshared(db, backend) /\ joined \subseteq Accounts
      /\ \A b \in Accounts : Apart(Had(db, b)) \/ b \in joined
  BY ExclusiveMeans DEF IInv, TypeOK
<1>6. Stored(d)
  BY <1>2, <1>3, <1>5 DEF GroupPut, Stored, Sections
<1>7. Whole(d, strays')
  BY <1>2, <1>4, <1>5 DEF GroupPut, Whole
<1>8. Unshared(d, backend) /\ (\A b \in Accounts : Apart(Had(d, b)) \/ b \in joined') /\ joined' \subseteq Accounts
  BY <1>1, <1>2, <1>5 DEF GroupPut, Unshared, Alone, Had
<1>9. \A b \in DOMAIN d.accounts : b \in DOMAIN db.accounts /\ d.accounts[b] = db.accounts[b]
  BY <1>2 DEF GroupPut
<1>10. CASE Last(h, d)
  BY <1>6, <1>7, <1>8, <1>9, <1>10, WroteLast
<1>11. CASE Write(h, d, "copy") /\ UNCHANGED job
  <2>1. JobOK("copy", job[h])
    BY <1>1, <1>3 DEF JobOK, Steps
  <2>2. Knows("copy", job[h], d, backend, strays')
    BY <1>2 DEF Knows, GroupPut
  <2>3. DOMAIN job' = Handlers /\ job'[h] = job[h] /\ \A i \in Handlers \ {h} : job'[i] = job[i]
    BY <1>1, <1>11
  <2> QED  BY <1>3, <1>6, <1>7, <1>8, <1>9, <1>11, <2>1, <2>2, <2>3, Wrote
<1> QED  BY <1>1, <1>10, <1>11

\* A group goes: nothing names it any more, but what is in strays.
LEMMA GroupGone ==
  ASSUME IInv, NEW h \in Handlers, NEW d, NEW g, Last(h, d), joined' = joined, GroupCut(db, d, g),
         \A a \in DOMAIN db.accounts :
            /\ d.accounts[a] \in AccountRows /\ d.accounts[a].external = db.accounts[a].external
            /\ d.accounts[a].allowed \subseteq (db.accounts[a].allowed \ {g}) \cup strays'
  PROVE  IInv'
<1>1. Stored(db) /\ Whole(db, strays) /\ Unshared(db, backend) /\ joined \subseteq Accounts
      /\ \A b \in Accounts : Apart(Had(db, b)) \/ b \in joined
  BY ExclusiveMeans DEF IInv, TypeOK
<1>2. strays \subseteq strays'
  BY LateStrays DEF Last
<1>3. /\ DOMAIN d.accounts = DOMAIN db.accounts /\ d.groups = db.groups \ {g}
      /\ d.members = {m \in db.members : m[2] # g}
      /\ DOMAIN d.keys = DOMAIN db.keys /\ DOMAIN d.subs = DOMAIN db.subs /\ Sections \subseteq DOMAIN d
  BY DEF GroupCut
<1>4. ASSUME NEW k \in DOMAIN d.keys
      PROVE  /\ d.keys[k] \in KeyRows /\ d.keys[k].account = db.keys[k].account
             /\ d.keys[k].group = IF db.keys[k].group = g THEN None ELSE db.keys[k].group
  <2>1. db.keys[k] \in KeyRows
    BY <1>3, InStore
  <2>2. d.keys[k] = IF db.keys[k].group = g THEN [db.keys[k] EXCEPT !.group = None] ELSE db.keys[k]
    BY <1>3 DEF GroupCut
  <2> QED  BY <2>1, <2>2 DEF KeyRows
<1>5. ASSUME NEW s \in DOMAIN d.subs
      PROVE  /\ d.subs[s] \in SubRows /\ d.subs[s].account = db.subs[s].account
             /\ d.subs[s].group = IF db.subs[s].group = g THEN None ELSE db.subs[s].group
  <2>1. db.subs[s] \in SubRows
    BY <1>3, InStore
  <2>2. d.subs[s] = IF db.subs[s].group = g THEN [db.subs[s] EXCEPT !.group = None] ELSE db.subs[s]
    BY <1>3 DEF GroupCut
  <2> QED  BY <2>1, <2>2 DEF SubRows
<1>6. Stored(d)
  BY <1>1, <1>3, <1>4, <1>5 DEF Stored, Sections
<1>7. Whole(d, strays')
  <2>1. \A id \in DOMAIN d.keys : d.keys[id].account \in DOMAIN d.accounts \cup strays'
                                  /\ d.keys[id].group \in d.groups \cup {None} \cup strays'
    BY <1>2, <1>3, <1>4, InStore
  <2>2. \A id \in DOMAIN d.subs : d.subs[id].account \in DOMAIN d.accounts \cup strays'
                                  /\ d.subs[id].group \in d.groups \cup {None} \cup strays'
    BY <1>2, <1>3, <1>5, InStore
  <2>3. \A m \in d.members : m[1] \in DOMAIN d.accounts \cup strays' /\ m[2] \in d.groups \cup strays'
    BY <1>1, <1>2, <1>3 DEF Whole
  <2>4. \A a \in DOMAIN d.accounts : d.accounts[a].allowed \subseteq d.groups \cup strays'
    BY <1>1, <1>2, <1>3 DEF Whole
  <2> QED  BY <2>1, <2>2, <2>3, <2>4 DEF Whole
<1>8. Unshared(d, backend)
  BY <1>1, <1>3 DEF Unshared, Alone
<1>9. \A b \in Accounts : Apart(Had(d, b)) \/ b \in joined'
  <2>1. ASSUME NEW b \in Accounts, Apart(Had(db, b)) PROVE Apart(Had(d, b))
    <3>1. Had(d, b) \subseteq Had(db, b) /\ Had(db, b) \subseteq Groups
      BY <1>3, InStore DEF Had
    <3> QED  BY <2>1, <3>1, ApartShrinks
  <2> QED  BY <1>1, <2>1
<1>10. \A b \in DOMAIN d.accounts : \A i \in d.accounts[b].allowed \ strays' :
          b \in DOMAIN db.accounts /\ i \in db.accounts[b].allowed
  BY <1>3
<1> QED  BY <1>1, <1>6, <1>7, <1>8, <1>9, <1>10, WroteLast

LEMMA RemoveGroupInv == ASSUME IInv, NEW h \in Handlers, RemoveGroup(h) PROVE IInv'
<1> DEFINE g    == job[h].id
           plan == job[h].plan
<1>0. joined' = joined
  BY DEF RemoveGroup
<1>1. CASE pc[h] = "ungroup" /\ backend = "local" /\ Last(h, L!DeleteGroup(db, g))
  <2> DEFINE d == L!DeleteGroup(db, g)
  <2>1. /\ GroupCut(db, d, g)
        /\ \A a \in DOMAIN db.accounts : d.accounts[a] = [db.accounts[a] EXCEPT !.allowed = @ \ {g}]
    BY LocalGroupCut, InStore
  <2>2. Last(h, d)
    BY <1>1
  <2> HIDE DEF d
  <2>3. ASSUME NEW a \in DOMAIN db.accounts
        PROVE  /\ d.accounts[a] \in AccountRows /\ d.accounts[a].external = db.accounts[a].external
               /\ d.accounts[a].allowed = db.accounts[a].allowed \ {g}
    <3>1. db.accounts[a] \in AccountRows
      BY InStore DEF Row
    <3>2. d.accounts[a] = [db.accounts[a] EXCEPT !.allowed = @ \ {g}]
      BY <2>1
    <3> HIDE DEF g
    <3> QED  BY <3>1, <3>2 DEF AccountRows
  <2> QED  BY <1>0, <2>1, <2>2, <2>3, GroupGone
<1>2. CASE pc[h] = "commit" /\ Last(h, M!CommitDeleteGroup(db, g, plan))
  <2> DEFINE d == M!CommitDeleteGroup(db, g, plan)
  <2>1. /\ GroupCut(db, d, g)
        /\ \A a \in DOMAIN db.accounts :
              d.accounts[a] = IF a \in DOMAIN plan
                              THEN [db.accounts[a] EXCEPT !.allowed = plan[a]] ELSE db.accounts[a]
    <3> HIDE DEF g, plan
    <3>1. Sections \subseteq DOMAIN db
      BY InStore
    <3> QED  BY <3>1, MysqlGroupCut
  <2>2. Last(h, d) /\ Write(h, d, "idle")
    BY <1>2 DEF Last
  <2> HIDE DEF d
  <2>3. /\ JobOK("commit", job[h]) /\ (late[h] \/ Knows("commit", job[h], db, backend, strays))
        /\ Listed("commit", job[h], db, strays)
    BY <1>2, MyJob
  <2>4. strays \subseteq strays'
    BY <2>2, LateStrays
  <2>5. ASSUME NEW a \in DOMAIN db.accounts
        PROVE  /\ d.accounts[a] \in AccountRows /\ d.accounts[a].external = db.accounts[a].external
               /\ d.accounts[a].allowed \subseteq (db.accounts[a].allowed \ {g}) \cup strays'
    <3>1. db.accounts[a] \in AccountRows
      BY InStore DEF Row
    <3>2. CASE a \in DOMAIN plan
      <4>1. /\ d.accounts[a] \in AccountRows /\ d.accounts[a].external = db.accounts[a].external
            /\ d.accounts[a].allowed = plan[a]
        <5>1. plan[a] \subseteq Groups
          BY <2>3, <3>2 DEF JobOK
        <5> QED  BY <2>1, <3>1, <3>2, <5>1 DEF AccountRows
      <4>2. CASE late[h]
        BY <2>2, <3>2, <4>1, <4>2, LateStrays
      <4>3. CASE ~late[h]
        BY <2>3, <3>2, <4>1, <4>3 DEF Knows
      <4> QED  BY <4>1, <4>2, <4>3
    <3>3. CASE a \notin DOMAIN plan
      <4>1. d.accounts[a] = db.accounts[a]
        BY <2>1, <3>3
      <4>2. g \in db.accounts[a].allowed => g \in strays
        BY <2>3, <3>3 DEF Listed
      <4> QED  BY <2>4, <3>1, <4>1, <4>2
    <3> QED  BY <3>2, <3>3
  <2> QED  BY <1>0, <2>1, <2>2, <2>5, GroupGone
<1> QED  BY <1>1, <1>2 DEF RemoveGroup

-----------------------------------------------------------------------------
LEMMA NextInv == IInv /\ [Next]_vars => IInv'
<1> SUFFICES ASSUME IInv, [Next]_vars PROVE IInv'
  OBVIOUS
<1>1. ASSUME NEW h \in Handlers, Work(h) PROVE IInv'
  BY <1>1, SaveAccountInv, SaveGroupsInv, InviteInv, RemoveAccountInv, SaveKeyInv, SwitchInv,
     RemoveKeyInv, SaveSubscriptionInv, ReadMembersInv, SaveGroupInv, CopyInv, PasteInv,
     SelectInv, RemoveGroupInv, FailInv DEF Work
<1>2. CASE UNCHANGED vars
  BY <1>2 DEF vars, IInv, TypeOK, Stored, JobsApart, ExclusiveApart, Unshared
<1> QED  BY <1>1, <1>2, AskInv DEF Next

THEOREM Invariant == Spec => []IInv
BY InitInv, NextInv, PTL DEF Spec

\* The sections hold rows of their kinds, and every request is at a step that its
\* operation has, with a job of that step's shape.
THEOREM TypeCorrect == Spec => []TypeOK
<1>1. IInv => TypeOK
  BY DEF IInv
<1> QED  BY Invariant, <1>1, PTL

\* Without an overtaken request nothing names an account or a group that is gone: each
\* deletion takes what names what it deletes, and each write stores what it validated.
THEOREM OrphansOnlyRaced == Spec => []OrphansRaced
<1>1. IInv => OrphansRaced
  BY OrphansMean DEF IInv
<1> QED  BY Invariant, <1>1, PTL

\* Only a subscription or a copied group puts an account into two exclusive groups:
\* whoever replaces all groups of an account has validated them, and deletions of groups
\* and accounts take members away.
THEOREM ExclusiveKeptApart == Spec => []ExclusiveApart
<1>1. IInv => ExclusiveApart
  BY DEF IInv
<1> QED  BY Invariant, <1>1, PTL

-----------------------------------------------------------------------------
(* What a step may take, and bring back.                                    *)

AccountsFair ==
    /\ DOMAIN db'.accounts \subseteq DOMAIN db.accounts \/ By({"create"})
    /\ \A a \in Both("accounts") :
          /\ Row(a).enabled \/ ~db'.accounts[a].enabled \/ By({"enable", "activate"})
          /\ \/ Active(Row(a)) \/ ~Active(db'.accounts[a]) \/ By({"enable", "activate"})
             \/ Row(a).enabled /\ By({"edit", "profile"})
    /\ DOMAIN db.accounts \subseteq DOMAIN db'.accounts \/ By({"delete"})

KeysFair ==
    /\ DOMAIN db'.keys \subseteq DOMAIN db.keys \/ By({"create"})
    /\ \A k \in Both("keys") : db.keys[k].enabled \/ ~db'.keys[k].enabled \/ By({"enable"})
    /\ DOMAIN db.keys \subseteq DOMAIN db'.keys \/ By({"delete"})

SubsFair ==
    \A s \in Both("subs") :
       /\ db.subs[s].status = "active" \/ db'.subs[s].status # "active" \/ By({"assign"})
       /\ LET e == db.subs[s].expires IN LET f == db'.subs[s].expires IN
          e = f \/ By({"assign"}) \/ (By({"extend"}) /\ (e = None \/ f > e))

MembersFair ==
    \A a \in Both("accounts") :
       \A g \in db.groups \cap db'.groups :
          <<a, g>> \in db.members => <<a, g>> \in db'.members \/ By({"create", "edit", "activate", "profile"})

Fair == AccountsFair /\ KeysFair /\ SubsFair /\ MembersFair

LEMMA ByMe ==
  ASSUME NEW h \in Handlers, pc'[h] # pc[h] \/ job'[h] # job[h], NEW ops,
         job[h].op \in ops \/ late[h]
  PROVE  By(ops)
BY DEF By

LEMMA SameFair ==
  /\ db'.accounts = db.accounts => AccountsFair
  /\ db'.keys = db.keys => KeysFair
  /\ db'.subs = db.subs => SubsFair
  /\ db.members \subseteq db'.members => MembersFair
<1>1. db'.accounts = db.accounts => AccountsFair
  BY DEF AccountsFair, Both, Row
<1>2. db'.keys = db.keys => KeysFair
  BY DEF KeysFair, Both
<1>3. db'.subs = db.subs => SubsFair
  BY DEF SubsFair, Both
<1>4. db.members \subseteq db'.members => MembersFair
  BY DEF MembersFair
<1> QED  BY <1>1, <1>2, <1>3, <1>4

LEMMA QuietFair == UNCHANGED db => Fair
<1> SUFFICES ASSUME UNCHANGED db PROVE Fair
  OBVIOUS
<1>1. /\ db'.accounts = db.accounts /\ db'.keys = db.keys
      /\ db'.subs = db.subs /\ db.members \subseteq db'.members
  OBVIOUS
<1> QED  BY <1>1, SameFair, Zenon DEF Fair

LEMMA AskFair == ASSUME NEW h \in Handlers, Ask(h) PROVE UNCHANGED db
<1>1. \E p, j : Begin(h, p, j)
  <2>1. ASSUME NEW a \in Accounts, NEW x \in Externals, NEW flag \in Flags, NEW status \in Statuses,
               NEW gs \in SUBSET Groups,
               CreateUser(h, a, x, flag, status, gs) \/ UpdateUser(h, a, x, flag, status, gs)
        PROVE  \E p, j : Begin(h, p, j)
    BY <2>1, Zenon DEF CreateUser, UpdateUser
  <2>2. ASSUME NEW a \in Accounts,
               \/ \E x \in RandomKeys : ResetExternalKey(h, a, x)
               \/ \E on \in BOOLEAN : SetUserEnabled(h, a, on)
               \/ UpdateProfile(h, a) \/ DeleteUser(h, a)
        PROVE  \E p, j : Begin(h, p, j)
    BY <2>2, Zenon DEF ResetExternalKey, SetUserEnabled, UpdateProfile, DeleteUser
  <2>3. ASSUME NEW a \in Accounts,
               \/ \E k \in Keys, g \in Groups \cup {None} : CreateApiKey(h, k, a, g)
               \/ \E k \in Keys, on \in BOOLEAN : UpdateApiKey(h, k, a, on)
               \/ \E s \in Subs, g \in Groups \cup {None} : AssignSubscription(h, s, a, g)
        PROVE  \E p, j : Begin(h, p, j)
    BY <2>3, Zenon DEF CreateApiKey, UpdateApiKey, AssignSubscription
  <2>4. ASSUME \/ \E k \in Keys : DeleteApiKey(h, k) \/ \E on \in BOOLEAN : SwitchKey(h, k, on)
               \/ \E s \in Subs, op \in {"extend", "revoke", "reset"} : ChangeSubscription(h, s, op)
               \/ \E g \in Groups : \/ DeleteGroup(h, g)
                                   \/ \E from \in SUBSET (Groups \ {g}) : UpsertGroup(h, g, from)
        PROVE  \E p, j : Begin(h, p, j)
    BY <2>4, Zenon DEF DeleteApiKey, SwitchKey, ChangeSubscription, DeleteGroup, UpsertGroup
  <2> QED  BY <2>1, <2>2, <2>3, <2>4, Zenon DEF Ask
<1> QED  BY <1>1, Zenon DEF Begin

LEMMA SaveAccountFair == ASSUME IInv, NEW h \in Handlers, SaveAccount(h) PROVE Fair
<1> DEFINE j == job[h]
           a == j.account
<1>0. PICK d : /\ AccountPut(db, d, a, j.row)
               /\ \/ j.op \in {"create", "profile", "edit", "activate"} /\ Write(h, d, "groups") /\ UNCHANGED job
                  \/ j.op \notin {"create", "profile", "edit", "activate"} /\ Last(h, d)
               /\ \A b \in DOMAIN db.accounts :
                     b \in DOMAIN d.accounts \/ (backend = "mysql" /\ db.accounts[b].external = j.row.external)
               /\ backend = "mysql" => \A b \in DOMAIN d.accounts \ {a} :
                                          db.accounts[b].external # j.row.external
  BY SaveAccountDoes
<1>1. /\ pc[h] = "account" /\ (late[h] \/ Knows("account", j, db, backend, strays)) /\ DOMAIN pc = Handlers
  BY MyJob DEF SaveAccount
<1>2. db' = d /\ pc'[h] # pc[h]
  BY <1>0, <1>1 DEF Last, Write
<1> HIDE DEF j, a
<1>3. /\ db'.groups = db.groups /\ db'.members = db.members /\ db'.keys = db.keys /\ db'.subs = db.subs
      /\ DOMAIN db'.accounts \subseteq DOMAIN db.accounts \cup {a}
      /\ a \in DOMAIN db'.accounts /\ db'.accounts[a] = j.row
      /\ \A b \in DOMAIN db'.accounts \ {a} : db'.accounts[b] = db.accounts[b]
  BY <1>0, <1>2 DEF AccountPut
<1>4. AccountsFair
  <2>1. CASE late[h]
    <3>1. By({"create"}) /\ By({"enable", "activate"}) /\ By({"delete"})
      BY <1>2, <2>1, ByMe
    <3> QED  BY <3>1 DEF AccountsFair
  <2>2. CASE ~late[h]
    <3>1. KnowsAccount(j, db, backend)
      BY <1>1, <2>2 DEF Knows
    <3>2. DOMAIN db.accounts \subseteq DOMAIN db'.accounts
      BY <1>0, <1>2, <1>3, <3>1 DEF KnowsAccount, Alone, a
    <3>3. CASE j.op = "create"
      <4>1. By({"create"})
        BY <1>2, <3>3, ByMe DEF j
      <4>2. a \notin DOMAIN db.accounts
        BY <3>1, <3>3 DEF KnowsAccount, a
      <4> QED  BY <1>3, <3>2, <4>1, <4>2 DEF AccountsFair, Both, Row
    <3>4. CASE j.op \in {"enable", "activate"}
      <4>1. By({"enable", "activate"})
        BY <1>2, <3>4, ByMe DEF j
      <4>2. a \in DOMAIN db.accounts
        BY <3>1, <3>4 DEF KnowsAccount, a
      <4> QED  BY <1>3, <3>2, <4>1, <4>2 DEF AccountsFair
    <3>5. CASE j.op \notin {"create", "enable", "activate"}
      <4>1. /\ a \in DOMAIN db.accounts
            /\ ~j.row.enabled \/ db.accounts[a].enabled
            /\ ~Active(j.row) \/ Active(db.accounts[a]) \/ j.op \in {"edit", "profile"}
        BY <3>1, <3>5 DEF KnowsAccount, StaysOff, a
      <4>2. j.op \in {"edit", "profile"} => By({"edit", "profile"})
        BY <1>2, ByMe DEF j
      <4>3. \/ Active(db.accounts[a]) \/ ~Active(j.row)
            \/ db.accounts[a].enabled /\ By({"edit", "profile"})
        BY <4>1, <4>2, Zenon DEF Active
      <4>4. ASSUME NEW b \in Both("accounts")
            PROVE  /\ Row(b).enabled \/ ~db'.accounts[b].enabled \/ By({"enable", "activate"})
                   /\ \/ Active(Row(b)) \/ ~Active(db'.accounts[b]) \/ By({"enable", "activate"})
                      \/ Row(b).enabled /\ By({"edit", "profile"})
        <5>1. CASE b = a
          <6>1. Row(b) = db.accounts[a] /\ db'.accounts[b] = j.row
            BY <1>3, <5>1 DEF Row
          <6> QED  BY <4>1, <4>3, <6>1, Zenon
        <5>2. CASE b # a
          <6>1. db'.accounts[b] = Row(b)
            BY <1>3, <5>2 DEF Both, Row
          <6> QED  BY <6>1, Zenon
        <5> QED  BY <5>1, <5>2
      <4>5. DOMAIN db'.accounts \subseteq DOMAIN db.accounts
        BY <1>3, <4>1
      <4> QED  BY <3>2, <4>4, <4>5, Zenon DEF AccountsFair
    <3> QED  BY <3>3, <3>4, <3>5
  <2> QED  BY <2>1, <2>2
<1> QED  BY <1>3, <1>4, SameFair DEF Fair

LEMMA SaveGroupsFair == ASSUME IInv, NEW h \in Handlers, SaveGroups(h) PROVE Fair
<1> DEFINE a  == job[h].account
           gs == job[h].groups
           d  == Pick(L!ReplaceGroups(db, a, gs), M!ReplaceGroups(db, a, gs))
<1>1. /\ pc[h] = "groups" /\ JobOK("groups", job[h]) /\ DOMAIN pc = Handlers
      /\ late[h] \/ Knows("groups", job[h], db, backend, strays)
  BY MyJob DEF SaveGroups
<1>2. Write(h, d, "idle") \/ Write(h, d, "invite")
  BY DEF SaveGroups, Last
<1>3. MembersPut(db, d, a, gs)
  BY MembersEffect, InStore DEF Pick
<1> HIDE DEF d
<1>4. db' = d /\ pc'[h] # pc[h]
  BY <1>1, <1>2 DEF Write
<1>5. /\ db'.accounts = db.accounts /\ db'.keys = db.keys /\ db'.subs = db.subs
      /\ db'.members = {m \in db.members : m[1] # a} \cup ({a} \X gs)
  BY <1>3, <1>4 DEF MembersPut
<1>6. MembersFair
  <2>1. CASE late[h] \/ job[h].op \in {"create", "edit", "activate", "profile"}
    <3>1. By({"create", "edit", "activate", "profile"})
      BY <1>4, <2>1, ByMe
    <3> QED  BY <3>1 DEF MembersFair
  <2>2. CASE ~late[h] /\ job[h].op \notin {"create", "edit", "activate", "profile"}
    <3>1. job[h].op = "assign"
      BY <1>1, <2>2 DEF JobOK, Steps
    <3>2. Had(db, a) \subseteq gs
      BY <1>1, <2>2, <3>1 DEF Knows
    <3>3. \A g : <<a, g>> \in db.members => g \in gs
      BY <3>2 DEF Had
    <3> QED  BY <1>5, <3>3 DEF MembersFair
  <2> QED  BY <2>1, <2>2
<1> QED  BY <1>5, <1>6, SameFair DEF Fair

LEMMA RemoveAccountFair == ASSUME IInv, NEW h \in Handlers, RemoveAccount(h) PROVE Fair
<1> DEFINE a == job[h].account
           d == Pick(L!DeleteAccount(db, a), M!DeleteAccount(db, a))
<1>1. pc[h] = "remove" /\ Last(h, d) /\ JobOK("remove", job[h]) /\ DOMAIN pc = Handlers
  BY MyJob DEF RemoveAccount
<1>2. AccountCut(db, d, a)
  BY LocalAccountCut, MysqlAccountCut, InStore DEF Pick
<1> HIDE DEF d
<1>3. db' = d /\ pc'[h] # pc[h] /\ job[h].op = "delete"
  BY <1>1 DEF Last, Write, JobOK, Steps
<1>4. By({"delete"})
  BY <1>3, ByMe
<1> HIDE DEF a
<1>5. AccountCut(db, db', a)
  BY <1>2, <1>3
<1>6. AccountsFair
  BY <1>4, <1>5 DEF AccountsFair, AccountCut, Both, Row
<1>7. KeysFair
  BY <1>4, <1>5 DEF KeysFair, AccountCut, Both
<1>8. SubsFair
  BY <1>5 DEF SubsFair, AccountCut, Both
<1>9. MembersFair
  <2>1. ASSUME NEW b \in DOMAIN db'.accounts, NEW g, <<b, g>> \in db.members
        PROVE  <<b, g>> \in db'.members
    BY <1>5, <2>1 DEF AccountCut
  <2> QED  BY <2>1 DEF MembersFair, Both
<1> QED  BY <1>6, <1>7, <1>8, <1>9 DEF Fair

LEMMA KeysOnly ==
  ASSUME KeysPut(db, db'), KeysFair PROVE Fair
BY SameFair DEF KeysPut, Fair

LEMMA SaveKeyFair == ASSUME IInv, NEW h \in Handlers, SaveKey(h) PROVE Fair
<1> DEFINE j == job[h]
           d == Pick(L!UpsertKey(db, j.id, j.row), M!UpsertKey(db, j.id, j.row))
<1>1. /\ pc[h] = "key" /\ JobOK("key", j) /\ (late[h] \/ Knows("key", j, db, backend, strays))
      /\ Last(h, d) /\ DOMAIN pc = Handlers
  BY MyJob DEF SaveKey
<1>2. /\ KeysPut(db, d) /\ DOMAIN d.keys = DOMAIN db.keys \cup {j.id} /\ d.keys[j.id] = j.row
      /\ \A k \in DOMAIN db.keys \ {j.id} : d.keys[k] = db.keys[k]
  BY KeyEffect, InStore DEF Pick
<1> HIDE DEF d
<1>3. db' = d /\ pc'[h] # pc[h] /\ j.op \in {"create", "enable", "edit"}
  BY <1>1 DEF Last, Write, JobOK, Steps
<1>4. KeysFair
  <2>1. CASE late[h]
    <3>1. By({"create"}) /\ By({"enable"}) /\ By({"delete"})
      BY <1>3, <2>1, ByMe
    <3> QED  BY <3>1 DEF KeysFair
  <2>2. CASE ~late[h]
    <3>1. KnowsKey(j, db, strays)
      BY <1>1, <2>2 DEF Knows
    <3>2. CASE j.op = "create"
      <4>1. By({"create"})
        BY <1>3, <3>2, ByMe
      <4>2. j.id \notin DOMAIN db.keys
        BY <3>1, <3>2 DEF KnowsKey
      <4> QED  BY <1>2, <1>3, <4>1, <4>2 DEF KeysFair, Both
    <3>3. CASE j.op = "enable"
      <4>1. By({"enable"})
        BY <1>3, <3>3, ByMe
      <4>2. j.id \in DOMAIN db.keys
        BY <3>1, <3>3 DEF KnowsKey
      <4> QED  BY <1>2, <1>3, <4>1, <4>2 DEF KeysFair
    <3>4. CASE j.op = "edit"
      <4>1. j.id \in DOMAIN db.keys /\ (~j.row.enabled \/ db.keys[j.id].enabled)
        BY <3>1, <3>4 DEF KnowsKey
      <4> QED  BY <1>2, <1>3, <4>1 DEF KeysFair, Both
    <3> QED  BY <1>3, <3>2, <3>3, <3>4
  <2> QED  BY <2>1, <2>2
<1> QED  BY <1>2, <1>3, <1>4, KeysOnly

LEMMA SwitchFair == ASSUME IInv, NEW h \in Handlers, SetApiKeyEnabled(h) PROVE Fair
<1> DEFINE k  == job[h].id
           on == job[h].op = "enable"
           d  == Pick(L!SetKeyEnabled(db, k, on), M!SetKeyEnabled(db, k, on))
<1>1. pc[h] = "switch" /\ Last(h, d) /\ DOMAIN pc = Handlers
  BY MyJob DEF SetApiKeyEnabled
<1>2. on \in BOOLEAN /\ Stored(db)
  BY DEF IInv, TypeOK
<1>3. /\ KeysPut(db, d) /\ DOMAIN d.keys = DOMAIN db.keys
      /\ \A i \in DOMAIN db.keys : d.keys[i] = IF i = k THEN [db.keys[i] EXCEPT !.enabled = on] ELSE db.keys[i]
  <2> HIDE DEF on
  <2>1. d \in {L!SetKeyEnabled(db, k, on), M!SetKeyEnabled(db, k, on)}
    BY DEF Pick
  <2> HIDE DEF d
  <2> QED  BY <1>2, <2>1, SwitchEffect
<1> HIDE DEF d
<1>4. db' = d /\ pc'[h] # pc[h]
  BY <1>1 DEF Last, Write
<1>5. on => By({"enable"})
  BY <1>4, ByMe
<1> HIDE DEF on
<1>6. ASSUME NEW i \in DOMAIN db.keys PROVE d.keys[i].enabled = db.keys[i].enabled \/ d.keys[i].enabled = on
  <2>1. db.keys[i] \in KeyRows
    BY InStore
  <2>2. d.keys[i] = IF i = k THEN [db.keys[i] EXCEPT !.enabled = on] ELSE db.keys[i]
    BY <1>3
  <2> QED  BY <2>1, <2>2 DEF KeyRows
<1>7. KeysFair
  <2>1. ASSUME NEW i \in DOMAIN db.keys PROVE db.keys[i].enabled \/ ~d.keys[i].enabled \/ By({"enable"})
    BY <1>5, <1>6
  <2> QED  BY <1>3, <1>4, <2>1 DEF KeysFair, Both
<1> QED  BY <1>3, <1>4, <1>7, KeysOnly

LEMMA RemoveKeyFair == ASSUME IInv, NEW h \in Handlers, RemoveKey(h) PROVE Fair
<1> DEFINE d == Pick(L!DeleteKey(db, job[h].id), M!DeleteKey(db, job[h].id))
<1>1. pc[h] = "removekey" /\ Last(h, d) /\ JobOK("removekey", job[h]) /\ DOMAIN pc = Handlers
  BY MyJob DEF RemoveKey
<1>2. /\ KeysPut(db, d) /\ DOMAIN d.keys = DOMAIN db.keys \ {job[h].id}
      /\ \A i \in DOMAIN db.keys \ {job[h].id} : d.keys[i] = db.keys[i]
  BY KeyCutEffect, InStore DEF Pick
<1> HIDE DEF d
<1>3. db' = d /\ pc'[h] # pc[h] /\ job[h].op = "delete"
  BY <1>1 DEF Last, Write, JobOK, Steps
<1>4. By({"delete"})
  BY <1>3, ByMe
<1>5. KeysFair
  BY <1>2, <1>3, <1>4 DEF KeysFair, Both
<1> QED  BY <1>2, <1>3, <1>5, KeysOnly

LEMMA SaveSubscriptionFair == ASSUME IInv, NEW h \in Handlers, SaveSubscription(h) PROVE Fair
<1> DEFINE j == job[h]
           d == Pick(L!UpsertSubscription(db, j.id, j.row), M!UpsertSubscription(db, j.id, j.row))
<1>1. /\ pc[h] = "sub" /\ JobOK("sub", j) /\ DOMAIN pc = Handlers
      /\ late[h] \/ Knows("sub", j, db, backend, strays)
      /\ Write(h, d, "members") \/ Write(h, d, "idle")
  BY MyJob DEF SaveSubscription, Last
<1>2. SubPut(db, d, j.id, j.row)
  BY SubEffect, InStore DEF Pick
<1> HIDE DEF d
<1>3. db' = d /\ pc'[h] # pc[h]
  BY <1>1 DEF Write
<1>4. SubsFair
  <2>1. CASE late[h] \/ j.op = "assign"
    <3>1. By({"assign"})
      BY <1>3, <2>1, ByMe
    <3> QED  BY <3>1 DEF SubsFair
  <2>2. CASE ~late[h] /\ j.op # "assign"
    <3>1. KnowsSub(j, db, strays)
      BY <1>1, <2>2 DEF Knows
    <3>2. j.op = "extend" => By({"extend"})
      BY <1>3, ByMe
    <3>3. \A s \in DOMAIN db.subs : s # j.id => db'.subs[s] = db.subs[s]
      BY <1>2, <1>3 DEF SubPut
    <3>4. db'.subs[j.id] = j.row
      BY <1>2, <1>3 DEF SubPut
    <3> QED  BY <2>2, <3>1, <3>2, <3>3, <3>4 DEF SubsFair, Both, KnowsSub
  <2> QED  BY <2>1, <2>2
<1> QED  BY <1>2, <1>3, <1>4, SameFair DEF Fair, SubPut

LEMMA SaveGroupFair == ASSUME IInv, NEW h \in Handlers, SaveGroup(h) PROVE Fair
<1> DEFINE d == Pick(L!UpsertGroup(db, job[h].id), M!UpsertGroup(db, job[h].id))
<1>1. GroupPut(db, d, job[h].id)
  BY GroupEffect, InStore DEF Pick
<1>2. db' = d
  BY DEF SaveGroup, Last, Write
<1> QED  BY <1>1, <1>2, SameFair DEF Fair, GroupPut

LEMMA PasteFair == ASSUME IInv, NEW h \in Handlers, PasteMembers(h) PROVE Fair
<1> DEFINE plan == job[h].plan
<1>1. CASE plan = <<>>
  <2>1. db' = db
    BY <1>1 DEF PasteMembers, Last, Write
  <2> QED  BY <2>1, QuietFair
<1>2. CASE plan # <<>>
  <2>1. PICK a \in DOMAIN plan :
          /\ Write(h, Pick(L!ReplaceGroups(db, a, plan[a]), M!ReplaceGroups(db, a, plan[a])), "paste")
          /\ job' = [job EXCEPT ![h].plan = L!Drop(plan, {a})]
    BY <1>2 DEF PasteMembers
  <2> DEFINE d == Pick(L!ReplaceGroups(db, a, plan[a]), M!ReplaceGroups(db, a, plan[a]))
  <2>2. MembersPut(db, d, a, plan[a])
    BY MembersEffect, InStore DEF Pick
  <2>3. db' = d
    BY <2>1 DEF Write
  <2> HIDE DEF d
  <2>4. /\ pc[h] = "paste" /\ JobOK("paste", job[h]) /\ DOMAIN job = Handlers
        /\ late[h] \/ Knows("paste", job[h], db, backend, strays)
    BY MyJob DEF PasteMembers
  <2>5. job'[h] # job[h]
    <3>1. DOMAIN L!Drop(plan, {a}) = DOMAIN plan \ {a}
      BY DEF L!Drop, L!Restrict
    <3>2. job'[h].plan = L!Drop(plan, {a})
      BY <2>1, <2>4 DEF JobOK, NoJob
    <3> QED  BY <3>1, <3>2
  <2>6. /\ db'.accounts = db.accounts /\ db'.keys = db.keys /\ db'.subs = db.subs
        /\ db'.members = {m \in db.members : m[1] # a} \cup ({a} \X plan[a])
    BY <2>2, <2>3 DEF MembersPut
  <2>7. MembersFair
    <3>1. CASE late[h]
      <4>1. By({"create", "edit", "activate", "profile"})
        BY <2>5, <3>1, ByMe
      <4> QED  BY <4>1 DEF MembersFair
    <3>2. CASE ~late[h]
      <4>1. Had(db, a) \subseteq plan[a]
        BY <2>4, <3>2 DEF Knows
      <4>2. \A g : <<a, g>> \in db.members => g \in plan[a]
        BY <4>1 DEF Had
      <4> QED  BY <2>6, <4>2 DEF MembersFair
    <3> QED  BY <3>1, <3>2
  <2> QED  BY <2>6, <2>7, SameFair DEF Fair
<1> QED  BY <1>1, <1>2

SwitchesKept(old, new) == new.enabled = old.enabled /\ new.status = old.status

LEMMA RemoveGroupFair == ASSUME IInv, NEW h \in Handlers, RemoveGroup(h) PROVE Fair
<1> DEFINE g    == job[h].id
           plan == job[h].plan
<1>1. /\ GroupCut(db, db', g)
      /\ \A a \in DOMAIN db.accounts : SwitchesKept(db.accounts[a], db'.accounts[a])
  <2>1. CASE pc[h] = "ungroup" /\ backend = "local" /\ Last(h, L!DeleteGroup(db, g))
    <3>1. db' = L!DeleteGroup(db, g)
      BY <2>1 DEF Last, Write
    <3>2. /\ GroupCut(db, db', g)
          /\ \A a \in DOMAIN db.accounts : db'.accounts[a] = [db.accounts[a] EXCEPT !.allowed = @ \ {g}]
      BY <3>1, LocalGroupCut, InStore
    <3>3. ASSUME NEW a \in DOMAIN db.accounts PROVE SwitchesKept(db.accounts[a], db'.accounts[a])
      <4>1. db.accounts[a] \in AccountRows
        BY InStore DEF Row
      <4>2. db'.accounts[a] = [db.accounts[a] EXCEPT !.allowed = @ \ {g}]
        BY <3>2
      <4> QED  BY <4>1, <4>2 DEF AccountRows, SwitchesKept
    <3> QED  BY <3>2, <3>3
  <2>2. CASE pc[h] = "commit" /\ Last(h, M!CommitDeleteGroup(db, g, plan))
    <3>1. db' = M!CommitDeleteGroup(db, g, plan)
      BY <2>2 DEF Last, Write
    <3> HIDE DEF g, plan
    <3>2. Sections \subseteq DOMAIN db
      BY InStore
    <3>3. /\ GroupCut(db, db', g)
          /\ \A a \in DOMAIN db.accounts :
                db'.accounts[a] = IF a \in DOMAIN plan
                                  THEN [db.accounts[a] EXCEPT !.allowed = plan[a]] ELSE db.accounts[a]
      BY <3>1, <3>2, MysqlGroupCut
    <3>4. ASSUME NEW a \in DOMAIN db.accounts PROVE SwitchesKept(db.accounts[a], db'.accounts[a])
      <4>1. db.accounts[a] \in AccountRows
        BY InStore DEF Row
      <4>2. \/ db'.accounts[a] = [db.accounts[a] EXCEPT !.allowed = plan[a]]
            \/ db'.accounts[a] = db.accounts[a]
        BY <3>3
      <4> QED  BY <4>1, <4>2 DEF AccountRows, SwitchesKept
    <3> QED  BY <3>3, <3>4 DEF g
  <2> QED  BY <2>1, <2>2 DEF RemoveGroup
<1> HIDE DEF g
<1>2. AccountsFair
  <2>1. DOMAIN db'.accounts = DOMAIN db.accounts
    BY <1>1 DEF GroupCut
  <2>2. ASSUME NEW a \in Both("accounts")
        PROVE  /\ Row(a).enabled \/ ~db'.accounts[a].enabled
               /\ Active(Row(a)) \/ ~Active(db'.accounts[a])
    BY <1>1, <2>1, Zenon DEF SwitchesKept, Both, Row, Active
  <2> QED  BY <2>1, <2>2 DEF AccountsFair
<1>3. ASSUME NEW k \in DOMAIN db.keys PROVE db'.keys[k].enabled = db.keys[k].enabled
  <2>1. db.keys[k] \in KeyRows
    BY InStore
  <2>2. db'.keys[k] = IF db.keys[k].group = g THEN [db.keys[k] EXCEPT !.group = None] ELSE db.keys[k]
    BY <1>1 DEF GroupCut
  <2> QED  BY <2>1, <2>2 DEF KeyRows
<1>4. KeysFair
  BY <1>1, <1>3 DEF KeysFair, GroupCut, Both
<1>5. ASSUME NEW s \in DOMAIN db.subs
      PROVE  db'.subs[s].status = db.subs[s].status /\ db'.subs[s].expires = db.subs[s].expires
  <2>1. db.subs[s] \in SubRows
    BY InStore
  <2>2. db'.subs[s] = IF db.subs[s].group = g THEN [db.subs[s] EXCEPT !.group = None] ELSE db.subs[s]
    BY <1>1 DEF GroupCut
  <2> QED  BY <2>1, <2>2 DEF SubRows
<1>6. SubsFair
  BY <1>5 DEF SubsFair, Both
<1>7. MembersFair
  BY <1>1 DEF MembersFair, GroupCut
<1> QED  BY <1>2, <1>4, <1>6, <1>7 DEF Fair

LEMMA NextFair == IInv /\ [Next]_vars => [Fair]_vars
<1> SUFFICES ASSUME IInv, Next PROVE Fair
  OBVIOUS
<1>1. ASSUME NEW h \in Handlers, Ask(h) PROVE Fair
  BY <1>1, AskFair, QuietFair
<1>2. ASSUME NEW h \in Handlers, Work(h) PROVE Fair
  <2>1. CASE Invite(h) \/ ReadMembers(h) \/ CopyMembers(h) \/ SelectLists(h) \/ Fail(h)
    BY <2>1, QuietFair DEF Invite, ReadMembers, CopyMembers, SelectLists, Fail
  <2> QED  BY <1>2, <2>1, SaveAccountFair, SaveGroupsFair, RemoveAccountFair, SaveKeyFair, SwitchFair,
              RemoveKeyFair, SaveSubscriptionFair, SaveGroupFair, PasteFair, RemoveGroupFair DEF Work
<1> QED  BY <1>1, <1>2 DEF Next

\* What was switched off, revoked or deleted comes back only through a request that asks
\* for it, or through a late write: a request that was not overtaken stores again what it
\* read, and has the row it read still before it.  The exception is an account that only
\* its status switched off, which a form without a status makes active.
THEOREM ComesBackOnRequest == Spec => NothingComesBack
<1>1. Fair => /\ DOMAIN db'.accounts \subseteq DOMAIN db.accounts \/ By({"create"})
              /\ \A a \in Both("accounts") :
                    /\ Row(a).enabled \/ ~db'.accounts[a].enabled \/ By({"enable", "activate"})
                    /\ \/ Active(Row(a)) \/ ~Active(db'.accounts[a]) \/ By({"enable", "activate"})
                       \/ Row(a).enabled /\ By({"edit", "profile"})
              /\ DOMAIN db'.keys \subseteq DOMAIN db.keys \/ By({"create"})
              /\ \A k \in Both("keys") : db.keys[k].enabled \/ ~db'.keys[k].enabled \/ By({"enable"})
              /\ \A s \in Both("subs") :
                    db.subs[s].status = "active" \/ db'.subs[s].status # "active" \/ By({"assign"})
  BY DEF Fair, AccountsFair, KeysFair, SubsFair
<1> QED  BY Invariant, NextFair, <1>1, PTL DEF Spec, NothingComesBack

\* Memberships, accounts, keys and days of a subscription are lost only to a request that
\* takes them, or to a late write: a copied group and a subscription add to what they read.
THEOREM LostOnRequest == Spec => NothingLost
<1>1. Fair => /\ \A a \in Both("accounts") :
                    \A g \in db.groups \cap db'.groups :
                       <<a, g>> \in db.members => <<a, g>> \in db'.members \/ By({"create", "edit", "activate", "profile"})
              /\ DOMAIN db.accounts \subseteq DOMAIN db'.accounts \/ By({"delete"})
              /\ DOMAIN db.keys \subseteq DOMAIN db'.keys \/ By({"delete"})
              /\ \A s \in Both("subs") :
                    LET e == db.subs[s].expires IN LET f == db'.subs[s].expires IN
                    e = f \/ By({"assign"}) \/ (By({"extend"}) /\ (e = None \/ f > e))
  BY DEF Fair, AccountsFair, KeysFair, SubsFair, MembersFair
<1> QED  BY Invariant, NextFair, <1>1, PTL DEF Spec, NothingLost
=============================================================================
