--------------------------- MODULE MCAccountAdmin ---------------------------
(* The account at the start has no list of allowed groups and a            *)
(* subscription without an end, or its own group as the list and one that  *)
(* ends: no operation looks at both.  A form that creates an account or    *)
(* asks that it be active makes it active; the others switch it off by its *)
(* flag and status, or by its status alone, and give no groups.            *)
EXTENDS AccountAdmin

Sym == Permutations(Accounts) \cup Permutations(Groups)
       \cup Permutations(Handlers)

Paired ==
    calls = 0 => \A a \in DOMAIN db.accounts, s \in DOMAIN db.subs :
                    /\ db.accounts[a].allowed = {} <=> db.subs[s].expires = None
                    /\ {a} \X db.accounts[a].allowed \subseteq db.members

FormsAgree ==
    \A h \in Handlers : pc[h] = "account" /\ ~Active(job[h].row) =>
        job[h].op \notin {"create", "activate"} /\ job[h].groups = {}
=============================================================================
