---------------------------- MODULE PaymentOrders ----------------------------
(***************************************************************************)
(* Payment orders of admin/payments.py: creation, the provider's webhook,  *)
(* and status changes by the admin or, for a cancellation, the account.    *)
(* Every call of the storage takes its lock and writes its file, and is    *)
(* one step; between two calls other request threads run, and the process  *)
(* may be killed.  Prices, expiry dates and fulfilment logs are left out,  *)
(* as are later changes to a granted subscription.                         *)
(***************************************************************************)
EXTENDS FiniteSets, Naturals

CONSTANTS
    Orders, Accounts, Groups,
    AccountOf,      \* AccountOf[o]: the account an order belongs to
    GroupOf,        \* GroupOf[o]: the group of its plan, or None
    Events,         \* webhook event ids
    OrderOf,        \* OrderOf[e]: the order event e is about
    StatusOf,       \* StatusOf[e]: the status it reports, "paid" or "failed"
    Contested,      \* orders whose fulfilment a validation may refuse
    Subscriptions,  \* subscription ids
    Handlers,       \* request threads
    MaxCrashes,     \* bound on crashes
    None

ASSUME PaymentAssumption ==
    /\ AccountOf \in [Orders -> Accounts]
    /\ GroupOf \in [Orders -> Groups \cup {None}]
    /\ OrderOf \in [Events -> Orders]
    /\ StatusOf \in [Events -> {"paid", "failed"}]
    /\ None \notin Orders \cup Groups \cup Events \cup Subscriptions
    /\ MaxCrashes \in Nat

VARIABLES
    order,    \* stored orders: [status, sub], status "absent" before creation
    event,    \* stored webhook events: "none", "recorded", "processed"
    subs,     \* stored subscriptions: the order each was granted for, or None
    groups,   \* stored memberships: the groups of each account
    pc,       \* per request thread: where it is
    job,      \* what it works on; job.sub is its copy of the order's
    members,  \* its copy of the account's groups
    crashes

stored == <<order, event, subs, groups>>
vars   == <<stored, pc, job, members, crashes>>

\* ALLOWED_PAYMENT_ORDER_TRANSITIONS, and the creation of an order
Allowed(status) ==
    CASE status = "absent"  -> {"pending"}
      [] status = "pending" -> {"paid", "failed", "cancelled"}
      [] OTHER              -> {}

NoJob == [order |-> None, event |-> None, status |-> "none", sub |-> None]

Init ==
    /\ order = [o \in Orders |-> [status |-> "absent", sub |-> None]]
    /\ event = [e \in Events |-> "none"]
    /\ subs = [s \in Subscriptions |-> None]
    /\ groups = [a \in Accounts |-> {}]
    /\ pc = [h \in Handlers |-> "idle"]
    /\ job = [h \in Handlers |-> NoJob]
    /\ members = [h \in Handlers |-> {}]
    /\ crashes = 0

Goto(h, p) == pc' = [pc EXCEPT ![h] = p]

Start(h, p, o, e, status, sub) ==
    /\ pc[h] = "idle" /\ Goto(h, p)
    /\ job' = [job EXCEPT ![h] = [order |-> o, event |-> e, status |-> status, sub |-> sub]]

\* The handler returns or raises.
Finish(h) ==
    /\ Goto(h, "idle")
    /\ job' = [job EXCEPT ![h] = NoJob]
    /\ members' = [members EXCEPT ![h] = {}]

-----------------------------------------------------------------------------
(* create_payment_order                                                     *)

Create(h, o) ==
    /\ order[o].status = "absent"
    /\ Start(h, "create", o, None, "pending", None)
    /\ order' = [order EXCEPT ![o] = [status |-> "pending", sub |-> None]]
    /\ UNCHANGED <<event, subs, groups, members, crashes>>

\* The channel's scope is checked only now: a refused order stays stored.
RefuseChannel(h) ==
    /\ pc[h] = "create" /\ Finish(h)
    /\ UNCHANGED <<stored, crashes>>

\* The order is stored again, with the provider's payload, as it was first.
AddProvider(h) ==
    /\ pc[h] = "create" /\ Finish(h)
    /\ order' = [order EXCEPT ![job[h].order] = [status |-> "pending", sub |-> None]]
    /\ UNCHANGED <<event, subs, groups, crashes>>

BeingCreated == {job[h].order : h \in {k \in Handlers : pc[k] = "create"}}

-----------------------------------------------------------------------------
(* process_payment_webhook and update_payment_order_status                  *)

\* An event that is processed already is a duplicate.  The provider has the
\* order only once it is created.
Deliver(h, e) ==
    /\ order[OrderOf[e]].status # "absent" /\ OrderOf[e] \notin BeingCreated
    /\ event[e] # "processed"
    /\ Start(h, "record", OrderOf[e], e, StatusOf[e], None)
    /\ UNCHANGED <<stored, members, crashes>>

\* Faulty variant: the event counts as processed when it is received.
RecordProcessed(h) ==
    /\ pc[h] = "record" /\ Goto(h, "fulfill")
    /\ event' = [event EXCEPT ![job[h].event] = "processed"]
    /\ UNCHANGED <<order, subs, groups, job, members, crashes>>

Record(h) ==
    /\ pc[h] = "record" /\ Goto(h, "fulfill")
    /\ event' = [event EXCEPT ![job[h].event] = "recorded"]
    /\ UNCHANGED <<order, subs, groups, job, members, crashes>>

SetStatus(h, o, status) ==
    /\ status \in Allowed(order[o].status) \ {"pending", "paid"}
    /\ Start(h, "save", o, None, status, order[o].sub)
    /\ UNCHANGED <<stored, members, crashes>>

SetPaid(h, o) ==
    /\ order[o].status # "absent"
    /\ Start(h, "fulfill", o, None, "paid", None)
    /\ UNCHANGED <<stored, members, crashes>>

-----------------------------------------------------------------------------
(* fulfill_payment_order                                                    *)

\* Faulty variant: a status the order has already is refused.
FulfillRefusesSame(h) ==
    LET now == order[job[h].order]
    IN  /\ pc[h] = "fulfill"
        /\ IF job[h].status \in Allowed(now.status)
           THEN /\ Goto(h, IF job[h].status = "paid" THEN "grant" ELSE "save")
                /\ job' = [job EXCEPT ![h].sub = now.sub]
                /\ UNCHANGED members
           ELSE Finish(h)
        /\ UNCHANGED <<stored, crashes>>

\* A transition the table does not have raises.
Fulfill(h) ==
    LET now == order[job[h].order]
    IN  /\ pc[h] = "fulfill"
        /\ \/ /\ now.status = job[h].status /\ job[h].event # None
              /\ Goto(h, "mark") /\ UNCHANGED <<job, members>>
           \/ /\ now.status = job[h].status \/ job[h].status \notin Allowed(now.status)
              /\ now.status = job[h].status => job[h].event = None
              /\ Finish(h)
           \/ /\ job[h].status \in Allowed(now.status)
              /\ Goto(h, IF job[h].status = "paid" THEN "grant" ELSE "save")
              /\ job' = [job EXCEPT ![h].sub = now.sub]
              /\ UNCHANGED members
        /\ UNCHANGED <<stored, crashes>>

\* The account may no longer have the plan's group.
Refuse(h) ==
    /\ pc[h] = "grant" /\ job[h].order \in Contested
    /\ Finish(h)
    /\ UNCHANGED <<stored, crashes>>

\* The order's own subscription again, or else a new one.
Grants(h) ==
    IF job[h].sub # None THEN {job[h].sub}
    ELSE {s \in Subscriptions : subs[s] = None}

\* Faulty variant: the order is not linked to its new subscription.
GrantUnlinked(h) ==
    /\ pc[h] = "grant"
    /\ \E s \in Grants(h) : subs' = [subs EXCEPT ![s] = job[h].order]
    /\ Goto(h, IF GroupOf[job[h].order] = None THEN "save" ELSE "members")
    /\ UNCHANGED <<order, event, groups, job, members, crashes>>

Grant(h) ==
    /\ pc[h] = "grant"
    /\ \E s \in Grants(h) :
           /\ subs' = [subs EXCEPT ![s] = job[h].order]
           /\ job' = [job EXCEPT ![h].sub = s]
    /\ Goto(h, IF GroupOf[job[h].order] = None THEN "save" ELSE "members")
    /\ UNCHANGED <<order, event, groups, members, crashes>>

ReadMembers(h) ==
    /\ pc[h] = "members" /\ Goto(h, "join")
    /\ members' = [members EXCEPT ![h] = groups[AccountOf[job[h].order]]]
    /\ UNCHANGED <<stored, job, crashes>>

\* Faulty variant: the plan's group replaces the account's groups.
JoinOnly(h) ==
    /\ pc[h] = "join" /\ Goto(h, "save")
    /\ groups' = [groups EXCEPT ![AccountOf[job[h].order]] = {GroupOf[job[h].order]}]
    /\ UNCHANGED <<order, event, subs, job, members, crashes>>

Join(h) ==
    /\ pc[h] = "join" /\ Goto(h, "save")
    /\ groups' = [groups EXCEPT ![AccountOf[job[h].order]] =
                      members[h] \cup {GroupOf[job[h].order]}]
    /\ UNCHANGED <<order, event, subs, job, members, crashes>>

\* The whole order is stored, as it was read, with the new status.
Save(h) ==
    /\ pc[h] = "save"
    /\ order' = [order EXCEPT ![job[h].order] = [status |-> job[h].status, sub |-> job[h].sub]]
    /\ IF job[h].event = None THEN Finish(h)
       ELSE Goto(h, "mark") /\ UNCHANGED <<job, members>>
    /\ UNCHANGED <<event, subs, groups, crashes>>

Mark(h) ==
    /\ pc[h] = "mark" /\ Finish(h)
    /\ event' = [event EXCEPT ![job[h].event] = "processed"]
    /\ UNCHANGED <<order, subs, groups, crashes>>

\* The process is killed and started again: what is stored remains.
Crash ==
    /\ crashes < MaxCrashes /\ crashes' = crashes + 1
    /\ pc' = [h \in Handlers |-> "idle"]
    /\ job' = [h \in Handlers |-> NoJob]
    /\ members' = [h \in Handlers |-> {}]
    /\ UNCHANGED stored

Work(h) ==
    \/ AddProvider(h) \/ Record(h) \/ Fulfill(h) \/ Grant(h)
    \/ ReadMembers(h) \/ Join(h) \/ Save(h) \/ Mark(h)

Ask(h) ==
    \/ \E o \in Orders : Create(h, o) \/ SetPaid(h, o)
    \/ \E o \in Orders, status \in {"failed", "cancelled"} : SetStatus(h, o, status)
    \/ \E e \in Events : Deliver(h, e)

Next ==
    \/ Crash
    \/ \E h \in Handlers : Ask(h) \/ Work(h) \/ RefuseChannel(h) \/ Refuse(h)

Spec == Init /\ [][Next]_vars

\* Request threads go on, and the provider delivers an event again until it is
\* answered.
FairSpec ==
    /\ Spec
    /\ \A h \in Handlers : WF_vars(Work(h))
    /\ \A e \in Events : SF_vars(\E h \in Handlers : Deliver(h, e))

-----------------------------------------------------------------------------
Statuses == {"absent", "pending", "paid", "failed", "cancelled"}

Jobs == [order : Orders, event : Events \cup {None}, status : Statuses,
         sub : Subscriptions \cup {None}]

\* What is stored and what the threads hold keep their types.
TypeOK ==
    /\ order \in [Orders -> [status : Statuses, sub : Subscriptions \cup {None}]]
    /\ event \in [Events -> {"none", "recorded", "processed"}]
    /\ subs \in [Subscriptions -> Orders \cup {None}]
    /\ groups \in [Accounts -> SUBSET Groups]
    /\ pc \in [Handlers -> {"idle", "create", "record", "fulfill", "grant", "members",
                            "join", "save", "mark"}]
    /\ job \in [Handlers -> Jobs \cup {NoJob}]
    /\ members \in [Handlers -> SUBSET Groups]
    /\ crashes \in 0..MaxCrashes
    /\ \A h \in Handlers : pc[h] # "idle" => job[h] \in Jobs
    /\ \A h \in Handlers : pc[h] \in {"record", "mark"} => job[h].event # None
    /\ \A h \in Handlers : pc[h] \in {"members", "join"} => GroupOf[job[h].order] # None

\* An order is stored as paid only with the subscription it was paid for.
PaidHasSubscription ==
    \A o \in Orders : order[o].status = "paid" =>
        order[o].sub # None /\ subs[order[o].sub] = o

\* An event is marked processed only after what it reports has happened, so that
\* later deliveries may be ignored: the subscription of a paid order is granted,
\* and no order is left pending.
ProcessedDelivered ==
    \A e \in Events : event[e] = "processed" =>
        /\ order[OrderOf[e]].status \notin {"absent", "pending"}
        /\ StatusOf[e] = "paid" => \E s \in Subscriptions : subs[s] = OrderOf[e]

\* A paid order's account is a member of its plan's group.
PaidHasGroup ==
    \A o \in Orders : order[o].status = "paid" /\ GroupOf[o] # None =>
        GroupOf[o] \in groups[AccountOf[o]]

\* A recorded event is processed in the end, unless the order went another way
\* or a validation may refuse its fulfilment time and again.
EventSettled ==
    \A e \in {e \in Events : OrderOf[e] \notin Contested} :
        event[e] = "recorded" ~>
            (event[e] = "processed" \/ order[OrderOf[e]].status \notin {"pending", StatusOf[e]})
=============================================================================
