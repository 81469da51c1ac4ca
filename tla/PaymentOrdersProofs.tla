------------------------ MODULE PaymentOrdersProofs ------------------------
(***************************************************************************)
(* Theorems about payment orders, for any orders, events, request threads  *)
(* and number of crashes.                                                  *)
(***************************************************************************)
EXTENDS PaymentOrders, TLAPS

\* An order names only a subscription that was granted for it.
Linked == \A o \in Orders : order[o].sub # None => subs[order[o].sub] = o

\* What a thread has read and done so far, at each place.
Progress(h) ==
    /\ job[h].sub # None => subs[job[h].sub] = job[h].order
    /\ pc[h] \in {"record", "fulfill"} => job[h].status \in {"paid", "failed"}
    /\ pc[h] \in {"grant", "members", "join"} => job[h].status = "paid"
    /\ pc[h] \in {"members", "join"} => job[h].sub # None
    /\ pc[h] = "save" => job[h].status \in {"paid", "failed", "cancelled"}
    /\ pc[h] = "save" /\ job[h].status = "paid" => job[h].sub # None
    /\ pc[h] = "create" => job[h].event = None

\* No thread is still creating order o, and o is there.
Created(o) ==
    /\ order[o].status # "absent"
    /\ \A h \in Handlers : pc[h] = "create" => job[h].order # o

\* What event e reports has happened.
Happened(e) ==
    /\ order[OrderOf[e]].status # "pending"
    /\ StatusOf[e] = "paid" => \E s \in Subscriptions : subs[s] = OrderOf[e]

\* A thread works on the event it was given.
Answering(h) ==
    LET e == job[h].event
    IN  e # None =>
            /\ job[h].order = OrderOf[e] /\ job[h].status = StatusOf[e]
            /\ Created(OrderOf[e])
            /\ pc[h] = "mark" => Happened(e)

Threads == \A h \in Handlers : pc[h] # "idle" => Progress(h) /\ Answering(h)

Processed == \A e \in Events : event[e] = "processed" => Created(OrderOf[e]) /\ Happened(e)

IInv == TypeOK /\ PaidHasSubscription /\ Linked /\ Threads /\ Processed

\* What no step undoes: a granted subscription stays with its order, a created
\* order stays created, and what has happened to it stays so.
Stable ==
    /\ \A s \in Subscriptions : subs[s] # None => subs'[s] = subs[s]
    /\ \A o \in Orders : Created(o) => Created(o)'
    /\ \A e \in Events : Created(OrderOf[e]) /\ Happened(e) => Happened(e)'

-----------------------------------------------------------------------------
LEMMA InitInv == Init => IInv
BY PaymentAssumption
   DEF Init, IInv, TypeOK, Statuses, Jobs, NoJob, PaidHasSubscription, Linked, Threads,
       Processed

\* The threads that do not move keep what they know, and so do the events.
LEMMA Rest ==
    ASSUME IInv, TypeOK', PaidHasSubscription', Linked', Stable,
           NEW h \in Handlers,
           \A k \in Handlers : k # h => pc'[k] = pc[k] /\ job'[k] = job[k],
           pc'[h] # "idle" => Progress(h)' /\ Answering(h)',
           \A e \in Events : event'[e] = "processed" =>
               event[e] = "processed" \/ (Created(OrderOf[e])' /\ Happened(e)')
    PROVE  IInv'
<1>1. Threads'
  <2> SUFFICES ASSUME NEW k \in Handlers, pc'[k] # "idle"
               PROVE  Progress(k)' /\ Answering(k)'
    BY DEF Threads
  <2>1. CASE k = h BY <2>1
  <2>2. CASE k # h
    <3>1. pc'[k] = pc[k] /\ job'[k] = job[k] BY <2>2
    <3>2. Progress(k) /\ Answering(k) BY <3>1 DEF IInv, Threads
    <3>3. job[k] \in Jobs BY <3>1 DEF IInv, TypeOK
    <3>4. Progress(k)' BY <3>1, <3>2, <3>3, PaymentAssumption DEF Progress, Stable, Jobs
    <3>5. Answering(k)'
      BY <3>1, <3>2, <3>3, PaymentAssumption DEF Answering, Stable, Jobs
    <3> QED BY <3>4, <3>5
  <2> QED BY <2>1, <2>2
<1>2. Processed'
  <2> SUFFICES ASSUME NEW e \in Events, event'[e] = "processed"
               PROVE  Created(OrderOf[e])' /\ Happened(e)'
    BY DEF Processed
  <2>1. CASE event[e] = "processed"
    BY <2>1, PaymentAssumption DEF IInv, Processed, Stable
  <2> QED BY <2>1
<1> QED BY <1>1, <1>2 DEF IInv

\* A step that changes no order and no subscription, and starts no creation.
LEMMA Quiet ==
    ASSUME IInv, TypeOK', order' = order, subs' = subs,
           NEW h \in Handlers,
           \A k \in Handlers : k # h => pc'[k] = pc[k] /\ job'[k] = job[k],
           pc'[h] # "create",
           pc'[h] # "idle" => Progress(h)' /\ Answering(h)',
           \A e \in Events : event'[e] = "processed" =>
               event[e] = "processed" \/ (Created(OrderOf[e]) /\ Happened(e))
    PROVE  IInv'
<1>1. \A o \in Orders : Created(o) => Created(o)'
  BY DEF Created
<1>2. \A e \in Events : Happened(e) => Happened(e)' BY DEF Happened
<1>3. Stable BY <1>1, <1>2 DEF Stable
<1>4. PaidHasSubscription' /\ Linked' BY DEF IInv, PaidHasSubscription, Linked
<1>5. \A e \in Events : event'[e] = "processed" =>
          event[e] = "processed" \/ (Created(OrderOf[e])' /\ Happened(e)')
  BY <1>1, <1>2, PaymentAssumption
<1> QED BY <1>3, <1>4, <1>5, Rest

-----------------------------------------------------------------------------
\* A new order, or a new job for the thread.
LEMMA AskInv == ASSUME IInv, NEW h \in Handlers, Ask(h) PROVE IInv'
<1> USE PaymentAssumption
<1>1. ASSUME NEW o \in Orders, Create(h, o) PROVE IInv'
  <2>1. /\ order[o].status = "absent" /\ pc[h] = "idle"
        /\ pc' = [pc EXCEPT ![h] = "create"]
        /\ job' = [job EXCEPT ![h] =
                       [order |-> o, event |-> None, status |-> "pending", sub |-> None]]
        /\ order' = [order EXCEPT ![o] = [status |-> "pending", sub |-> None]]
        /\ UNCHANGED <<event, subs, groups, members, crashes>>
    BY <1>1 DEF Create, Start, Goto
  <2>2. TypeOK' BY <2>1 DEF IInv, TypeOK, Jobs, Statuses
  <2>3. PaidHasSubscription' /\ Linked'
    BY <2>1 DEF IInv, TypeOK, PaidHasSubscription, Linked
  <2>4. ASSUME NEW p \in Orders, Created(p) PROVE p # o /\ Created(p)' /\ order'[p] = order[p]
    <3>1. p # o BY <2>1, <2>4 DEF Created
    <3>2. order'[p] = order[p] BY <2>1, <3>1 DEF IInv, TypeOK
    <3>3. \A k \in Handlers : pc'[k] = "create" => job'[k].order # p
      BY <2>1, <2>4, <3>1 DEF Created, IInv, TypeOK
    <3> QED BY <2>4, <3>1, <3>2, <3>3 DEF Created
  <2>5. Stable BY <2>1, <2>4 DEF Stable, Happened
  <2>6. Progress(h)' /\ Answering(h)'
    BY <2>1 DEF IInv, TypeOK, Progress, Answering
  <2>7. \A k \in Handlers : k # h => pc'[k] = pc[k] /\ job'[k] = job[k]
    BY <2>1 DEF IInv, TypeOK
  <2> QED BY <2>1, <2>2, <2>3, <2>5, <2>6, <2>7, Rest
<1>2. ASSUME NEW o \in Orders, SetPaid(h, o) PROVE IInv'
  <2>1. /\ pc' = [pc EXCEPT ![h] = "fulfill"]
        /\ job' = [job EXCEPT ![h] =
                       [order |-> o, event |-> None, status |-> "paid", sub |-> None]]
        /\ UNCHANGED <<order, event, subs, groups, members, crashes>>
    BY <1>2 DEF SetPaid, Start, Goto, stored
  <2>2. TypeOK' BY <2>1 DEF IInv, TypeOK, Jobs, Statuses
  <2>3. Progress(h)' /\ Answering(h)' /\ pc'[h] # "create"
    BY <2>1 DEF IInv, TypeOK, Progress, Answering
  <2>4. \A k \in Handlers : k # h => pc'[k] = pc[k] /\ job'[k] = job[k]
    BY <2>1 DEF IInv, TypeOK
  <2> QED BY <2>1, <2>2, <2>3, <2>4, Quiet
<1>3. ASSUME NEW o \in Orders, NEW status \in {"failed", "cancelled"}, SetStatus(h, o, status)
      PROVE  IInv'
  <2>1. /\ pc' = [pc EXCEPT ![h] = "save"]
        /\ job' = [job EXCEPT ![h] =
                       [order |-> o, event |-> None, status |-> status, sub |-> order[o].sub]]
        /\ UNCHANGED <<order, event, subs, groups, members, crashes>>
    BY <1>3 DEF SetStatus, Start, Goto, stored
  <2>2. TypeOK' BY <2>1 DEF IInv, TypeOK, Jobs, Statuses
  <2>3. Progress(h)' /\ Answering(h)' /\ pc'[h] # "create"
    BY <2>1 DEF IInv, TypeOK, Linked, Progress, Answering
  <2>4. \A k \in Handlers : k # h => pc'[k] = pc[k] /\ job'[k] = job[k]
    BY <2>1 DEF IInv, TypeOK
  <2> QED BY <2>1, <2>2, <2>3, <2>4, Quiet
<1>4. ASSUME NEW e \in Events, Deliver(h, e) PROVE IInv'
  <2>1. /\ order[OrderOf[e]].status # "absent" /\ OrderOf[e] \notin BeingCreated
        /\ pc' = [pc EXCEPT ![h] = "record"]
        /\ job' = [job EXCEPT ![h] = [order |-> OrderOf[e], event |-> e,
                                      status |-> StatusOf[e], sub |-> None]]
        /\ UNCHANGED <<order, event, subs, groups, members, crashes>>
    BY <1>4 DEF Deliver, Start, Goto, stored
  <2>2. TypeOK' BY <2>1 DEF IInv, TypeOK, Jobs, Statuses
  <2>3. Progress(h)' BY <2>1 DEF IInv, TypeOK, Progress
  <2>4. Created(OrderOf[e])'
    <3>1. \A k \in Handlers : pc[k] = "create" => job[k].order # OrderOf[e]
      BY <2>1 DEF BeingCreated
    <3> QED BY <2>1, <3>1 DEF Created, IInv, TypeOK
  <2>5. Answering(h)' BY <2>1, <2>4 DEF IInv, TypeOK, Answering
  <2>6. pc'[h] # "create" /\ \A k \in Handlers : k # h => pc'[k] = pc[k] /\ job'[k] = job[k]
    BY <2>1 DEF IInv, TypeOK
  <2> QED BY <2>1, <2>2, <2>3, <2>5, <2>6, Quiet
<1> QED BY <1>1, <1>2, <1>3, <1>4 DEF Ask

\* A thread ends its job without a change of what is stored.
LEMMA EndInv ==
    ASSUME IInv, NEW h \in Handlers, Finish(h), UNCHANGED <<stored, crashes>>
    PROVE  IInv'
<1> USE PaymentAssumption
<1>1. TypeOK' BY DEF IInv, TypeOK, Finish, Goto, stored
<1>2. pc'[h] = "idle" /\ \A k \in Handlers : k # h => pc'[k] = pc[k] /\ job'[k] = job[k]
  BY DEF IInv, TypeOK, Finish, Goto
<1> QED BY <1>1, <1>2, Quiet DEF stored

LEMMA RecordInv == ASSUME IInv, NEW h \in Handlers, Record(h) PROVE IInv'
<1> USE PaymentAssumption
<1>1. /\ pc[h] = "record" /\ pc' = [pc EXCEPT ![h] = "fulfill"]
      /\ event' = [event EXCEPT ![job[h].event] = "recorded"]
      /\ UNCHANGED <<order, subs, groups, job, members, crashes>>
  BY DEF Record, Goto
<1>2. TypeOK' BY <1>1 DEF IInv, TypeOK
<1>3. Progress(h) /\ Answering(h) BY <1>1 DEF IInv, Threads
<1>4. Progress(h)' /\ pc'[h] # "create" BY <1>1, <1>3 DEF IInv, TypeOK, Progress
<1>5. \A o \in Orders : Created(o) => Created(o)' BY <1>1 DEF Created, IInv, TypeOK
<1>6. job[h] \in Jobs BY <1>1 DEF IInv, TypeOK
<1>7. Answering(h)' BY <1>1, <1>3, <1>5, <1>6 DEF IInv, TypeOK, Answering, Jobs
<1>8. \A k \in Handlers : k # h => pc'[k] = pc[k] /\ job'[k] = job[k]
  BY <1>1 DEF IInv, TypeOK
<1>9. \A e \in Events : event'[e] = "processed" => event[e] = "processed"
  BY <1>1 DEF IInv, TypeOK
<1> QED BY <1>1, <1>2, <1>4, <1>7, <1>8, <1>9, Quiet

LEMMA FulfillInv == ASSUME IInv, NEW h \in Handlers, Fulfill(h) PROVE IInv'
<1> USE PaymentAssumption
<1> DEFINE o   == job[h].order
           now == order[o]
<1>1. pc[h] = "fulfill" /\ UNCHANGED <<stored, crashes>> BY DEF Fulfill
<1>2. Progress(h) /\ Answering(h) /\ job[h] \in Jobs BY <1>1 DEF IInv, Threads, TypeOK
<1>3. o \in Orders /\ job[h].status \in {"paid", "failed"}
  BY <1>1, <1>2 DEF Progress, Jobs
<1>4. CASE /\ now.status = job[h].status /\ job[h].event # None
           /\ Goto(h, "mark") /\ UNCHANGED <<job, members>>
  <2>1. pc' = [pc EXCEPT ![h] = "mark"] BY <1>4 DEF Goto
  <2>2. TypeOK' BY <1>1, <1>2, <1>4, <2>1 DEF IInv, TypeOK, stored
  <2>3. Progress(h)' /\ pc'[h] = "mark"
    BY <1>1, <1>2, <1>4, <2>1 DEF IInv, TypeOK, Progress, stored
  <2>4. job[h].event \in Events /\ o = OrderOf[job[h].event]
        /\ job[h].status = StatusOf[job[h].event]
    BY <1>2, <1>4 DEF Answering, Jobs
  <2>5. now.status = "paid" => now.sub \in Subscriptions /\ subs[now.sub] = o
    BY <1>3 DEF IInv, TypeOK, PaidHasSubscription
  <2>6. Happened(job[h].event) BY <1>3, <1>4, <2>4, <2>5 DEF Happened
  <2>7. Created(o)' /\ Happened(job[h].event)'
    <3>1. Created(o) BY <1>2, <2>4 DEF Answering
    <3>2. Created(o)' BY <1>1, <1>4, <2>1, <3>1 DEF Created, IInv, TypeOK, stored
    <3> QED BY <1>1, <1>4, <2>6, <3>2 DEF Happened, stored
  <2>8. Answering(h)' BY <1>4, <2>4, <2>7 DEF Answering
  <2>9. \A k \in Handlers : k # h => pc'[k] = pc[k] /\ job'[k] = job[k]
    BY <1>4, <2>1 DEF IInv, TypeOK
  <2> QED BY <1>1, <2>2, <2>3, <2>8, <2>9, Quiet DEF stored
<1>5. CASE Finish(h) BY <1>1, <1>5, EndInv
<1>6. CASE /\ job[h].status \in Allowed(now.status)
           /\ Goto(h, IF job[h].status = "paid" THEN "grant" ELSE "save")
           /\ job' = [job EXCEPT ![h].sub = now.sub]
           /\ UNCHANGED members
  <2>1. PICK p \in {"grant", "save"} :
            /\ pc' = [pc EXCEPT ![h] = p]
            /\ p = "grant" <=> job[h].status = "paid"
    BY <1>6 DEF Goto
  <2>2. now \in [status : Statuses, sub : Subscriptions \cup {None}]
    BY <1>3 DEF IInv, TypeOK
  <2>3. job'[h] = [job[h] EXCEPT !.sub = now.sub] /\ pc'[h] = p
    BY <1>6, <2>1 DEF IInv, TypeOK
  <2>4. /\ job'[h] \in Jobs
        /\ job'[h].order = o /\ job'[h].event = job[h].event
        /\ job'[h].status = job[h].status /\ job'[h].sub = now.sub
    BY <1>2, <2>2, <2>3 DEF Jobs
  <2>5. \A k \in Handlers : k # h => pc'[k] = pc[k] /\ job'[k] = job[k]
    BY <1>6, <2>1 DEF IInv, TypeOK
  <2>6. TypeOK' BY <1>1, <1>6, <2>1, <2>3, <2>4, <2>5 DEF IInv, TypeOK, stored
  <2>7. now.sub # None => subs[now.sub] = o BY <1>3 DEF IInv, Linked
  <2>8. Progress(h)'
    BY <1>1, <1>3, <2>1, <2>3, <2>4, <2>7 DEF Progress, stored
  <2>9. \A q \in Orders : Created(q) => Created(q)'
    BY <1>1, <2>3, <2>5 DEF Created, stored
  <2>10. Answering(h)'
    BY <1>2, <1>1, <2>3, <2>4, <2>9 DEF Answering, stored, Jobs
  <2> QED BY <1>1, <2>3, <2>5, <2>6, <2>8, <2>10, Quiet DEF stored
<1> QED BY <1>1, <1>4, <1>5, <1>6 DEF Fulfill

LEMMA ReadMembersInv == ASSUME IInv, NEW h \in Handlers, ReadMembers(h) PROVE IInv'
<1> USE PaymentAssumption
<1>1. /\ pc[h] = "members" /\ pc' = [pc EXCEPT ![h] = "join"]
      /\ members' = [members EXCEPT ![h] = groups[AccountOf[job[h].order]]]
      /\ UNCHANGED <<order, event, subs, groups, job, crashes>>
  BY DEF ReadMembers, Goto, stored
<1>2. Progress(h) /\ Answering(h) /\ job[h] \in Jobs BY <1>1 DEF IInv, Threads, TypeOK
<1>3. groups[AccountOf[job[h].order]] \in SUBSET Groups
  BY <1>2 DEF IInv, TypeOK, Jobs
<1>4. TypeOK' BY <1>1, <1>3 DEF IInv, TypeOK
<1>5. Progress(h)' /\ pc'[h] = "join" BY <1>1, <1>2 DEF IInv, TypeOK, Progress
<1>6. \A o \in Orders : Created(o) => Created(o)' BY <1>1 DEF Created, IInv, TypeOK
<1>7. Answering(h)' BY <1>1, <1>2, <1>5, <1>6 DEF Answering, Jobs
<1>8. \A k \in Handlers : k # h => pc'[k] = pc[k] /\ job'[k] = job[k]
  BY <1>1 DEF IInv, TypeOK
<1> QED BY <1>1, <1>4, <1>5, <1>7, <1>8, Quiet

LEMMA JoinInv == ASSUME IInv, NEW h \in Handlers, Join(h) PROVE IInv'
<1> USE PaymentAssumption
<1> DEFINE acc == AccountOf[job[h].order]
           gs  == members[h] \cup {GroupOf[job[h].order]}
<1>1. /\ pc[h] = "join" /\ pc' = [pc EXCEPT ![h] = "save"]
      /\ groups' = [groups EXCEPT ![acc] = gs]
      /\ UNCHANGED <<order, event, subs, job, members, crashes>>
  BY DEF Join, Goto
<1>2. Progress(h) /\ Answering(h) /\ job[h] \in Jobs BY <1>1 DEF IInv, Threads, TypeOK
<1>3. gs \in SUBSET Groups BY <1>1, <1>2 DEF IInv, TypeOK, Jobs
<1>4. TypeOK' BY <1>1, <1>3 DEF IInv, TypeOK
<1>5. Progress(h)' /\ pc'[h] = "save" BY <1>1, <1>2 DEF IInv, TypeOK, Progress
<1>6. \A o \in Orders : Created(o) => Created(o)' BY <1>1 DEF Created, IInv, TypeOK
<1>7. Answering(h)' BY <1>1, <1>2, <1>5, <1>6 DEF Answering, Jobs
<1>8. \A k \in Handlers : k # h => pc'[k] = pc[k] /\ job'[k] = job[k]
  BY <1>1 DEF IInv, TypeOK
<1> QED BY <1>1, <1>4, <1>5, <1>7, <1>8, Quiet

LEMMA MarkInv == ASSUME IInv, NEW h \in Handlers, Mark(h) PROVE IInv'
<1> USE PaymentAssumption
<1>1. /\ pc[h] = "mark" /\ Finish(h)
      /\ event' = [event EXCEPT ![job[h].event] = "processed"]
      /\ UNCHANGED <<order, subs, groups, crashes>>
  BY DEF Mark
<1>2. Answering(h) /\ job[h] \in Jobs /\ job[h].event # None
  BY <1>1 DEF IInv, Threads, TypeOK
<1>3. Created(OrderOf[job[h].event]) /\ Happened(job[h].event)
  BY <1>1, <1>2 DEF Answering
<1>4. TypeOK' BY <1>1, <1>2 DEF IInv, TypeOK, Finish, Goto
<1>5. pc'[h] = "idle" /\ \A k \in Handlers : k # h => pc'[k] = pc[k] /\ job'[k] = job[k]
  BY <1>1 DEF IInv, TypeOK, Finish, Goto
<1>6. \A e \in Events : event'[e] = "processed" =>
          event[e] = "processed" \/ (Created(OrderOf[e]) /\ Happened(e))
  BY <1>1, <1>3 DEF IInv, TypeOK
<1> QED BY <1>1, <1>4, <1>5, <1>6, Quiet

\* The subscription is the order's own, or one that nobody has.
LEMMA GrantInv == ASSUME IInv, NEW h \in Handlers, Grant(h) PROVE IInv'
<1> USE PaymentAssumption
<1> DEFINE o == job[h].order
<1>1. PICK s \in Grants(h), p \in {"save", "members"} :
          /\ pc[h] = "grant" /\ pc' = [pc EXCEPT ![h] = p]
          /\ p = "members" <=> GroupOf[o] # None
          /\ subs' = [subs EXCEPT ![s] = o]
          /\ job' = [job EXCEPT ![h].sub = s]
          /\ UNCHANGED <<order, event, groups, members, crashes>>
  BY DEF Grant, Goto
<1>2. Progress(h) /\ Answering(h) /\ job[h] \in Jobs /\ job[h].status = "paid"
  BY <1>1 DEF IInv, Threads, TypeOK, Progress
<1>3. s \in Subscriptions /\ (subs[s] = None \/ subs[s] = o)
  BY <1>2 DEF Grants, Progress, Jobs
<1>4. /\ subs'[s] = o
      /\ \A t \in Subscriptions : t # s => subs'[t] = subs[t]
  BY <1>1, <1>3 DEF IInv, TypeOK
<1>5. job'[h] = [job[h] EXCEPT !.sub = s] /\ pc'[h] = p
  BY <1>1 DEF IInv, TypeOK
<1>6. /\ job'[h] \in Jobs /\ job'[h].order = o /\ job'[h].event = job[h].event
      /\ job'[h].status = "paid" /\ job'[h].sub = s
  BY <1>2, <1>3, <1>5 DEF Jobs
<1>7. \A k \in Handlers : k # h => pc'[k] = pc[k] /\ job'[k] = job[k]
  BY <1>1 DEF IInv, TypeOK
<1>8. TypeOK'
  <2>1. subs' \in [Subscriptions -> Orders \cup {None}]
    BY <1>1, <1>2 DEF IInv, TypeOK, Jobs
  <2>2. job' \in [Handlers -> Jobs \cup {NoJob}] BY <1>1, <1>6, <1>5 DEF IInv, TypeOK
  <2>3. pc' \in [Handlers -> {"idle", "create", "record", "fulfill", "grant", "members",
                              "join", "save", "mark"}]
    BY <1>1 DEF IInv, TypeOK
  <2>4. \A k \in Handlers :
            /\ pc'[k] # "idle" => job'[k] \in Jobs
            /\ pc'[k] \in {"record", "mark"} => job'[k].event # None
            /\ pc'[k] \in {"members", "join"} => GroupOf[job'[k].order] # None
    BY <1>1, <1>5, <1>6, <1>7 DEF IInv, TypeOK
  <2> QED BY <1>1, <2>1, <2>2, <2>3, <2>4 DEF IInv, TypeOK
<1>9. \A t \in Subscriptions : subs[t] # None => subs'[t] = subs[t] BY <1>3, <1>4
<1>10. \A q \in Orders : Created(q) => Created(q)' BY <1>1, <1>5, <1>7 DEF Created
<1>11. \A e \in Events : Happened(e) => Happened(e)'
  BY <1>1, <1>9 DEF Happened
<1>12. Stable BY <1>9, <1>10, <1>11 DEF Stable
<1>13. PaidHasSubscription' /\ Linked'
  BY <1>1, <1>9 DEF IInv, TypeOK, PaidHasSubscription, Linked
<1>14. Progress(h)' BY <1>1, <1>3, <1>4, <1>5, <1>6 DEF Progress
<1>15. Answering(h)' BY <1>1, <1>2, <1>5, <1>6, <1>10 DEF Answering, Jobs
<1> QED BY <1>1, <1>7, <1>8, <1>12, <1>13, <1>14, <1>15, Rest

\* The order is stored as the thread read it: a thread that stores a paid order has
\* its subscription, and one that answers an event stores what the event reports.
LEMMA SaveInv == ASSUME IInv, NEW h \in Handlers, Save(h) PROVE IInv'
<1> USE PaymentAssumption
<1> DEFINE o   == job[h].order
           new == [status |-> job[h].status, sub |-> job[h].sub]
<1>1. /\ pc[h] = "save" /\ order' = [order EXCEPT ![o] = new]
      /\ UNCHANGED <<event, subs, groups, crashes>>
  BY DEF Save
<1>2. Progress(h) /\ Answering(h) /\ job[h] \in Jobs BY <1>1 DEF IInv, Threads, TypeOK
<1>3. /\ job[h].status \in {"paid", "failed", "cancelled"}
      /\ job[h].status = "paid" => job[h].sub # None
      /\ job[h].sub # None => subs[job[h].sub] = o
      /\ o \in Orders
  BY <1>1, <1>2 DEF Progress, Jobs
<1>4. order'[o] = new /\ \A q \in Orders : q # o => order'[q] = order[q]
  BY <1>1, <1>3 DEF IInv, TypeOK
<1>5. PICK p \in {"idle", "mark"} : pc' = [pc EXCEPT ![h] = p]
  BY DEF Save, Finish, Goto
<1>6. \A k \in Handlers : k # h => pc'[k] = pc[k] /\ job'[k] = job[k]
  BY <1>5 DEF IInv, TypeOK, Save, Finish
<1>7. p = "mark" => job[h].event # None /\ job'[h] = job[h] /\ members' = members
  BY <1>5 DEF IInv, TypeOK, Save, Finish, Goto
<1>8. TypeOK'
  <2>1. order' \in [Orders -> [status : Statuses, sub : Subscriptions \cup {None}]]
    BY <1>1, <1>2 DEF IInv, TypeOK, Jobs
  <2>2. /\ job' \in [Handlers -> Jobs \cup {NoJob}]
        /\ members' \in [Handlers -> SUBSET Groups]
    <3>1. CASE job' = job /\ members' = members BY <3>1 DEF IInv, TypeOK
    <3>2. CASE Finish(h) BY <3>2 DEF IInv, TypeOK, Finish
    <3> QED BY <3>1, <3>2 DEF Save
  <2>3. \A k \in Handlers :
            /\ pc'[k] # "idle" => job'[k] \in Jobs
            /\ pc'[k] \in {"record", "mark"} => job'[k].event # None
            /\ pc'[k] \in {"members", "join"} => GroupOf[job'[k].order] # None
    BY <1>2, <1>5, <1>6, <1>7 DEF IInv, TypeOK
  <2> QED BY <1>1, <1>5, <2>1, <2>2, <2>3 DEF IInv, TypeOK
<1>9. PaidHasSubscription' /\ Linked'
  BY <1>1, <1>3, <1>4 DEF IInv, TypeOK, PaidHasSubscription, Linked
<1>10. \A q \in Orders : Created(q) => Created(q)'
  <2> SUFFICES ASSUME NEW q \in Orders, Created(q) PROVE Created(q)' OBVIOUS
  <2>1. order'[q].status # "absent"
    <3>1. CASE q = o BY <1>3, <1>4, <3>1
    <3>2. CASE q # o BY <1>4, <3>2 DEF Created
    <3> QED BY <3>1, <3>2
  <2>2. pc'[h] # "create" BY <1>5 DEF IInv, TypeOK
  <2> QED BY <1>6, <2>1, <2>2 DEF Created
<1>11. \A e \in Events : Happened(e) => Happened(e)'
  <2> SUFFICES ASSUME NEW e \in Events, Happened(e) PROVE Happened(e)' OBVIOUS
  <2>1. order'[OrderOf[e]].status # "pending"
    <3>1. CASE OrderOf[e] = o BY <1>3, <1>4, <3>1
    <3>2. CASE OrderOf[e] # o BY <1>4, <3>2 DEF Happened
    <3> QED BY <3>1, <3>2
  <2> QED BY <1>1, <2>1 DEF Happened
<1>12. Stable BY <1>1, <1>10, <1>11 DEF Stable
<1>13. ASSUME pc'[h] # "idle" PROVE Progress(h)' /\ Answering(h)'
  <2>1. p = "mark" /\ pc'[h] = "mark" BY <1>5, <1>13 DEF IInv, TypeOK
  <2>2. job[h].event \in Events /\ job'[h] = job[h] BY <1>2, <1>7, <2>1 DEF Jobs
  <2>3. o = OrderOf[job[h].event] /\ job[h].status = StatusOf[job[h].event]
        /\ Created(OrderOf[job[h].event])
    BY <1>2, <2>2 DEF Answering
  <2>4. Progress(h)' BY <1>1, <1>2, <2>1, <2>2 DEF Progress
  <2>5. Happened(job[h].event)'
    <3>1. job[h].status = "paid" => job[h].sub \in Subscriptions /\ subs'[job[h].sub] = o
      BY <1>1, <1>2, <1>3 DEF Jobs
    <3>2. order'[OrderOf[job[h].event]].status # "pending" BY <1>3, <1>4, <2>3
    <3>3. StatusOf[job[h].event] = "paid" =>
              \E s \in Subscriptions : subs'[s] = OrderOf[job[h].event]
      BY <2>3, <3>1
    <3> QED BY <2>2, <3>2, <3>3 DEF Happened
  <2>6. Answering(h)' BY <1>10, <2>2, <2>3, <2>5 DEF Answering
  <2> QED BY <2>4, <2>6
<1> QED BY <1>1, <1>6, <1>8, <1>9, <1>12, <1>13, Rest

\* The second store of a new order meets no created order.
LEMMA AddProviderInv == ASSUME IInv, NEW h \in Handlers, AddProvider(h) PROVE IInv'
<1> USE PaymentAssumption
<1> DEFINE o == job[h].order
<1>1. /\ pc[h] = "create" /\ Finish(h)
      /\ order' = [order EXCEPT ![o] = [status |-> "pending", sub |-> None]]
      /\ UNCHANGED <<event, subs, groups, crashes>>
  BY DEF AddProvider
<1>2. job[h] \in Jobs /\ o \in Orders BY <1>1 DEF IInv, TypeOK, Jobs
<1>3. pc'[h] = "idle" /\ \A k \in Handlers : k # h => pc'[k] = pc[k] /\ job'[k] = job[k]
  BY <1>1 DEF IInv, TypeOK, Finish, Goto
<1>4. TypeOK' BY <1>1, <1>2 DEF IInv, TypeOK, Statuses, Finish, Goto
<1>5. PaidHasSubscription' /\ Linked'
  BY <1>1, <1>2 DEF IInv, TypeOK, PaidHasSubscription, Linked
<1>6. ASSUME NEW q \in Orders, Created(q) PROVE Created(q)' /\ order'[q] = order[q]
  <2>1. q # o BY <1>1, <1>6 DEF Created
  <2>2. order'[q] = order[q] BY <1>1, <2>1 DEF IInv, TypeOK
  <2> QED BY <1>3, <1>6, <2>2 DEF Created
<1>7. Stable BY <1>1, <1>6 DEF Stable, Happened
<1>8. \A e \in Events : event'[e] = "processed" => event[e] = "processed" BY <1>1
<1> QED BY <1>3, <1>4, <1>5, <1>7, <1>8, Rest

\* After a crash no thread has a job, and what is stored is what it was.
LEMMA CrashInv == IInv /\ Crash => IInv'
<1> SUFFICES ASSUME IInv, Crash PROVE IInv' OBVIOUS
<1> USE PaymentAssumption
<1>1. TypeOK' BY DEF IInv, TypeOK, Crash, stored
<1>2. PaidHasSubscription' /\ Linked' /\ Threads'
  BY DEF IInv, PaidHasSubscription, Linked, Threads, Crash, stored
<1>3. Processed'
  BY DEF IInv, Processed, Created, Happened, Crash, stored
<1> QED BY <1>1, <1>2, <1>3 DEF IInv

-----------------------------------------------------------------------------
\* The inductive invariant of payment orders.
THEOREM PaymentInvariant == Spec => []IInv
<1>1. ASSUME IInv, UNCHANGED vars PROVE IInv'
  BY <1>1 DEF vars, stored, IInv, TypeOK, PaidHasSubscription, Linked, Threads, Processed,
              Progress, Answering, Created, Happened
<1>2. ASSUME IInv, NEW h \in Handlers,
             Ask(h) \/ Work(h) \/ RefuseChannel(h) \/ Refuse(h)
      PROVE  IInv'
  BY <1>2, AskInv, RecordInv, FulfillInv, GrantInv, ReadMembersInv, JoinInv, SaveInv,
     MarkInv, AddProviderInv, EndInv DEF Work, RefuseChannel, Refuse
<1>3. IInv /\ [Next]_vars => IInv' BY <1>1, <1>2, CrashInv DEF Next
<1> QED BY <1>3, InitInv, PTL DEF Spec

\* Orders, events, subscriptions, memberships and threads stay well typed.
THEOREM TypeCorrect == Spec => []TypeOK
BY PaymentInvariant, PTL DEF IInv

\* A paid order has its subscription, whatever overlaps and wherever the process dies.
THEOREM PaidSubscribed == Spec => []PaidHasSubscription
BY PaymentInvariant, PTL DEF IInv

\* A processed event has happened, so ignoring it from then on loses nothing.
THEOREM ProcessedAreDelivered == Spec => []ProcessedDelivered
<1>1. IInv => ProcessedDelivered
  BY PaymentAssumption DEF IInv, Processed, Created, Happened, ProcessedDelivered
<1> QED BY <1>1, PaymentInvariant, PTL
-----------------------------------------------------------------------------
\* A thread stores the memberships as it read them, with the plan's group.  What
\* keeps the groups of the account's other orders is either that no other thread
\* can have stored one in between, or that there is no other group.
OneThread == \A h, k \in Handlers : h = k
OneGroup ==
    \A o, p \in Orders : /\ AccountOf[o] = AccountOf[p]
                         /\ GroupOf[o] # None /\ GroupOf[p] # None
                         => GroupOf[o] = GroupOf[p]

Joined(o) == GroupOf[o] # None => GroupOf[o] \in groups[AccountOf[o]]

\* A thread that joins has all the memberships there are; one that stores a paid
\* order has joined.
Joining(h) ==
    LET o == job[h].order
    IN  /\ pc[h] = "join" => OneGroup \/ groups[AccountOf[o]] \subseteq members[h]
        /\ pc[h] = "save" /\ job[h].status = "paid" => Joined(o)

GInv ==
    /\ \A o \in Orders : order[o].status = "paid" => Joined(o)
    /\ \A h \in Handlers : Joining(h)

\* A step of h that stores no membership: the other threads are not touched.
LEMMA GroupsStay ==
    ASSUME IInv, GInv, UNCHANGED groups, NEW h \in Handlers,
           \A k \in Handlers : k # h =>
               pc'[k] = pc[k] /\ job'[k] = job[k] /\ members'[k] = members[k],
           \A o \in Orders : order'[o].status = "paid" => order[o].status = "paid" \/ Joined(o),
           Joining(h)'
    PROVE  GInv'
<1>1. \A o \in Orders : Joined(o)' = Joined(o) BY DEF Joined
<1>2. \A o \in Orders : order'[o].status = "paid" => Joined(o)' BY <1>1 DEF GInv
<1>3. ASSUME NEW k \in Handlers, k # h PROVE Joining(k)'
  <2>1. Joining(k) /\ pc'[k] = pc[k] /\ job'[k] = job[k] /\ members'[k] = members[k]
    BY <1>3 DEF GInv
  <2> QED BY <2>1 DEF Joining, Joined
<1> QED BY <1>2, <1>3 DEF GInv

\* ... and one that, besides, leaves h where it neither joins nor stores a paid order.
LEMMA GroupsIdle ==
    ASSUME IInv, GInv, UNCHANGED groups, NEW h \in Handlers,
           \A k \in Handlers : k # h =>
               pc'[k] = pc[k] /\ job'[k] = job[k] /\ members'[k] = members[k],
           \A o \in Orders : order'[o].status = "paid" => order[o].status = "paid" \/ Joined(o),
           pc'[h] # "join", pc'[h] = "save" => job'[h].status # "paid"
    PROVE  GInv'
<1>1. Joining(h)' BY DEF Joining
<1> QED BY <1>1, GroupsStay

LEMMA AskGroups == ASSUME IInv, GInv, NEW h \in Handlers, Ask(h) PROVE GInv'
<1>0. UNCHANGED <<members, groups>>
  BY DEF Ask, Create, SetPaid, SetStatus, Deliver, stored
<1>1. \A k \in Handlers : k # h => pc'[k] = pc[k] /\ job'[k] = job[k]
  BY DEF Ask, Create, SetPaid, SetStatus, Deliver, Start, Goto, IInv, TypeOK
<1>2. /\ pc'[h] \in {"create", "fulfill", "save", "record"}
      /\ pc'[h] = "save" => job'[h].status # "paid"
  BY DEF Ask, Create, SetPaid, SetStatus, Deliver, Start, Goto, IInv, TypeOK
<1>3. \A o \in Orders : order'[o].status = "paid" => order[o].status = "paid"
  BY DEF Ask, Create, SetPaid, SetStatus, Deliver, stored, IInv, TypeOK
<1> QED BY <1>0, <1>1, <1>2, <1>3, GroupsIdle

\* A join drops no group of an order, its own apart from the others.
LEMMA JoinKeeps ==
    ASSUME IInv, GInv, NEW h \in Handlers, Join(h), NEW o \in Orders,
           Joined(o) \/ o = job[h].order
    PROVE  Joined(o)'
<1> USE PaymentAssumption
<1> DEFINE own == job[h].order
<1>1. pc[h] = "join" /\ own \in Orders /\ GroupOf[own] # None
  BY DEF Join, IInv, TypeOK, Jobs
<1>2. groups' = [groups EXCEPT ![AccountOf[own]] = members[h] \cup {GroupOf[own]}]
  BY DEF Join
<1>3. OneGroup \/ groups[AccountOf[own]] \subseteq members[h] BY <1>1 DEF GInv, Joining
<1>4. CASE AccountOf[o] = AccountOf[own]
  <2>1. groups'[AccountOf[o]] = members[h] \cup {GroupOf[own]}
    BY <1>1, <1>2, <1>4 DEF IInv, TypeOK
  <2>2. GroupOf[o] # None => GroupOf[o] \in members[h] \cup {GroupOf[own]}
    BY <1>1, <1>3, <1>4 DEF OneGroup, Joined
  <2> QED BY <2>1, <2>2 DEF Joined
<1>5. CASE AccountOf[o] # AccountOf[own]
  <2>1. groups'[AccountOf[o]] = groups[AccountOf[o]] BY <1>1, <1>2, <1>5 DEF IInv, TypeOK
  <2> QED BY <1>5, <2>1 DEF Joined
<1> QED BY <1>4, <1>5

LEMMA JoinGroups ==
    ASSUME OneThread \/ OneGroup, IInv, GInv, NEW h \in Handlers, Join(h) PROVE GInv'
<1> USE PaymentAssumption
<1>1. /\ pc[h] = "join" /\ job[h] \in Jobs /\ pc' = [pc EXCEPT ![h] = "save"]
      /\ UNCHANGED <<order, job, members>>
  BY DEF Join, Goto, IInv, TypeOK
<1>2. \A o \in Orders : order'[o].status = "paid" => Joined(o)' BY <1>1, JoinKeeps DEF GInv
<1>3. Joining(h)' BY <1>1, JoinKeeps DEF Joining, IInv, TypeOK, Jobs
<1>4. ASSUME NEW k \in Handlers, k # h PROVE Joining(k)'
  <2>1. pc'[k] = pc[k] /\ Joining(k) BY <1>1, <1>4 DEF IInv, TypeOK, GInv
  <2>2. pc[k] = "save" => job[k].order \in Orders BY DEF IInv, TypeOK, Jobs
  <2>3. OneGroup BY <1>4 DEF OneThread
  <2> QED BY <1>1, <2>1, <2>2, <2>3, JoinKeeps DEF Joining
<1> QED BY <1>2, <1>3, <1>4 DEF GInv

LEMMA WorkGroups ==
    ASSUME OneThread \/ OneGroup, IInv, GInv, NEW h \in Handlers,
           Work(h) \/ RefuseChannel(h) \/ Refuse(h)
    PROVE  GInv'
<1> USE PaymentAssumption
<1>0. \A k \in Handlers : k # h =>
          pc'[k] = pc[k] /\ job'[k] = job[k] /\ members'[k] = members[k]
  BY DEF Work, RefuseChannel, Refuse, AddProvider, Record, Fulfill, Grant, ReadMembers, Join,
         Save, Mark, Finish, Goto, IInv, TypeOK
<1>1. CASE AddProvider(h)
  <2>1. \A o \in Orders : order'[o].status = "paid" => order[o].status = "paid"
    BY <1>1 DEF AddProvider, IInv, TypeOK
  <2>2. UNCHANGED groups /\ pc'[h] = "idle" BY <1>1 DEF AddProvider, Finish, Goto, IInv, TypeOK
  <2> QED BY <1>0, <2>1, <2>2, GroupsIdle
<1>2. CASE Record(h)
  <2>1. UNCHANGED <<groups, order>> /\ pc'[h] = "fulfill"
    BY <1>2 DEF Record, Goto, IInv, TypeOK
  <2> QED BY <1>0, <2>1, GroupsIdle
<1>3. CASE Fulfill(h)
  <2>1. UNCHANGED <<order, groups>> BY <1>3 DEF Fulfill, stored
  <2>2. job[h] \in Jobs BY <1>3 DEF Fulfill, IInv, TypeOK
  <2>3. /\ pc'[h] \in {"idle", "mark", "grant", "save"}
        /\ pc'[h] = "save" => job'[h].status # "paid"
    BY <1>3, <2>2 DEF Fulfill, Finish, Goto, IInv, TypeOK, Jobs
  <2> QED BY <1>0, <2>1, <2>3, GroupsIdle
<1>4. CASE Grant(h)
  <2>1. PICK s \in Grants(h) : job' = [job EXCEPT ![h].sub = s] BY <1>4 DEF Grant
  <2>2. job[h] \in Jobs /\ UNCHANGED <<order, groups, members>>
    BY <1>4 DEF Grant, IInv, TypeOK
  <2>3. /\ job'[h].order = job[h].order
        /\ pc'[h] = IF GroupOf[job[h].order] = None THEN "save" ELSE "members"
    BY <1>4, <2>1, <2>2 DEF Grant, Goto, IInv, TypeOK, Jobs
  <2>4. Joining(h)' BY <2>3 DEF Joining, Joined
  <2> QED BY <1>0, <2>2, <2>4, GroupsStay
<1>5. CASE ReadMembers(h)
  <2>1. /\ pc'[h] = "join" /\ members'[h] = groups[AccountOf[job[h].order]]
        /\ UNCHANGED <<order, groups, job>>
    BY <1>5 DEF ReadMembers, Goto, IInv, TypeOK, stored
  <2>2. Joining(h)' BY <2>1 DEF Joining
  <2> QED BY <1>0, <2>1, <2>2, GroupsStay
<1>6. CASE Join(h) BY <1>6, JoinGroups
<1>7. CASE Save(h)
  <2> DEFINE o == job[h].order
  <2>1. /\ pc[h] = "save" /\ UNCHANGED groups /\ o \in Orders
        /\ order' = [order EXCEPT ![o] = [status |-> job[h].status, sub |-> job[h].sub]]
    BY <1>7 DEF Save, IInv, TypeOK, Jobs
  <2>2. order'[o].status = "paid" => Joined(o) BY <2>1 DEF GInv, Joining, IInv, TypeOK
  <2>3. \A q \in Orders : order'[q].status = "paid" => order[q].status = "paid" \/ Joined(q)
    BY <2>1, <2>2 DEF IInv, TypeOK
  <2>4. pc'[h] \in {"idle", "mark"} BY <1>7 DEF Save, Finish, Goto, IInv, TypeOK
  <2> QED BY <1>0, <2>1, <2>3, <2>4, GroupsIdle
<1>8. CASE Mark(h) \/ RefuseChannel(h) \/ Refuse(h)
  <2>1. UNCHANGED <<groups, order>> /\ pc'[h] = "idle"
    BY <1>8 DEF Mark, RefuseChannel, Refuse, Finish, Goto, stored, IInv, TypeOK
  <2> QED BY <1>0, <2>1, GroupsIdle
<1> QED BY <1>1, <1>2, <1>3, <1>4, <1>5, <1>6, <1>7, <1>8 DEF Work

\* A paid order's account is a member of the plan's group, through any crashes: for a
\* single request thread, or, with any number of them, where the plans an account
\* orders share a group.  Without either a thread may store memberships that it read
\* before another one joined.
THEOREM PaidJoined == ASSUME OneThread \/ OneGroup PROVE Spec => []PaidHasGroup
<1>1. Init => GInv BY DEF Init, GInv, Joining
<1>2. IInv /\ GInv /\ [Next]_vars => GInv'
  <2> SUFFICES ASSUME IInv, GInv, [Next]_vars PROVE GInv' OBVIOUS
  <2>1. CASE Crash BY <2>1 DEF Crash, GInv, Joining, Joined, stored
  <2>2. CASE UNCHANGED vars BY <2>2 DEF vars, stored, GInv, Joining, Joined
  <2> QED BY <2>1, <2>2, AskGroups, WorkGroups DEF Next
<1>3. GInv => PaidHasGroup BY DEF GInv, Joined, PaidHasGroup
<1> QED BY <1>1, <1>2, <1>3, PaymentInvariant, PTL DEF Spec
=============================================================================
