---------------------------- MODULE AccountLedger ----------------------------
(***************************************************************************)
(* Balances, redeem codes and affiliate quotas of admin/account.py, with   *)
(* the other requests that store accounts (admin/users.py) and edit the    *)
(* content buckets (admin/content.py).  Each call of the storage takes its *)
(* lock and is one step; an account is stored as one row, and a bucket as  *)
(* one list, so a request may store what it read some steps ago.  Amounts  *)
(* are units; identity fields, groups and deletion are left out.  Names    *)
(* common to several modules have the prefix Ledger, so that StorageProofs *)
(* can extend this module and StorageBackends.                             *)
(***************************************************************************)
EXTENDS FiniteSets, Integers

CONSTANTS
    LedgerAccounts, Codes,
    TypeOf,         \* TypeOf[c]: "balance", "concurrency" or "subscription"
    Handlers,       \* request threads
    Balances,       \* balances an admin may set
    MaxRequests,    \* bound on requests
    MaxCrashes,     \* bound on crashes
    LedgerNone

ASSUME LedgerAssumption ==
    /\ TypeOf \in [Codes -> {"balance", "concurrency", "subscription"}]
    /\ Balances \subseteq Nat
    /\ LedgerNone \notin LedgerAccounts \cup Codes
    /\ MaxRequests \in Nat /\ MaxCrashes \in Nat

VARIABLES
    account,    \* stored rows: [balance, limit, enabled, aff]
    posted,     \* the sum of each account's balance events
    paid,       \* the part of it that is affiliate transfers
    code,       \* bucket redeem-codes: "active" or "used"
    rebates,    \* bucket affiliate-rebates: the sum of each account's
    transfers,  \* bucket affiliate-transfers: the sum of each account's
    granted,    \* how often each code was granted
    issued,     \* how often each code was made active
    pc, job,    \* per request thread: where it is, and what it knows
    requests, crashes,
    overlapped  \* history: a request began while another was not done

stored     == <<account, posted, paid, code, rebates, transfers>>
counts     == <<granted, issued, requests, crashes, overlapped>>
ledgerVars == <<stored, counts, pc, job>>

NewRow == [balance |-> 0, limit |-> 1, enabled |-> TRUE, aff |-> FALSE]
Zero   == [a \in LedgerAccounts |-> 0]

\* row, codes and sums are the thread's copies of a row and of buckets
NoJob == [op |-> "none", account |-> LedgerNone, code |-> LedgerNone, amount |-> 0, row |-> NewRow,
          codes |-> [c \in Codes |-> "active"], sums |-> Zero]

LedgerInit ==
    /\ account = [a \in LedgerAccounts |-> NewRow]
    /\ posted = Zero /\ paid = Zero /\ rebates = Zero /\ transfers = Zero
    /\ code = [c \in Codes |-> "active"]
    /\ granted = [c \in Codes |-> 0] /\ issued = [c \in Codes |-> 1]
    /\ pc = [h \in Handlers |-> "idle"] /\ job = [h \in Handlers |-> NoJob]
    /\ requests = 0 /\ crashes = 0 /\ overlapped = FALSE

Goto(h, p)  == pc' = [pc EXCEPT ![h] = p]
Learn(h, j) == job' = [job EXCEPT ![h] = j]

Arrive(h) ==
    /\ pc[h] = "idle" /\ requests < MaxRequests /\ requests' = requests + 1
    /\ overlapped' = (overlapped \/ \E g \in Handlers : pc[g] # "idle")

Begin(h, p, j) ==
    /\ Arrive(h)
    /\ Goto(h, p) /\ Learn(h, j)
    /\ UNCHANGED <<stored, granted, issued, crashes>>

Finish(h) == Goto(h, "idle") /\ Learn(h, NoJob)

\* adjust_admin_account_balance: reads and stores the row under one lock.
BalanceAdjusted(a, amount) ==
    /\ account[a].balance + amount >= 0
    /\ account' = [account EXCEPT ![a].balance = @ + amount]
    /\ posted' = [posted EXCEPT ![a] = @ + amount]

-----------------------------------------------------------------------------
(* update_user, set_user_enabled, adjust_user_balance                       *)

\* op "profile" keeps the row, "balance" sets its balance to amount.
Update(h, a, op, amount) ==
    Begin(h, "write", [NoJob EXCEPT !.op = op, !.account = a, !.amount = amount,
                                    !.row = account[a]])

\* Faulty variant: a changed account is always enabled.
ChangedEnabled(j) ==
    CASE j.op = "balance" -> [j.row EXCEPT !.balance = j.amount, !.enabled = TRUE]
      [] j.op = "disable" -> [j.row EXCEPT !.enabled = FALSE]
      [] OTHER            -> [j.row EXCEPT !.enabled = TRUE]

Changed(j) ==
    CASE j.op = "balance" -> [j.row EXCEPT !.balance = j.amount]
      [] j.op = "enable"  -> [j.row EXCEPT !.enabled = TRUE]
      [] j.op = "disable" -> [j.row EXCEPT !.enabled = FALSE]
      [] OTHER            -> j.row

Write(h) ==
    /\ pc[h] = "write" /\ Finish(h)
    /\ account' = [account EXCEPT ![job[h].account] = Changed(job[h])]
    /\ UNCHANGED <<posted, paid, code, rebates, transfers, counts>>

AdjustBalance(h, a, amount) ==
    /\ Arrive(h)
    /\ BalanceAdjusted(a, amount)
    /\ UNCHANGED <<paid, code, rebates, transfers, granted, issued, crashes, pc, job>>

-----------------------------------------------------------------------------
(* redeem_account_code                                                      *)

Redeem(h, a, c) ==
    /\ account[a].enabled
    /\ Begin(h, "codes", [NoJob EXCEPT !.op = "redeem", !.account = a, !.code = c,
                                       !.row = account[a]])

\* Faulty variant: a used code is good.
LoadAnyCode(h) ==
    /\ pc[h] = "codes" /\ Goto(h, "grant") /\ Learn(h, [job[h] EXCEPT !.codes = code])
    /\ UNCHANGED <<stored, counts>>

LoadCodes(h) ==
    /\ pc[h] = "codes"
    /\ IF code[job[h].code] = "active"
       THEN Goto(h, "grant") /\ Learn(h, [job[h] EXCEPT !.codes = code])
       ELSE Finish(h)
    /\ UNCHANGED <<stored, counts>>

\* A concurrency code stores the whole row as it was read.
Granted(h) ==
    LET a == job[h].account
    IN  CASE TypeOf[job[h].code] = "balance" -> BalanceAdjusted(a, 1)
          [] TypeOf[job[h].code] = "concurrency" ->
                 /\ account' = [account EXCEPT ![a] = [job[h].row EXCEPT !.limit = @ + 1]]
                 /\ UNCHANGED posted
          [] OTHER -> account[a].enabled /\ UNCHANGED <<account, posted>>

Grant(h) ==
    /\ pc[h] = "grant" /\ Granted(h) /\ Goto(h, "use")
    /\ granted' = [granted EXCEPT ![job[h].code] = @ + 1]
    /\ UNCHANGED <<paid, code, rebates, transfers, issued, requests, crashes, overlapped, job>>

\* assign_subscription reads the account again.
RefuseGrant(h) ==
    /\ pc[h] = "grant" /\ TypeOf[job[h].code] = "subscription"
    /\ ~account[job[h].account].enabled
    /\ Finish(h) /\ UNCHANGED <<stored, counts>>

Use(h) ==
    /\ pc[h] = "use" /\ Finish(h)
    /\ code' = [job[h].codes EXCEPT ![job[h].code] = "used"]
    /\ UNCHANGED <<account, posted, paid, rebates, transfers, counts>>

-----------------------------------------------------------------------------
(* account_affiliate_detail, transfer_account_affiliate_quota               *)

Affiliate(h, a, op) ==
    /\ op = "detail" => ~account[a].aff
    /\ Begin(h, IF account[a].aff THEN "rebates" ELSE "aff",
             [NoJob EXCEPT !.op = op, !.account = a, !.row = account[a]])

\* _ensure_affiliate_code stores the row it was given, with a code.
AddAffiliateCode(h) ==
    /\ pc[h] = "aff"
    /\ account' = [account EXCEPT ![job[h].account] = [job[h].row EXCEPT !.aff = TRUE]]
    /\ IF job[h].op = "detail" THEN Finish(h) ELSE Goto(h, "rebates") /\ UNCHANGED job
    /\ UNCHANGED <<posted, paid, code, rebates, transfers, counts>>

ReadRebates(h) ==
    /\ pc[h] = "rebates" /\ Goto(h, "transfers")
    /\ Learn(h, [job[h] EXCEPT !.amount = rebates[job[h].account]])
    /\ UNCHANGED <<stored, counts>>

ReadTransfers(h) ==
    LET available == job[h].amount - transfers[job[h].account]
    IN  /\ pc[h] = "transfers"
        /\ IF available > 0
           THEN Goto(h, "pay") /\ Learn(h, [job[h] EXCEPT !.amount = available])
           ELSE Finish(h)
        /\ UNCHANGED <<stored, counts>>

Pay(h) ==
    /\ pc[h] = "pay" /\ Goto(h, "load")
    /\ BalanceAdjusted(job[h].account, job[h].amount)
    /\ paid' = [paid EXCEPT ![job[h].account] = @ + job[h].amount]
    /\ UNCHANGED <<code, rebates, transfers, counts, job>>

LoadTransfers(h) ==
    /\ pc[h] = "load" /\ Goto(h, "record")
    /\ Learn(h, [job[h] EXCEPT !.sums = transfers])
    /\ UNCHANGED <<stored, counts>>

\* Faulty variant: the quota itself is recorded, not what was left of it.
RecordTotal(h) ==
    /\ pc[h] = "record" /\ Finish(h)
    /\ transfers' = [job[h].sums EXCEPT ![job[h].account] = @ + rebates[job[h].account]]
    /\ UNCHANGED <<account, posted, paid, code, rebates, counts>>

RecordTransfer(h) ==
    /\ pc[h] = "record" /\ Finish(h)
    /\ transfers' = [job[h].sums EXCEPT ![job[h].account] = @ + job[h].amount]
    /\ UNCHANGED <<account, posted, paid, code, rebates, counts>>

-----------------------------------------------------------------------------
(* upsert_content_bucket_item: a code is made active, a rebate is added     *)

EditCodes(h, c) == Begin(h, "issue", [NoJob EXCEPT !.op = "issue", !.code = c, !.codes = code])

SaveCodes(h) ==
    /\ pc[h] = "issue" /\ Finish(h)
    /\ code' = [job[h].codes EXCEPT ![job[h].code] = "active"]
    /\ issued' = [issued EXCEPT ![job[h].code] = @ + 1]
    /\ UNCHANGED <<account, posted, paid, rebates, transfers>>
    /\ UNCHANGED <<granted, requests, crashes, overlapped>>

EditRebates(h, a) ==
    Begin(h, "rebate", [NoJob EXCEPT !.op = "rebate", !.account = a, !.sums = rebates])

SaveRebates(h) ==
    /\ pc[h] = "rebate" /\ Finish(h)
    /\ rebates' = [job[h].sums EXCEPT ![job[h].account] = @ + 1]
    /\ UNCHANGED <<account, posted, paid, code, transfers, counts>>

\* The process is killed and started again: what is stored remains.
Crash ==
    /\ crashes < MaxCrashes /\ crashes' = crashes + 1
    /\ pc' = [h \in Handlers |-> "idle"] /\ job' = [h \in Handlers |-> NoJob]
    /\ UNCHANGED <<stored, granted, issued, requests, overlapped>>

Ask(h) ==
    \/ \E a \in LedgerAccounts :
           \/ \E op \in {"profile", "enable", "disable"} : Update(h, a, op, 0)
           \/ \E amount \in Balances : Update(h, a, "balance", amount)
           \/ \E amount \in {-1, 1} : AdjustBalance(h, a, amount)
           \/ \E op \in {"detail", "transfer"} : Affiliate(h, a, op)
           \/ EditRebates(h, a)
           \/ \E c \in Codes : Redeem(h, a, c)
    \/ \E c \in Codes : EditCodes(h, c)

Work(h) ==
    \/ Write(h) \/ LoadCodes(h) \/ Grant(h) \/ RefuseGrant(h) \/ Use(h)
    \/ AddAffiliateCode(h) \/ ReadRebates(h) \/ ReadTransfers(h) \/ Pay(h)
    \/ LoadTransfers(h) \/ RecordTransfer(h) \/ SaveCodes(h) \/ SaveRebates(h)

LedgerNext == Crash \/ \E h \in Handlers : Ask(h) \/ Work(h)

LedgerSpec == LedgerInit /\ [][LedgerNext]_ledgerVars

-----------------------------------------------------------------------------
Rows    == [balance : Nat, limit : Nat, enabled : BOOLEAN, aff : BOOLEAN]
Buckets == [Codes -> {"active", "used"}]
Sums    == [LedgerAccounts -> Nat]
Ops     == {"none", "profile", "balance", "enable", "disable", "redeem", "detail",
            "transfer", "issue", "rebate"}
Jobs    == [op : Ops, account : LedgerAccounts \cup {LedgerNone}, code : Codes \cup {LedgerNone},
            amount : Nat, row : Rows, codes : Buckets, sums : Sums]

\* No balance is ever negative: it is in Nat.
LedgerTypeOK ==
    /\ account \in [LedgerAccounts -> Rows]
    /\ posted \in [LedgerAccounts -> Int] /\ paid \in Sums
    /\ code \in Buckets /\ rebates \in Sums /\ transfers \in Sums
    /\ granted \in [Codes -> Nat] /\ issued \in [Codes -> Nat]
    /\ pc \in [Handlers -> {"idle", "write", "codes", "grant", "use", "aff", "rebates",
                            "transfers", "pay", "load", "record", "issue", "rebate"}]
    /\ job \in [Handlers -> Jobs]
    /\ \A h \in Handlers : pc[h] \in {"codes", "grant", "use", "issue"} => job[h].code \in Codes
    /\ \A h \in Handlers : pc[h] \notin {"idle", "issue"} => job[h].account \in LedgerAccounts
    /\ requests \in 0..MaxRequests /\ crashes \in 0..MaxCrashes /\ overlapped \in BOOLEAN

\* A code is used only if somebody was granted what it is worth.
UsedWasGranted == \A c \in Codes : code[c] = "used" => granted[c] > 0

\* A recorded transfer was paid out: the quota it takes is not lost.
RecordedWasPaid == \A a \in LedgerAccounts : transfers[a] <= paid[a]

GrantedOnce       == \A c \in Codes : granted[c] <= issued[c]
PaidWithinRebates == \A a \in LedgerAccounts : paid[a] <= rebates[a]

\* As long as requests do not overlap and the process is not killed, a code is granted
\* no more often than it was made active, and no account is paid more than its rebates.
OnceInTurn == ~overlapped /\ crashes = 0 => GrantedOnce /\ PaidWithinRebates

\* As long as requests do not overlap, whatever crashes: a row changes only in what the
\* request is about, balances by balance events or when an admin sets one; no request
\* undoes what another stored.
NothingLost ==
    [][~overlapped =>
        \A a \in LedgerAccounts :
           LET By(ops) == \E h \in Handlers : job[h].account = a /\ job[h].op \in ops
               old     == account[a]
               new     == account'[a]
           IN  /\ new.balance - old.balance # posted'[a] - posted[a] => By({"balance"})
               /\ new.limit # old.limit => By({"redeem"})
               /\ new.enabled # old.enabled => By({"enable", "disable"})
               /\ old.aff => new.aff]_ledgerVars
=============================================================================
