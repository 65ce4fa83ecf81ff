------------------------------- MODULE Ledger -------------------------------
(***************************************************************************)
(* The accounts of a household and their transactions under concurrent     *)
(* requests (src/app/domain/transaction, src/app/domain/account).  A       *)
(* request is a database session under READ COMMITTED, as in Portfolio:    *)
(* it loads and validates, its flush writes the changed columns under row  *)
(* locks, and get_db's commit makes them visible.  No foreign key or lock  *)
(* ties a transaction to its accounts; deleting an account is a sequence   *)
(* of UPDATEs over the rows that refer to it.                              *)
(*                                                                         *)
(* EXPENSE stands for FIXED_EXPENSE too, and an account is CASH or ASSET   *)
(* (the four MANUAL_ASSET_ACCOUNT_TYPES).                                  *)
(***************************************************************************)
EXTENDS AccountLedger, UnitOfWork

CONSTANTS
    Accounts, Workers,
    Assets,              \* the accounts that begin as an asset
    MaxTx,               \* bound on the transactions entered in a behaviour
    Amounts, Dates,
    Budget               \* bound on the requests of a behaviour

ASSUME MaxTxAssumption  == MaxTx \in Nat
ASSUME BudgetAssumption == Budget \in Nat
ASSUME AmountsAssumption ==    \* TransactionCreateRequest, TransactionUpdateRequest
    Amounts \subseteq Nat \ {0} /\ Dates \subseteq Nat
ASSUME RowsAssumption   == \A a \in Accounts : a \notin Nat

VARIABLES
    accts,   \* the committed accounts rows
    txs,     \* the committed transactions rows, by order of insertion
    pc,      \* where a request stands
    job,     \* what it does, with its own copies of the rows it loaded
    kill,    \* the transactions its UPDATEs soft-deleted
    lock,    \* row locks
    left,    \* how many more requests arrive
    late,    \* history: requests that were overtaken by another one's commit
    raced    \* history: rows that such a request wrote

vars == <<accts, txs, pc, job, kill, lock, left, late, raced>>

TxIds == 1..MaxTx
Rows  == TxIds \cup Accounts

Types      == {"INCOME", "EXPENSE", "TRANSFER", "VALUATION"}
Directions == {"INCREASE", "DECREASE"}
Kinds      == {"CASH", "ASSET"}
Status     == {"ACTIVE", "DELETED"}

AccountRows == [kind : Kinds, status : Status]
TxRows == [type : Types, amount : Amounts, date : Dates, from : Accounts,
           to : Accounts \cup {None}, dir : Directions \cup {None}, status : Status]
Copies == AccountRows \cup TxRows \cup {None}
Jobs   == [id : Rows, base : Copies, mine : Copies]
PC     == {"idle", "check", "solo", "shared", "flush", "commit"}

ASSUME NoneAssumption == None \notin Accounts \cup Workers \cup Nat \cup TxRows \cup AccountRows \cup Jobs

TypeOK ==
    /\ accts \in [Accounts -> AccountRows]
    /\ txs   \in [TxIds -> TxRows \cup {None}]
    /\ pc    \in [Workers -> PC]
    /\ job   \in [Workers -> Jobs \cup {None}]
    /\ kill  \in [Workers -> SUBSET TxIds]
    /\ lock  \in [Rows -> Workers \cup {None}]
    /\ left  \in Nat
    /\ late  \subseteq Workers
    /\ raced \subseteq Rows
    /\ \A w \in Workers : job[w] = None <=> pc[w] = "idle"

\* The accounts exist; create_account only adds further ones
Init ==
    /\ accts = [a \in Accounts |-> [kind   |-> IF a \in Assets THEN "ASSET" ELSE "CASH",
                                    status |-> "ACTIVE"]]
    /\ txs   = [t \in TxIds |-> None]
    /\ pc    = [w \in Workers |-> "idle"]
    /\ job   = [w \in Workers |-> None]
    /\ kill  = [w \in Workers |-> {}]
    /\ lock  = [r \in Rows |-> None]
    /\ left  = Budget
    /\ late  = {}
    /\ raced = {}

-----------------------------------------------------------------------------
(* What the services check *)

Live(row)   == row # None /\ row.status = "ACTIVE"
Active      == {t \in TxIds : Live(txs[t])}
Inserts(w)  == job[w] # None /\ job[w].base = None
UsedIds     == {t \in TxIds : txs[t] # None} \cup {job[w].id : w \in {v \in Workers : Inserts(v)}}
NextIds     == {t \in TxIds : (\A u \in UsedIds : u < t) /\ (t = 1 \/ t - 1 \in UsedIds)}

\* _validate_fk_belong_to_household: only an asset is revalued, and it neither earns
\* nor spends
Allowed(type, ends) ==
    \A a \in ends \ {None} :
        /\ Live(accts[a])
        /\ type = "VALUATION" => accts[a].kind = "ASSET"
        /\ type \in {"INCOME", "EXPENSE"} => accts[a].kind = "CASH"

\* _validate_transfer_consistency
Consistent(type, from, to) == type = "TRANSFER" => to # None /\ to # from

-----------------------------------------------------------------------------
(* Requests *)

Ready(w) == pc[w] = "idle" /\ left > 0

Start(w, id, base, mine, to) ==
    /\ left' = left - 1
    /\ pc'   = [pc EXCEPT ![w] = to]
    /\ job'  = [job EXCEPT ![w] = [id |-> id, base |-> base, mine |-> mine]]
    /\ UNCHANGED <<accts, txs, kill, lock, late, raced>>

\* create_transaction; a new row is nobody else's, its insert waits for nothing
Create(w, t, type, amount, date, from, to, dir) ==
    /\ Consistent(type, from, to)
    /\ type # "TRANSFER" => to = None
    /\ dir # None <=> type = "VALUATION"
    /\ Allowed(type, {from, to})
    /\ Start(w, t, None,
             [type |-> type, amount |-> amount, date |-> date, from |-> from, to |-> to,
              dir |-> dir, status |-> "ACTIVE"], "commit")

\* update_transaction loads the row
Load(w, t) == Live(txs[t]) /\ Start(w, t, txs[t], txs[t], "check")

\* Variant: the destination of what is no transfer any more stays
PatchedKeepingTo(base, type, amount, date, from, to, dir) ==
    [base EXCEPT !.type = type, !.amount = amount, !.date = date, !.from = from,
                 !.to = to, !.dir = dir]

\* _apply_partial_update and _normalize_to_account
Patched(base, type, amount, date, from, to, dir) ==
    [base EXCEPT !.type = type, !.amount = amount, !.date = date, !.from = from,
                 !.to = IF type = "TRANSFER" THEN to ELSE None, !.dir = dir]

\* A request names any of the fields; a field it leaves out keeps the loaded value.
\* The schema refuses two account fields that are equal
Patch(w) ==
    /\ pc[w] = "check"
    /\ \E type \in Types, amount \in Amounts, date \in Dates, from \in Accounts,
          to \in Accounts \cup {job[w].base.to}, dir \in Directions \cup {job[w].base.dir} :
          /\ from = to => from = job[w].base.from \/ to = job[w].base.to
          /\ Allowed(type, {from, to})
          /\ Consistent(type, from, to)
          /\ job' = [job EXCEPT ![w].mine =
                        Patched(job[w].base, type, amount, date, from, to, dir)]
    /\ pc' = [pc EXCEPT ![w] = "flush"]
    /\ UNCHANGED <<accts, txs, kill, lock, left, late, raced>>

\* delete_transaction
Erase(w, t) ==
    /\ Live(txs[t])
    /\ Start(w, t, txs[t], [txs[t] EXCEPT !.status = "DELETED"], "flush")

\* update_account
Retype(w, a, kind) ==
    /\ Live(accts[a])
    /\ Start(w, a, accts[a], [accts[a] EXCEPT !.kind = kind], "flush")

\* delete_account
Close(w, a) ==
    /\ Live(accts[a])
    /\ Start(w, a, accts[a], [accts[a] EXCEPT !.status = "DELETED"], "solo")

-----------------------------------------------------------------------------
(* The UPDATEs of delete_account: each waits for the rows it finds *)

SoftDelete(w, found, from, to) ==
    /\ pc[w] = from
    /\ \A t \in found : lock[t] = None
    /\ lock' = [r \in Rows |-> IF r \in found THEN w ELSE lock[r]]
    /\ kill' = [kill EXCEPT ![w] = @ \cup found]
    /\ pc'   = [pc EXCEPT ![w] = to]
    /\ UNCHANGED <<accts, txs, job, left, late, raced>>

\* Variant: what flows into the account counts as its own
SoloRowsEitherEnd(a) == {t \in Active : a \in {txs[t].from, txs[t].to}}

SoloRows(a) ==
    {t \in Active : txs[t].from = a /\ txs[t].to = None /\ txs[t].type \in {"INCOME", "EXPENSE"}}

Solo(w) == SoftDelete(w, SoloRows(job[w].id), "solo", "shared")

Counterparty(t, a) == IF txs[t].from = a THEN txs[t].to ELSE txs[t].from

\* Variant: the other end of a transfer is not looked at again
DeadTransfersNone(a) == {}

DeadTransfers(a) ==
    {t \in Active :
        /\ txs[t].type = "TRANSFER"
        /\ a \in {txs[t].from, txs[t].to}
        /\ Counterparty(t, a) # None
        /\ accts[Counterparty(t, a)].status = "DELETED"}

Shared(w) == SoftDelete(w, DeadTransfers(job[w].id), "shared", "flush")

-----------------------------------------------------------------------------
(* Flush, commit, rollback *)

\* Nothing is written when no column changed
Flush(w) ==
    /\ pc[w] = "flush"
    /\ \/ /\ job[w].mine = job[w].base
          /\ UNCHANGED lock
       \/ /\ job[w].mine # job[w].base
          /\ lock[job[w].id] = None
          /\ lock' = [lock EXCEPT ![job[w].id] = w]
    /\ pc' = [pc EXCEPT ![w] = "commit"]
    /\ UNCHANGED <<accts, txs, job, kill, left, late, raced>>

\* Variant: what the session has loaded survives it
EndSessionForgetful(w) ==
    /\ pc'   = [pc EXCEPT ![w] = "idle"]
    /\ kill' = [kill EXCEPT ![w] = {}]
    /\ lock' = [r \in Rows |-> IF lock[r] = w THEN None ELSE lock[r]]
    /\ UNCHANGED job

EndSession(w) ==
    /\ pc'   = [pc EXCEPT ![w] = "idle"]
    /\ job'  = [job EXCEPT ![w] = None]
    /\ kill' = [kill EXCEPT ![w] = {}]
    /\ lock' = [r \in Rows |-> IF lock[r] = w THEN None ELSE lock[r]]

Written(w, t) ==
    IF t \in kill[w] THEN [txs[t] EXCEPT !.status = "DELETED"]
    ELSE IF t # job[w].id THEN txs[t]
    ELSE IF Inserts(w) THEN job[w].mine
    ELSE Merged(txs[t], job[w].base, job[w].mine)

Commit(w) ==
    /\ pc[w] = "commit"
    /\ txs'   = [t \in TxIds |-> Written(w, t)]
    /\ accts' = [a \in Accounts |-> IF a = job[w].id
                                    THEN Merged(accts[a], job[w].base, job[w].mine)
                                    ELSE accts[a]]
    /\ raced' = IF w \in late THEN raced \cup {job[w].id} \cup kill[w] ELSE raced
    /\ late'  = (late \cup {v \in Workers : pc[v] # "idle"}) \ {w}
    /\ EndSession(w)
    /\ UNCHANGED left

\* The request is refused or fails, or its process dies
Rollback(w) ==
    /\ pc[w] # "idle"
    /\ EndSession(w)
    /\ late' = late \ {w}
    /\ UNCHANGED <<accts, txs, left, raced>>

-----------------------------------------------------------------------------

Begin(w) ==
    /\ Ready(w)
    /\ \/ \E t \in NextIds, type \in Types, amount \in Amounts, date \in Dates, from \in Accounts,
             to \in Accounts \cup {None}, dir \in Directions \cup {None} :
             Create(w, t, type, amount, date, from, to, dir)
       \/ \E t \in TxIds : Load(w, t) \/ Erase(w, t)
       \/ \E a \in Accounts : Close(w, a) \/ \E kind \in Kinds : Retype(w, a, kind)

Next ==
    \E w \in Workers :
        Begin(w) \/ Patch(w) \/ Solo(w) \/ Shared(w) \/ Flush(w) \/ Commit(w) \/ Rollback(w)

Spec == Init /\ [][Next]_vars

-----------------------------------------------------------------------------
(* Properties *)

Book == [t \in Active |-> txs[t]]

\* tests/SCENARIOS.md, D1, INV-A and INV-C: read to its end, the ledger of an account
\* stands at its start balance, and that of a month at the balance the months before
\* it leave behind.
Closes(a) ==
    /\ Touching(Book, a) # {} => Opening(Book, a, FullLedger(Book, a, 1)) = 0
    /\ \A d \in Dates :
          Touching(Within(Book, {d}), a) # {} =>
              Opening(Book, a, MonthLedger(Book, a, 1, d))
                  = CashFlow(Within(Book, {e \in Dates : e < d}), a)

\* The ledgers close unless a row was written by a request that worked on what another
\* one had changed meanwhile.
LedgersCloseUnlessRaced ==
    \A a \in Accounts : Touching(Book, a) \cap raced = {} => Closes(a)

\* INV-B: how the ledger is cut into pages does not show, whatever rows a race left.
PagesAgree ==
    \A a \in Accounts :
        \A limit \in 1..Cardinality(Touching(Book, a)) - 1 :
            FullLedger(Book, a, limit) = FullLedger(Book, a, MaxTx)

\* A deleted account takes its own income and expenses with it, and a transfer outlives
\* at most one of its two accounts, unless the row or an account of it was raced for.
DeadTakeTheirRows ==
    \A t \in Active :
        LET ends == {txs[t].from, txs[t].to} \ {None} IN
        (txs[t].type # "VALUATION" /\ ({t} \cup ends) \cap raced = {})
            => \E a \in ends : accts[a].status = "ACTIVE"

\* account/service.py:201-202: deleting an account preserves the balance of every account
\* that is still alive, whoever else is at work.
DeletionKeepsOthers ==
    [][\A a \in Accounts :
          (accts[a].status = "ACTIVE" /\ accts'[a].status = "DELETED") =>
              \A b \in Accounts \ {a} :
                  accts[b].status = "ACTIVE" => CashFlow(Book, b)' = CashFlow(Book, b)]_vars

-----------------------------------------------------------------------------
(* The inductive invariant behind them *)

\* A request works on a transaction or on an account, in the steps of its handler;
\* rows never disappear from the tables
JobFits ==
    \A w \in Workers :
        /\ \A t \in kill[w] : txs[t] # None
        /\ job[w] # None =>
              \/ /\ job[w].id \in TxIds
                 /\ job[w].mine \in TxRows
                 /\ \/ /\ job[w].base = None
                       /\ pc[w] = "commit"
                    \/ /\ job[w].base \in TxRows /\ txs[job[w].id] # None
                       /\ pc[w] \in {"check", "flush", "commit"}
              \/ /\ job[w].id \in Accounts
                 /\ job[w].base \in AccountRows /\ job[w].mine \in AccountRows
                 /\ pc[w] \in {"solo", "shared", "flush", "commit"}

\* What _normalize_to_account and _validate_transfer_consistency leave
Sound(row) == IF row.type = "TRANSFER" THEN row.to # None /\ row.to # row.from
                                       ELSE row.to = None

Outlived(row) == \E a \in {row.from, row.to} \ {None} : accts[a].status = "ACTIVE"

\* A row that was never raced for is as it was validated
UnracedAreSound == \A t \in Active \ raced : Sound(txs[t])

\* What a request that was not overtaken has loaded is what is committed, what it is
\* going to write was validated against it, and what it deletes is all there is
NotOvertaken(w) ==
    /\ job[w].id \in TxIds =>
          /\ job[w].base # None => job[w].base = txs[job[w].id]
          /\ (pc[w] \in {"flush", "commit"} /\ job[w].mine.status = "ACTIVE")
                => Sound(job[w].mine) /\ Outlived(job[w].mine)
    /\ job[w].id \in Accounts =>
          /\ job[w].base = accts[job[w].id]
          /\ job[w].mine.status = "DELETED" =>
                /\ pc[w] \in {"shared", "flush", "commit"} => SoloRows(job[w].id) \subseteq kill[w]
                /\ pc[w] \in {"flush", "commit"} => DeadTransfers(job[w].id) \subseteq kill[w]

FreshJobs == \A w \in Workers : (job[w] # None /\ w \notin late) => NotOvertaken(w)

\* What a session has claimed for itself others leave alone: the rows it deletes, which
\* touch no other account that is alive, the id of its new row, the row it changed. An
\* account is deleted and never comes back.
Claims(w) ==
    /\ \A t \in kill[w] :
          /\ lock[t] = w /\ Live(txs[t])
          /\ job[w] # None /\ job[w].id \in Accounts
          /\ \A b \in {txs[t].from, txs[t].to} \ {None} : b = job[w].id \/ accts[b].status = "DELETED"
    /\ job[w] # None =>
          /\ job[w].base = None =>
                txs[job[w].id] = None /\ \A v \in Workers \ {w} : Inserts(v) => job[v].id # job[w].id
          /\ (pc[w] = "commit" /\ job[w].base # None /\ job[w].mine # job[w].base) => lock[job[w].id] = w
          /\ job[w].id \in Accounts => job[w].base.status = "ACTIVE"

Claimed == \A w \in Workers : Claims(w)

IInv == TypeOK /\ JobFits /\ UnracedAreSound /\ FreshJobs /\ DeadTakeTheirRows /\ Claimed
=============================================================================
