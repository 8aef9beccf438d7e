--------------------------- MODULE MutationHandlers ---------------------------
(***************************************************************************)
(* The preparation handlers: for each kind of operation, the policy it has *)
(* to pass on a ledger, the edits it becomes and the facts it rests on.    *)
(*                                                                         *)
(* An operation is a record whose kind is create (of one transaction or of *)
(* a batch), update, delete, open, close, price, reconcile or rebalance.   *)
(***************************************************************************)
EXTENDS LedgerPolicy

\* The operations that name no transaction of the ledger.
Request ==
    [kind : {"create"}, txns : Seq(Transaction)]
        \cup [kind : {"open"}, account : Account, date : Int]
        \cup [kind : {"close"}, account : Account, date : Int]
        \cup [kind : {"price"}, price : Price]
        \cup [kind : {"reconcile"}, account : Account, observed : Int,
               cutoff : {"end_of_day", "start_of_day"}, amount : Int, cur : Currency,
               other : Account]
        \cup [kind : {"rebalance"}, account : Account, date : Int, cur : Currency,
               other : Account]

NamesTransaction(op) == op.kind \in {"update", "delete"}

-----------------------------------------------------------------------------
(* Policy.                                                                 *)

\* validate_posting_accounts
PostsWithinPolicy(txns, known) ==
    \A i \in DOMAIN txns : PostedTo(txns[i]) \subseteq known \cap Scope

\* The transaction a reference names, when the ledger can be indexed at all.
Named(ledger, op) ==
    IF BeanCheck(ledger) THEN Resolves(IndexOf(ledger), op.ref) ELSE {}

NamesCurrentRevision(ledger, op) ==
    \E e \in Named(ledger, op) : e.text = op.text /\ e.ref.path \in SidecarPath

UpdateAllowed(ledger, op) ==
    /\ NamesCurrentRevision(ledger, op)
    /\ PostsWithinPolicy(<<op.new>>, Known(ledger))

OpenAllowed(ledger, op) == op.account \notin Known(ledger)

CloseAllowed(ledger, op) ==
    LET state == CloseState(ledger, op.account, op.date)
    IN  /\ BeanCheck(ledger)
        /\ op.account \in Indexed(ledger)
        /\ state.opened # {}
        /\ ~state.closed
        /\ \E o \in state.opened : o <= op.date
        /\ state.future = {}
        /\ state.inventory = {}

PriceAllowed(ledger, op) == PriceState(ledger, op.price) = "absent"

\* The day an observed balance is asserted.
AssertionDate(op) == IF op.cutoff = "end_of_day" THEN op.observed + 1 ELSE op.observed

\* mutant: the balance at the start of the observed day
AmountObserved(ledger, a, date, cur) ==
    LET held == Inventory(ledger, Under[a], date - 1)
    IN  IF held = {} THEN {0}
        ELSE {i.number : i \in {x \in held : held = {x} /\ x.cur = cur}}

\* The balance an assertion is compared with: nothing at all, or exactly one
\* commodity, the one that was asked about.
CurrentAmount(ledger, a, date, cur) ==
    LET held == Inventory(ledger, Under[a], date)
    IN  IF held = {} THEN {0}
        ELSE {i.number : i \in {x \in held : held = {x} /\ x.cur = cur}}

AdjustmentAllowed(ledger, op, date) ==
    /\ op.account \in Known(ledger)
    /\ CurrentAmount(ledger, op.account, date, op.cur) # {}
    /\ op.other \in Known(ledger)

ReconcileAllowed(ledger, op) ==
    /\ AdjustmentAllowed(ledger, op, AssertionDate(op))
    /\ Checkpoints(ledger, op.account, AssertionDate(op), op.cur) = {}

RebalanceAllowed(ledger, op) ==
    /\ Checkpoints(ledger, op.account, op.date, op.cur) # {}
    /\ AdjustmentAllowed(ledger, op, op.date)

Allowed(ledger, op) ==
    CASE op.kind = "create"    -> PostsWithinPolicy(op.txns, Known(ledger))
      [] op.kind = "update"    -> UpdateAllowed(ledger, op)
      [] op.kind = "delete"    -> NamesCurrentRevision(ledger, op)
      [] op.kind = "open"      -> OpenAllowed(ledger, op)
      [] op.kind = "close"     -> CloseAllowed(ledger, op)
      [] op.kind = "price"     -> PriceAllowed(ledger, op)
      [] op.kind = "reconcile" -> ReconcileAllowed(ledger, op)
      [] op.kind = "rebalance" -> RebalanceAllowed(ledger, op)

-----------------------------------------------------------------------------
(* Plans.                                                                  *)

Append1(kind, says) == [kind |-> kind, says |-> says]

\* The transaction that takes an account from its balance to a target on the
\* day before the target is asserted.
Adjustment(ledger, op, date, target) ==
    LET current == CHOOSE n \in CurrentAmount(ledger, op.account, date, op.cur) : TRUE
    IN  [kind |-> "txn", date |-> date - 1, to |-> op.account, from |-> op.other,
         amount |-> target - current, cur |-> op.cur, note |-> FALSE]

Reconciliation(ledger, op) ==
    LET date == AssertionDate(op)
    IN  <<Adjustment(ledger, op, date, op.amount),
          [kind |-> "balance", account |-> op.account, date |-> date,
           number |-> op.amount, cur |-> op.cur]>>

Rebalance(ledger, op) ==
    LET target == CHOOSE n \in Checkpoints(ledger, op.account, op.date, op.cur) : TRUE
    IN  <<Adjustment(ledger, op, op.date, target)>>

EditOf(ledger, op) ==
    CASE op.kind = "create" -> Append1("append", op.txns)
      [] op.kind = "close"  ->
            Append1("close", <<[kind |-> "close", account |-> op.account, date |-> op.date]>>)
      [] op.kind = "price"  -> Append1("price", <<op.price>>)
      [] op.kind = "reconcile" -> Append1("append", Reconciliation(ledger, op))
      [] op.kind = "rebalance" -> Append1("append", Rebalance(ledger, op))
      [] op.kind = "open" ->
            [kind |-> "open", opens |-> [account |-> op.account, date |-> op.date]]
      [] op.kind = "update" ->
            [kind |-> "replace", path |-> op.ref.path, old |-> op.text, new |-> op.new]
      [] op.kind = "delete" ->
            [kind |-> "delete", path |-> op.ref.path, old |-> op.text, start |-> op.ref.start]

AccountsOf(txns) == UNION {PostedTo(txns[i]) : i \in DOMAIN txns}

AboutAccounts(accounts) == {AboutAccount(a) : a \in accounts}

AboutAdjustment(op, date) ==
    AboutAccounts({op.account, op.other})
        \cup {AboutBalance(op.account, date), AboutCheckpoint(op.account, date, op.cur)}

QuestionsOf(op) ==
    CASE op.kind = "create" -> AboutAccounts(AccountsOf(op.txns))
      [] op.kind = "update" -> {AboutRevision(op.ref)} \cup AboutAccounts(PostedTo(op.new))
      [] op.kind = "delete" -> {AboutRevision(op.ref)}
      [] op.kind = "open"   -> {AboutAccount(op.account)}
      [] op.kind = "close"  -> {AboutClose(op.account, op.date)}
      [] op.kind = "price"  -> {AboutPrice(op.price)}
      [] op.kind = "reconcile" -> AboutAdjustment(op, AssertionDate(op))
      [] op.kind = "rebalance" -> AboutAdjustment(op, op.date)

\* A change set of the conversation opens accounts and records transactions; an
\* operation may use the accounts opened before it in the set.
ChangeSetAllowed(ledger, ops) ==
    \A i \in DOMAIN ops :
        LET known == Known(ledger)
                        \cup {ops[j].account : j \in {k \in 1 .. (i - 1) : ops[k].kind = "open"}}
        IN  CASE ops[i].kind = "open"   -> ops[i].account \notin known
              [] ops[i].kind = "create" -> PostsWithinPolicy(ops[i].txns, known)
              [] OTHER                  -> FALSE

-----------------------------------------------------------------------------
(* Replay.                                                                 *)

IsAppend(edit) == edit.kind \in {"append", "close", "price"}

WriteTargets(edits) ==
    UNION {IF edits[i].kind \in {"replace", "delete"} THEN {edits[i].path}
           ELSE {MainPath, MonthPath} : i \in DOMAIN edits}

EditPossible(ledger, edit) ==
    CASE edit.kind = "replace" ->
            edit.path \in SidecarPath /\ Occurrences(ledger[edit.path], edit.old) # {}
      [] edit.kind = "delete" ->
            /\ edit.path \in SidecarPath
            /\ edit.start \in DOMAIN ledger[edit.path].lines
            /\ StandsAt(ledger[edit.path], edit.old, edit.start)
      [] OTHER -> TRUE

Edited(ledger, edit) ==
    CASE IsAppend(edit) ->
            [ledger EXCEPT ![MonthPath] = Appended(@, TextOf(edit.says))]
      [] edit.kind = "open" ->
            [ledger EXCEPT ![MainPath].opens = @ \cup {edit.opens}]
      [] edit.kind = "replace" ->
            [ledger EXCEPT ![edit.path] = Replaced(@, edit.old, edit.new)]
      [] edit.kind = "delete" ->
            [ledger EXCEPT ![edit.path] = Deleted(@, edit.old, edit.start)]

\* The ledger a plan leads to, or none when one of its edits cannot be made.
Replayed(ledger, edits) ==
    LET after[n \in 0 .. Len(edits)] ==
            IF n = 0 THEN {ledger}
            ELSE {Edited(l, edits[n]) : l \in {x \in after[n - 1] : EditPossible(x, edits[n])}}
    IN  after[Len(edits)]

-----------------------------------------------------------------------------
(* The risk a pending action is sealed with.                               *)

Risk(type, batch, many) ==
    CASE type \in {"delete_transaction", "close_account"}          -> "high"
      [] type \in {"bulk_commit", "change_set"} /\ batch >= many   -> "high"
      [] type \in {"update_transaction", "balance_reconciliation"} -> "elevated"
      [] OTHER                                                     -> "normal"

=============================================================================
