----------------------------- MODULE LedgerPolicy -----------------------------
(***************************************************************************)
(* What a ledger says: its accounts, balances, assertions and prices, what *)
(* bean-check demands of it, and the facts that are sealed with a plan.    *)
(*                                                                         *)
(* Dates and amounts are integers.  A directive is a record of one of the  *)
(* kinds txn, close, balance and price; a transaction moves an amount of   *)
(* one currency between two accounts.  Open directives are kept beside the *)
(* lines of the file they are in, for no transaction moves with them.      *)
(***************************************************************************)
EXTENDS TransactionIndex

CONSTANTS
    Account,       \* account names
    Under,         \* Under[a]: a and the accounts below it
    Scope,         \* the accounts of the conversation
    Currency       \* commodities

ASSUME AccountAssumption ==
    /\ Under \in [Account -> SUBSET Account]
    /\ \A a \in Account : a \in Under[a]
    /\ Scope \subseteq Account

-----------------------------------------------------------------------------
(* What stands in a ledger.                                                *)

Transaction ==
    [kind : {"txn"}, date : Int, to : Account, from : Account, amount : Int, cur : Currency,
     note : BOOLEAN]

Price == [kind : {"price"}, date : Int, base : Currency, quote : Currency, value : Int]

Directive ==
    Transaction \cup Price
        \cup [kind : {"close"}, account : Account, date : Int]
        \cup [kind : {"balance"}, account : Account, date : Int, number : Int, cur : Currency]

Opening == [account : Account, date : Int]

Line == (Directive \X (Nat \ {0})) \cup Loose \cup {Glued}

File == [lines : Seq(Line), ended : BOOLEAN, opens : SUBSET Opening]

Ledger == [Path -> File]

-----------------------------------------------------------------------------
(* Reading a ledger.                                                       *)

Starts(file) == {k \in DOMAIN file.lines : file.lines[k][2] = 1}

Placed(ledger) ==
    UNION {{[path |-> p, line |-> k, says |-> ledger[p].lines[k][1]] :
                k \in Starts(ledger[p])} : p \in Path}

Said(ledger, kind) == {e.says : e \in {x \in Placed(ledger) : x.says.kind = kind}}

Transactions(ledger) == {x \in Placed(ledger) : x.says.kind = "txn"}

PostedTo(d) == {d.to, d.from}

Posted(ledger) == UNION {PostedTo(e.says) : e \in Transactions(ledger)}

OpenDates(ledger, a) ==
    {o.date : o \in {x \in UNION {ledger[p].opens : p \in Path} : x.account = a}}

CloseDates(ledger, a) == {d.date : d \in {x \in Said(ledger, "close") : x.account = a}}

\* get_accounts: every account with a posting, and every open directive in a
\* file of the repository.
Known(ledger) == Posted(ledger) \cup {a \in Account : OpenDates(ledger, a) # {}}

\* The account index also has those that only a close or an assertion names.
Indexed(ledger) ==
    Known(ledger) \cup {d.account : d \in Said(ledger, "close") \cup Said(ledger, "balance")}

\* The last of its open and close directives decides.
IsClosed(ledger, a) ==
    \E c \in CloseDates(ledger, a) : \A o \in OpenDates(ledger, a) : o <= c

Share(d, accounts) ==
    (IF d.to \in accounts THEN d.amount ELSE 0)
        - (IF d.from \in accounts THEN d.amount ELSE 0)

Total(ledger, accounts, cur, before) ==
    MapThenSumSet(LAMBDA e : Share(e.says, accounts),
        {e \in Transactions(ledger) : e.says.date < before /\ e.says.cur = cur})

\* The commodities an account holds at the start of a day, none at zero.
Inventory(ledger, accounts, before) ==
    LET held == {e.says.cur : e \in Transactions(ledger)}
    IN  {i \in {[cur |-> c, number |-> Total(ledger, accounts, c, before)] : c \in held} :
            i.number # 0}

\* The balance assertions of an account on a day.  The code reads the first;
\* in a ledger that passes bean-check they all say the same.
Checkpoints(ledger, a, date, cur) ==
    {d.number : d \in {x \in Said(ledger, "balance") :
        x.account = a /\ x.date = date /\ x.cur = cur}}

Prices(ledger, price) ==
    {d.value : d \in {x \in Said(ledger, "price") :
        x.date = price.date /\ x.base = price.base /\ x.quote = price.quote}}

PriceState(ledger, price) ==
    LET values == Prices(ledger, price)
    IN  CASE values = {}            -> "absent"
          [] values = {price.value} -> "exact"
          [] OTHER                  -> "conflict"

\* bean-check.  An account is used from the day it is opened to the day it is
\* closed; an assertion covers the accounts below the one it names.
Parses(ledger) == \A p \in Path : Glued \notin ToSet(ledger[p].lines)

\* Metadata belongs to the line above it.
Attached(ledger) ==
    \A p \in Path : \A k \in DOMAIN ledger[p].lines :
        ledger[p].lines[k] = Meta => k > 1 /\ IsIndented(ledger[p].lines[k - 1])

InUse(ledger, a, date) ==
    /\ \E o \in OpenDates(ledger, a) : o <= date
    /\ \A c \in CloseDates(ledger, a) : date <= c

BeanCheck(ledger) ==
    /\ Parses(ledger)
    /\ Attached(ledger)
    /\ \A a \in Account :
          /\ Cardinality(OpenDates(ledger, a)) <= 1
          /\ Cardinality({e \in Placed(ledger) :
                e.says.kind = "close" /\ e.says.account = a}) <= 1
          /\ \A c \in CloseDates(ledger, a) : \E o \in OpenDates(ledger, a) : o <= c
    /\ \A e \in Transactions(ledger) :
          \A a \in PostedTo(e.says) : InUse(ledger, a, e.says.date)
    /\ \A d \in Said(ledger, "balance") :
          /\ InUse(ledger, d.account, d.date)
          /\ Total(ledger, Under[d.account], d.cur, d.date) = d.number

-----------------------------------------------------------------------------
(* The facts a plan is sealed with.  A question names what is read; its    *)
(* answer is the reading, or nothing when there is none.                   *)

LastOf(dates) == {d \in dates : \A e \in dates : e <= d}
EarliestOf(dates) == {d \in dates : \A e \in dates : d <= e}

CloseState(ledger, a, date) ==
    LET postings == {x \in Transactions(ledger) : a \in PostedTo(x.says)}
        dates    == {e.says.date : e \in postings}
    IN  [closed    |-> IsClosed(ledger, a),
         opened    |-> EarliestOf(OpenDates(ledger, a)),
         closes    |-> LastOf(CloseDates(ledger, a)),
         last      |-> LastOf(dates),
         before    |-> LastOf({d \in dates : d <= date}),
         future    |-> {e \in postings : e.says.date > date},
         inventory |-> Inventory(ledger, {a}, date + 1)]

AboutAccount(a) == [kind |-> "account_state", subject |-> [account |-> a]]
AboutClose(a, date) ==
    [kind |-> "account_close_state", subject |-> [account |-> a, close_date |-> date]]
AboutBalance(a, date) == [kind |-> "balance_state", subject |-> [account |-> a, as_of |-> date]]
AboutCheckpoint(a, date, cur) ==
    [kind |-> "checkpoint_state", subject |-> [account |-> a, date |-> date, cur |-> cur]]
AboutRevision(ref) == [kind |-> "transaction_revision", subject |-> [ref |-> ref]]
AboutPrice(price) == [kind |-> "price_state", subject |-> [price |-> price]]

Reading(ledger, question) ==
    LET of == question.subject
    IN  CASE question.kind = "account_state" ->
              {[opened |-> OpenDates(ledger, of.account), closed |-> CloseDates(ledger, of.account)]}
          [] question.kind = "account_close_state" ->
              {[states |-> IF of.account \in Indexed(ledger)
                           THEN {CloseState(ledger, of.account, of.close_date)} ELSE {}]}
          [] question.kind = "balance_state" ->
              {[balance |-> Inventory(ledger, Under[of.account], of.as_of)]}
          [] question.kind = "checkpoint_state" ->
              {[amounts |-> Checkpoints(ledger, of.account, of.date, of.cur)]}
          [] question.kind = "transaction_revision" ->
              IF BeanCheck(ledger)
              THEN {[text |-> e.text] : e \in Resolves(IndexOf(ledger), of.ref)} ELSE {}
          [] question.kind = "price_state" ->
              {[state |-> PriceState(ledger, of.price), values |-> Prices(ledger, of.price)]}

Fact(question, value) == [question |-> question, value |-> value]

\* mutant: an edit of the prices is not compared
HoldButForPrices(ledger, facts) ==
    \A f \in facts : f.question.kind = "price_state" \/ f.value \in Reading(ledger, f.question)

SemanticFactsHold(ledger, facts) ==
    \A f \in facts : f.value \in Reading(ledger, f.question)

=============================================================================
