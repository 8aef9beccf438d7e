-------------------------- MODULE MCPreparedActions --------------------------
\* Small instances of PreparedActions: six accounts, one of them below another
\* and one out of the conversation's scope, an entry file of the user and two
\* sidecar files.
EXTENDS PreparedActions

Txn(date, to, from, amount) ==
    [kind |-> "txn", date |-> date, to |-> to, from |-> from, amount |-> amount,
     cur |-> "EUR", note |-> FALSE]

MCFile(directives, ended, opens) ==
    [lines |-> IF directives = <<>> THEN <<>> ELSE <<Blank>> \o TextOf(directives),
     ended |-> ended, opens |-> opens]

MCAccount == {"Bank", "Bank:Cash", "Food", "Shop", "Toys", "Rent"}
MCScope == MCAccount \ {"Rent"}
MCUnder == [a \in MCAccount |-> IF a = "Bank" THEN {"Bank", "Bank:Cash"} ELSE {a}]
MCPath == {"entry", "main", "month"}

Opened == {[account |-> a, date |-> 1] : a \in MCAccount \ {"Toys"}}

Meal  == Txn(3, "Food", "Bank", 2)
Lunch == Txn(3, "Food", "Bank:Cash", 1)
Gift  == Txn(4, "Shop", "Bank", 1)

\* Three equal transactions, the first with a comment behind it and metadata, and
\* no empty line or last newline; one that another one begins like.
Dense ==
    [lines |-> LinesOf(Commented(Meal)) \o <<Meta>> \o LinesOf(Meal) \o LinesOf(Meal),
     ended |-> FALSE, opens |-> {}]
Extended ==
    [lines |-> LinesOf(Meal) \o <<Note, Meta, Blank>> \o LinesOf(Meal) \o <<Remark>> \o LinesOf(Lunch),
     ended |-> TRUE, opens |-> {}]

Entry(directives) == MCFile(directives, TRUE, Opened)
Main == MCFile(<<>>, TRUE, {})

Holding(n) == [kind |-> "balance", account |-> "Bank", date |-> 5, number |-> n, cur |-> "EUR"]

\* Two equal transactions apart, equal ones side by side, and a sidecar file
\* without a last newline, under an assertion that holds or does not.
Twins    == ("entry" :> Entry(<<>>)) @@ ("main" :> Main) @@ ("month" :> MCFile(<<Meal, Meal>>, TRUE, {}))
Adjacent == ("entry" :> Entry(<<Gift>>)) @@ ("main" :> Main) @@ ("month" :> Dense)
Checked(n) ==
    ("entry" :> Entry(<<Lunch, Holding(n)>>)) @@ ("main" :> Main)
        @@ ("month" :> MCFile(<<Meal, Gift>>, FALSE, {}))

\* A transaction that the text of another one is the beginning of, with a comment
\* and metadata below it.
Longer == ("entry" :> Entry(<<>>)) @@ ("main" :> Main) @@ ("month" :> Extended)

MCInitial == {Twins, Adjacent, Checked(-4), Checked(-3), Longer}

MCPrice(value) ==
    [kind |-> "price", date |-> 4, base |-> "USD", quote |-> "EUR", value |-> value]

MCRequests ==
    {[kind |-> "create", txns |-> <<Txn(4, "Shop", "Food", 2)>>],
     [kind |-> "create", txns |-> <<Txn(6, "Toys", "Bank", 1), Lunch>>],
     [kind |-> "open", account |-> "Toys", date |-> 4],
     [kind |-> "close", account |-> "Shop", date |-> 4],
     [kind |-> "price", price |-> MCPrice(1)],
     [kind |-> "reconcile", account |-> "Bank", observed |-> 3, cutoff |-> "end_of_day",
      amount |-> 10, cur |-> "EUR", other |-> "Food"],
     [kind |-> "create", txns |-> <<Txn(4, "Rent", "Bank", 1)>>],
     [kind |-> "rebalance", account |-> "Bank", date |-> 5, cur |-> "EUR", other |-> "Bank:Cash"],
     [kind |-> "rebalance", account |-> "Bank", date |-> 5, cur |-> "EUR", other |-> "Food"]}

MCNewText == {Gift}
MCPushed == {MCPrice(1), MCPrice(2), Txn(2, "Shop", "Bank", 1)}

\* Users and layouts are only compared.
Symmetries == {p @@ q : p \in Permutations(User), q \in Permutations(Layout)}

\* What has been answered decides nothing that happens later.
Seen == <<history, head, draft, action, age, receipt>>
=============================================================================
