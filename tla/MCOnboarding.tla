---------------------------- MODULE MCOnboarding ----------------------------
(* Small repositories, setups and foreign pushes for TLC.                   *)
EXTENDS Onboarding, TLC

CONSTANTS c1, c2
CONSTANTS
    main,     \* data/main.beancount
    side,     \* data/agent_inc/main.beancount
    books,    \* books.beancount
    beside,   \* agent_inc/main.beancount
    deep,     \* data/agent_inc/agent_inc/main.beancount
    readme    \* README.md

Clients == Permutations({c1, c2})

Paths == {main, side, books, beside, deep, readme}
Sidecars == [p \in Paths |-> CASE p = main -> side [] p \in {books, readme} -> beside [] OTHER -> deep]
Ranks == beside :> 1 @@ books :> 2 @@ deep :> 3 @@ side :> 4 @@ main :> 5 @@ readme :> 6

Empty == [p \in Paths |-> Absent]
Files(f) == [p \in Paths |-> IF p \in DOMAIN f THEN f[p] ELSE Absent]
Of(marks, includes) == [marks |-> marks, includes |-> includes]
Plain == Of({}, {})
Book == Of({"option", "open"}, {})

Trees == {Empty, Files(readme :> Plain),
          Files(main :> Of({"option"}, {}) @@ deep :> Plain
                @@ books :> Of({"option", "open"}, {<<deep, "plain">>})),
          Files(main :> Of({"option", "bulky"}, {<<side, "wild">>, <<deep, "spread">>})
                @@ side :> Of({"open", "bulky"}, {<<beside, "wild">>}) @@ deep :> Of({"plugin"}, {})
                @@ books :> Of({"open", "bulky"}, {<<main, "barred">>})),
          Files(main :> Book @@ side :> Of({"option"}, {<<deep, "plain">>}) @@ deep :> Book
                @@ books :> Of({"open"}, {<<main, "other">>, <<side, "comment">>}))}

Edits == {<<main, Of({"open", "plugin"}, {})>>,
          <<main, Of({"option", "open"}, {<<side, "other">>})>>,
          <<side, Of({"open", "ragged"}, {})>>}

Ask(operation, entry, sidecar, matching) ==
    [operation |-> operation, entry |-> entry, sidecar |-> sidecar, matching |-> matching]
Requests == {Ask("initialize_ledger", Absent, Absent, TRUE),
             Ask("initialize_ledger", books, beside, TRUE),
             Ask("initialize_ledger", readme, Absent, TRUE),
             Ask("install_sidecar", Absent, Absent, TRUE),
             Ask("install_sidecar", main, beside, TRUE),
             Ask("install_sidecar", main, main, TRUE),
             Ask("install_sidecar", main, side, FALSE),
             Ask("install_sidecar", main, Outside, TRUE)}
=============================================================================
