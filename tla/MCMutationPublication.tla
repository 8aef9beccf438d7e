------------------------ MODULE MCMutationPublication ------------------------
(* Small instances of MutationPublication for TLC. *)
EXTENDS MutationPublication, TLC

CONSTANTS r1, r2, p1, p2, cash, food

Append1(a) == [kind |-> "append", item |-> TxnOf(a), old |-> TxnOf(a), file |-> MainFile]
Open1(a)   == [kind |-> "open", item |-> OpenOf(a), old |-> OpenOf(a), file |-> MainFile]
Close1(a)  == [kind |-> "append", item |-> CloseOf(a), old |-> CloseOf(a), file |-> MainFile]
Delete1(a, m) ==
    [kind |-> "delete", item |-> TxnOf(a), old |-> TxnOf(a), file |-> MonthFile(m)]
Replace1(a, b, m) ==
    [kind |-> "replace", item |-> TxnOf(b), old |-> TxnOf(a), file |-> MonthFile(m)]

\* cash is open and the first month's file holds one transaction.
SeededTree ==
    [p \in Path |->
        CASE p = EntryFile    -> Put(EmptyFile, OpenOf(cash))
          [] p = MainFile     -> Put(EmptyFile, IncludeOf(0))
          [] p = MonthFile(0) -> Put(EmptyFile, TxnOf(cash))
          [] OTHER            -> NoFile]

\* cash is open and the sidecar's main file is empty.
BareTree ==
    [p \in Path |->
        CASE p = EntryFile -> Put(EmptyFile, OpenOf(cash))
          [] p = MainFile  -> EmptyFile
          [] OTHER         -> NoFile]

AppendPlans == {<<Append1(cash)>>}

\* A deletion, the closing of an account and a change set.
MixedPlans  == {<<Delete1(cash, 0)>>,
                <<Close1(cash)>>,
                <<Open1(food), Replace1(cash, food, 0)>>}

RequestSymmetry == Permutations({r1, r2})
ActionSymmetry  == Permutations({p1, p2})
=============================================================================
