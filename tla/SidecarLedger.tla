---------------------------- MODULE SidecarLedger ----------------------------
(***************************************************************************)
(* The ledger repository as the mutation code sees it: the files of one    *)
(* checkout, the sealed plans that edit them, and the checks made on them. *)
(*                                                                         *)
(* A checkout has an entry file that belongs to the user, the sidecar's    *)
(* main file and one sidecar file per calendar month.  A file either does  *)
(* not exist or holds directives.  What the text looks like and where in a *)
(* file a directive stands is left out: a file is the number of copies of  *)
(* each directive in it, which is all that the digests, the include graph  *)
(* and bean-check are asked to tell apart here.                            *)
(*                                                                         *)
(* The entry file is taken to include the sidecar's main file: a request   *)
(* whose checkout lacks that line fails its preflight before it reaches    *)
(* any of these operators.                                                 *)
(***************************************************************************)
EXTENDS Naturals, Sequences, FiniteSets

CONSTANTS
    Account,     \* the account names in use
    LastMonth,   \* bound: months are numbered 0 .. LastMonth
    NoFile       \* the state of a path at which there is no file

ASSUME LastMonthAssumption == LastMonth \in Nat

Month == 0 .. LastMonth

-----------------------------------------------------------------------------
(* Paths and contents.                                                     *)

EntryFile    == <<"entry", 0>>
MainFile     == <<"main", 0>>
MonthFile(m) == <<"month", m>>

Sidecar == {MainFile} \cup {MonthFile(m) : m \in Month}
Path    == {EntryFile} \cup Sidecar

OpenOf(a)    == <<"open", a>>
CloseOf(a)   == <<"close", a>>
TxnOf(a)     == <<"txn", a>>
IncludeOf(m) == <<"include", m>>

Entry     == {"open", "close", "txn"} \X Account
Directive == Entry \cup ({"include"} \X Month)

Content   == [Directive -> Nat]
EmptyFile == [d \in Directive |-> 0]
FileState == Content \cup {NoFile}
Tree      == [Path -> FileState]
NoTree    == [p \in Path |-> NoFile]

ASSUME NoFileAssumption == NoFile \notin Content

Put(content, d)  == [content EXCEPT ![d] = @ + 1]
Take(content, d) == [content EXCEPT ![d] = @ - 1]
Holds(tree, p, d) == tree[p] # NoFile /\ tree[p][d] > 0

-----------------------------------------------------------------------------
(* Plans: a non-empty sequence of operations.  "append" stands for append, *)
(* close and price, which the applier treats alike.                        *)

Operation == [kind : {"append", "open", "replace", "delete"},
              item : Entry, old : Entry, file : Sidecar]

Creates(op) == op.kind \in {"append", "open"}

\* Every path the replay of a plan may create or modify in month m.
PotentialWriteTargets(plan, m) ==
    UNION {IF Creates(plan[k]) THEN {MainFile, MonthFile(m)} ELSE {plan[k].file}
           : k \in DOMAIN plan}

\* The contents of a set of paths, as the store's snapshot returns them.
Snapshot(tree, paths) == [p \in paths |-> tree[p]]

\* Put captured contents back; every other path keeps what it has.
Restore(tree, captured) ==
    [p \in Path |-> IF p \in DOMAIN captured THEN captured[p] ELSE tree[p]]

-----------------------------------------------------------------------------
(* Replay.  ensure_sidecar reads the calendar more than once: it picks the *)
(* month's file first and names the month it includes in main later.       *)

EnsureMonthFile(tree, m) ==
    [tree EXCEPT ![MonthFile(m)] = IF @ = NoFile THEN EmptyFile ELSE @]

EnsureInclude(tree, m) ==
    LET main == IF tree[MainFile] = NoFile THEN EmptyFile ELSE tree[MainFile]
    IN  [tree EXCEPT ![MainFile] =
            IF main[IncludeOf(m)] = 0 THEN Put(main, IncludeOf(m)) ELSE main]

\* Append goes to the month file chosen by ensure_sidecar, open to main.
WriteItem(tree, op, target) ==
    LET p == IF op.kind = "open" THEN MainFile ELSE target
    IN  [tree EXCEPT ![p] = Put(@, op.item)]

\* Replace and delete need the directive they were sealed against.
EditAlwaysApplies(tree, op) == tree[op.file] # NoFile \* mutant: text not looked for
EditApplies(tree, op) == Holds(tree, op.file, op.old)

EditItem(tree, op) ==
    LET rest == Take(tree[op.file], op.old)
    IN  [tree EXCEPT ![op.file] =
            IF op.kind = "replace" THEN Put(rest, op.item) ELSE rest]

-----------------------------------------------------------------------------
(* What bean-check and the semantic facts read: the include graph.         *)

Included(tree) ==
    {p \in Path : /\ tree[p] # NoFile
                  /\ \/ p \in {EntryFile, MainFile}
                     \/ \E m \in Month : /\ p = MonthFile(m)
                                         /\ Holds(tree, MainFile, IncludeOf(m))}

Declared(tree, d) == \E p \in Included(tree) : tree[p][d] > 0

DeclaredOnce(tree, d) ==
    \E p \in Included(tree) :
        tree[p][d] = 1 /\ \A q \in Included(tree) \ {p} : tree[q][d] = 0

\* Every include names a file that exists, and names it once.
IncludesResolve(tree) ==
    /\ tree[EntryFile] # NoFile
    /\ tree[MainFile] # NoFile
    /\ \A m \in Month :
          /\ tree[MainFile][IncludeOf(m)] <= 1
          /\ tree[MainFile][IncludeOf(m)] = 1 => tree[MonthFile(m)] # NoFile

AccountsAreOpen(tree) ==
    \A a \in Account :
        /\ Declared(tree, OpenOf(a))  => DeclaredOnce(tree, OpenOf(a))
        /\ Declared(tree, CloseOf(a)) => DeclaredOnce(tree, CloseOf(a))
        /\ Declared(tree, TxnOf(a)) \/ Declared(tree, CloseOf(a))
              => Declared(tree, OpenOf(a))

BeanCheck(tree) == IncludesResolve(tree) /\ AccountsAreOpen(tree)

\* The open and close directives of an account, wherever they are included.
AccountState(tree, a) == {d \in {OpenOf(a), CloseOf(a)} : Declared(tree, d)}

\* Where an account is posted to, and how often.
PostingsOf(tree, a) == {<<p, tree[p][TxnOf(a)]>> : p \in Included(tree)}

\* The policy input a handler declares for one operation: the lifecycle of the
\* account it posts to, opens or closes; for a close its postings too; for a
\* replace or a delete the addressed revision.
SemanticFact(tree, op) ==
    LET a == op.item[2]
    IN  [lifecycle |-> IF op.kind = "delete" THEN {} ELSE AccountState(tree, a),
         postings  |-> IF op.item[1] = "close" THEN PostingsOf(tree, a) ELSE {},
         revision  |-> ~Creates(op) /\ EditApplies(tree, op)]

SemanticFacts(tree, plan) == [k \in DOMAIN plan |-> SemanticFact(tree, plan[k])]

\* mutant: the digests are not compared
FactsHold(tree, s) == SemanticFacts(tree, s.plan) = s.facts

\* What a sealed plan requires of the ledger it is replayed on: the contents of
\* the files it may write and the facts its handler relied on, as sealed.
PreconditionsHold(tree, s) ==
    /\ Snapshot(tree, DOMAIN s.pre) = s.pre
    /\ SemanticFacts(tree, s.plan) = s.facts

=============================================================================
