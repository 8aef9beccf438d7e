------------------------- MODULE ApprovedPublication -------------------------
(***************************************************************************)
(* What the host is promised about the remote branch, told without         *)
(* requests, workspaces or clocks: the branch grows by whole commits, and  *)
(* a commit of an agent is one atomic step from a ledger that meets        *)
(* everything its action was sealed with, which leaves the user's file     *)
(* alone.  A commit made while the calendar stood still also confines      *)
(* itself to the sealed files and passes bean-check.                       *)
(***************************************************************************)
EXTENDS SidecarLedger

CONSTANTS Action, InitialTree, User, NoAction

VARIABLES
    published,   \* the commits of the branch, oldest first
    sealed       \* what each action was sealed with, once it is

Tip == Len(published)
New == published'[Tip + 1]

\* One commit is pushed on top of the branch.
Grows ==
    /\ Len(published') = Tip + 1
    /\ \A i \in 1 .. Tip : published'[i] = published[i]

\* Anybody else may push anything.
UserCommits == Grows /\ New.by = User /\ UNCHANGED sealed

\* An action is sealed, once and for all, on some revision of the ledger.
Seals(a) ==
    /\ sealed[a] = NoAction /\ sealed' # sealed
    /\ sealed' = [sealed EXCEPT ![a] = sealed'[a]]
    /\ \E i \in 1 .. Tip : PreconditionsHold(published[i].tree, sealed'[a])
    /\ UNCHANGED published

\* A sealed action is published.
Publishes(a) ==
    /\ Grows
    /\ New.by = a
    /\ LET s      == sealed[a]
           before == published[Tip].tree
       IN  /\ s # NoAction
           /\ PreconditionsHold(before, s)
           /\ s.bound => s.base = Tip
           /\ New.tree[EntryFile] = before[EntryFile]
           /\ New.calm => /\ \A p \in Path \ DOMAIN s.pre : New.tree[p] = before[p]
                          /\ BeanCheck(New.tree)
    /\ UNCHANGED sealed

Init ==
    /\ published = <<[tree |-> InitialTree, by |-> User, calm |-> TRUE]>>
    /\ sealed = [a \in Action |-> NoAction]

Next == UserCommits \/ \E a \in Action : Seals(a) \/ Publishes(a)

Spec == Init /\ [][Next]_<<published, sealed>>

=============================================================================
