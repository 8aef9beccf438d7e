------------------------- MODULE MutationPublication -------------------------
(***************************************************************************)
(* The life of a pending action: prepared and sealed against one revision  *)
(* of the ledger repository, and later replayed, checked, committed and    *)
(* pushed by whichever agent-core process the host sends it to.            *)
(*                                                                         *)
(* A process keeps nothing between requests.  The remote branch, the       *)
(* calendar and the host's retries move on between any two steps of an     *)
(* apply; a process may be killed at any of them.                          *)
(*                                                                         *)
(* Two routes reach the executor: the host's /agent/actions/apply, which   *)
(* relies on the file digests sealed into the plan, and the private        *)
(* runtime's apply_sealed, whose actions ("bound") also carry the commit   *)
(* they were sealed on.                                                    *)
(***************************************************************************)
EXTENDS SidecarLedger

CONSTANTS
    Worker,        \* requests that may be in flight at once
    Action,        \* pending action identifiers
    Plan,          \* the plans the handlers may build
    InitialTree,   \* the checkout of the first commit
    User,          \* whoever else pushes to the branch
    NoAction,      \* an identifier not prepared yet
    MonthStarts,   \* the instants at which a new month begins
    TTL,           \* how long a pending action is valid
    MaxTime,       \* bound: the last instant considered
    MaxCommits     \* bound: the length of the branch

ASSUME PublicationAssumption ==
    /\ \A plan \in Plan : plan \in Seq(Operation) /\ plan # <<>>
    /\ InitialTree \in Tree
    /\ User \notin Action
    /\ TTL \in Nat \ {0}
    /\ MaxTime \in Nat
    /\ MonthStarts \subseteq Nat
    /\ \A s, t \in MonthStarts : s < t => t - s >= TTL
    /\ MaxCommits \in Nat \ {0}

VARIABLES
    branch,     \* the remote branch: its commits, oldest first
    now,        \* the clock
    month,      \* the calendar month of that instant
    pending,    \* the sealed actions the host holds
    pc,         \* where each request is
    act,        \* the action it applies
    base,       \* the commit its workspace was copied from
    ws,         \* its workspace
    originals,  \* the contents captured before the replay
    step,       \* the plan operation to replay next
    target,     \* the month file ensure_sidecar returned for that operation
    steady,     \* whether every reading of the calendar agreed with the seal
    outcome     \* what the request answers

worker == <<pc, act, base, ws, originals, step, target, steady, outcome>>
vars   == <<branch, now, month, pending, worker>>

-----------------------------------------------------------------------------

Commit == [tree : Tree, by : Action \cup {User}, calm : BOOLEAN]

\* Contents captured from some files of the sidecar.
IsCapture(c) == \E paths \in SUBSET Sidecar : c \in [paths -> FileState]

Replaying == {"preconditions", "replay", "include", "check", "commit", "push"}
Phase     == {"idle", "verify", "writeset", "snapshot", "done"} \cup Replaying

Refusal == {"rejected", "conflict", "stale", "invalid", "nothing",
            "commit_failed"}
Outcome == {"none", "applied", "push_failed", "error"} \cup Refusal

TreeAt(i) == branch[i].tree
Tip      == Len(branch)
PlanOf(w) == pending[act[w]].plan

-----------------------------------------------------------------------------
(* The world around the requests.                                          *)

Tick ==
    /\ now < MaxTime
    /\ now' = now + 1
    /\ IF now + 1 \in MonthStarts
       THEN month + 1 \in Month /\ month' = month + 1
       ELSE month' = month
    /\ UNCHANGED <<branch, pending, worker>>

\* What a user's push may leave behind: the ledger as it is (another file of
\* the repository changed), an older revision restored, or an account opened
\* or dropped in the entry file.
UserEdits(tree) ==
    {tree} \cup {TreeAt(i) : i \in 1 .. Tip}
    \cup {[tree EXCEPT ![EntryFile] = Put(@, OpenOf(a))] :
             a \in {b \in Account : tree[EntryFile] # NoFile}}
    \cup {[tree EXCEPT ![EntryFile] = Take(@, OpenOf(a))] :
             a \in {b \in Account : Holds(tree, EntryFile, OpenOf(b))}}

UserPush ==
    /\ Tip < MaxCommits
    /\ \E t \in UserEdits(TreeAt(Tip)) :
          branch' = Append(branch, [tree |-> t, by |-> User, calm |-> TRUE])
    /\ UNCHANGED <<now, month, pending, worker>>

-----------------------------------------------------------------------------
(* Preparing: a plan is replayed and checked on a copy, sealed against the *)
(* request's workspace and handed to the host.  A chat keeps one workspace *)
(* for as long as it runs, so the revision sealed may be an old one.       *)

ApplyOperation(tree, op, m) ==
    IF Creates(op)
    THEN WriteItem(EnsureInclude(EnsureMonthFile(tree, m), m), op, MonthFile(m))
    ELSE IF EditApplies(tree, op) THEN EditItem(tree, op) ELSE tree

\* The trees a dry run goes through, one operation after the other.
Rehearsal(tree, plan, m) ==
    LET f[k \in 0 .. Len(plan)] ==
            IF k = 0 THEN tree ELSE ApplyOperation(f[k - 1], plan[k], m)
    IN  f

Rehearses(tree, plan, m) ==
    LET f == Rehearsal(tree, plan, m)
    IN  /\ \A k \in DOMAIN plan : Creates(plan[k]) \/ EditApplies(f[k - 1], plan[k])
        /\ BeanCheck(f[Len(plan)])

Seal(tree, plan, m, i, bound) ==
    [plan    |-> plan,
     month   |-> m,
     pre     |-> Snapshot(tree, PotentialWriteTargets(plan, m)),
     facts   |-> SemanticFacts(tree, plan),
     expires |-> now + TTL,
     base    |-> i,
     bound   |-> bound]

Prepare(a) ==
    /\ pending[a] = NoAction
    /\ \E plan \in Plan, i \in 1 .. Tip, bound \in BOOLEAN :
          /\ Rehearses(TreeAt(i), plan, month)
          /\ pending' = [pending EXCEPT
                            ![a] = Seal(TreeAt(i), plan, month, i, bound)]
    /\ UNCHANGED <<branch, now, month, worker>>

-----------------------------------------------------------------------------
(* Applying.                                                               *)

Finish(w, result) ==
    /\ pc' = [pc EXCEPT ![w] = "done"]
    /\ outcome' = [outcome EXCEPT ![w] = result]

Goto(w, phase) ==
    /\ pc' = [pc EXCEPT ![w] = phase]
    /\ UNCHANGED outcome

Expired(a) == pending[a].expires <= now

\* The request's workspace is a copy of the branch as it is now, taken whole: that
\* the cache is copied with its lock released is WorkspaceCache's subject.  The
\* runtime verifies the action before it opens one, the host's route afterwards.
Open(w, a) ==
    /\ pc[w] = "idle"
    /\ pending[a] # NoAction
    /\ act' = [act EXCEPT ![w] = a]
    /\ IF pending[a].bound /\ Expired(a)
       THEN /\ Finish(w, "rejected")
            /\ UNCHANGED <<base, ws>>
       ELSE /\ base' = [base EXCEPT ![w] = Tip]
            /\ ws' = [ws EXCEPT ![w] = TreeAt(Tip)]
            /\ pc' = [pc EXCEPT ![w] = "verify"]
            /\ outcome' = [outcome EXCEPT ![w] = "none"]
    /\ UNCHANGED <<branch, now, month, pending, originals, step, target, steady>>

WriteSetMatches(w) ==
    DOMAIN pending[act[w]].pre = PotentialWriteTargets(PlanOf(w), month)

\* The runtime's route: the branch has moved since the action was sealed.
HeadMoved(w) == base[w] # pending[act[w]].base

\* mutant: the commit a bound action was sealed on is not looked at
VerifyAnyHead(w) ==
    /\ pc[w] = "verify"
    /\ IF ~pending[act[w]].bound /\ (Expired(act[w]) \/ ~WriteSetMatches(w))
       THEN Finish(w, "rejected")
       ELSE Goto(w, "writeset")
    /\ UNCHANGED <<branch, now, month, pending, act, base, ws, originals,
                   step, target, steady>>

Verify(w) ==
    /\ pc[w] = "verify"
    /\ IF pending[act[w]].bound
       THEN IF HeadMoved(w)
            THEN Finish(w, "conflict")
            ELSE Goto(w, "writeset")
       ELSE IF Expired(act[w]) \/ ~WriteSetMatches(w)
            THEN Finish(w, "rejected")
            ELSE Goto(w, "writeset")
    /\ UNCHANGED <<branch, now, month, pending, act, base, ws, originals,
                   step, target, steady>>

\* The executor checks the write set once more, against today's month.
CheckWriteSet(w) ==
    /\ pc[w] = "writeset"
    /\ IF WriteSetMatches(w) THEN Goto(w, "snapshot") ELSE Finish(w, "rejected")
    /\ UNCHANGED <<branch, now, month, pending, act, base, ws, originals,
                   step, target, steady>>

\* The paths to capture are derived from today's month a second time.
CaptureOriginals(w) ==
    /\ pc[w] = "snapshot"
    /\ originals' = [originals EXCEPT
                        ![w] = Snapshot(ws[w], PotentialWriteTargets(PlanOf(w), month))]
    /\ steady' = [steady EXCEPT ![w] = WriteSetMatches(w)]
    /\ Goto(w, "preconditions")
    /\ UNCHANGED <<branch, now, month, pending, act, base, ws, step, target>>

CheckPreconditions(w) ==
    /\ pc[w] = "preconditions"
    /\ IF PreconditionsHold(ws[w], pending[act[w]])
       THEN Goto(w, "replay")
       ELSE Finish(w, "stale")
    /\ step' = [step EXCEPT ![w] = 1]
    /\ UNCHANGED <<branch, now, month, pending, act, base, ws, originals,
                   target, steady>>

\* mutant: the last operation of a change set is lost
NextButLast(w) ==
    /\ step' = [step EXCEPT ![w] = @ + 1]
    /\ Goto(w, IF step[w] + 1 >= Len(PlanOf(w)) THEN "check" ELSE "replay")

NextOperation(w) ==
    /\ step' = [step EXCEPT ![w] = @ + 1]
    /\ Goto(w, IF step[w] = Len(PlanOf(w)) THEN "check" ELSE "replay")

\* ensure_sidecar, first half: the file of the month it is now.
ReplayCreate(w) ==
    /\ pc[w] = "replay"
    /\ Creates(PlanOf(w)[step[w]])
    /\ ws' = [ws EXCEPT ![w] = EnsureMonthFile(@, month)]
    /\ target' = [target EXCEPT ![w] = MonthFile(month)]
    /\ steady' = [steady EXCEPT ![w] = @ /\ WriteSetMatches(w)]
    /\ Goto(w, "include")
    /\ UNCHANGED <<branch, now, month, pending, act, base, originals, step>>

\* ensure_sidecar, second half, and the directive itself.
ReplayInclude(w) ==
    /\ pc[w] = "include"
    /\ ws' = [ws EXCEPT ![w] =
                 WriteItem(EnsureInclude(@, month), PlanOf(w)[step[w]], target[w])]
    /\ steady' = [steady EXCEPT ![w] = @ /\ WriteSetMatches(w)]
    /\ NextOperation(w)
    /\ UNCHANGED <<branch, now, month, pending, act, base, originals, target>>

\* Replace or delete; a directive that is gone rolls the replay back.
ReplayEdit(w) ==
    /\ pc[w] = "replay"
    /\ ~Creates(PlanOf(w)[step[w]])
    /\ IF EditApplies(ws[w], PlanOf(w)[step[w]])
       THEN /\ ws' = [ws EXCEPT ![w] = EditItem(@, PlanOf(w)[step[w]])]
            /\ NextOperation(w)
       ELSE /\ ws' = [ws EXCEPT ![w] = Restore(@, originals[w])]
            /\ Finish(w, "rejected")
            /\ UNCHANGED step
    /\ UNCHANGED <<branch, now, month, pending, act, base, originals, target, steady>>

\* mutant: a ledger that fails bean-check is published all the same
ValidateNothing(w) ==
    /\ pc[w] = "check"
    /\ Goto(w, "commit")
    /\ UNCHANGED <<branch, now, month, pending, act, base, ws, originals, step,
                   target, steady>>

\* mutant: a ledger that fails bean-check is not restored
ValidateInPlace(w) ==
    /\ pc[w] = "check"
    /\ IF BeanCheck(ws[w]) THEN Goto(w, "commit") ELSE Finish(w, "invalid")
    /\ UNCHANGED <<branch, now, month, pending, act, base, ws, originals, step,
                   target, steady>>

Validate(w) ==
    /\ pc[w] = "check"
    /\ IF BeanCheck(ws[w])
       THEN Goto(w, "commit") /\ UNCHANGED ws
       ELSE /\ ws' = [ws EXCEPT ![w] = Restore(@, originals[w])]
            /\ Finish(w, "invalid")
    /\ UNCHANGED <<branch, now, month, pending, act, base, originals, step,
                   target, steady>>

\* Only a captured path can be seen to have changed, and only those are staged.
ChangedPaths(w) == {p \in DOMAIN originals[w] : ws[w][p] # originals[w][p]}

\* The tree of the local commit.
CommitTree(w) ==
    [p \in Path |-> IF p \in ChangedPaths(w) THEN ws[w][p] ELSE TreeAt(base[w])[p]]

CommitLocally(w) ==
    /\ pc[w] = "commit"
    /\ \/ /\ ChangedPaths(w) = {}
          /\ Finish(w, "nothing")
          /\ UNCHANGED ws
       \/ /\ ChangedPaths(w) # {}
          /\ Goto(w, "push")
          /\ UNCHANGED ws
       \/ /\ ChangedPaths(w) # {}
          /\ ws' = [ws EXCEPT ![w] = Restore(@, originals[w])]
          /\ Finish(w, "commit_failed")
    /\ UNCHANGED <<branch, now, month, pending, act, base, originals, step,
                   target, steady>>

\* mutant: a forced push
LandsByForce(w) ==
    /\ branch' = Append(SubSeq(branch, 1, base[w]),
                        [tree |-> CommitTree(w), by |-> act[w], calm |-> steady[w]])

\* mutant: a push that is merged with whatever came first
LandsMerged(w) ==
    /\ Tip < MaxCommits
    /\ branch' = Append(branch, [tree |-> [p \in Path |-> IF p \in ChangedPaths(w)
                                                        THEN ws[w][p]
                                                        ELSE TreeAt(Tip)[p]],
                                 by   |-> act[w],
                                 calm |-> steady[w]])

\* git push: the remote takes the commit only on the head it was made on.
Lands(w) ==
    /\ base[w] = Tip
    /\ Tip < MaxCommits
    /\ branch' = Append(branch, [tree |-> CommitTree(w),
                                 by   |-> act[w],
                                 calm |-> steady[w]])

\* A push that landed may still be reported as failed.
Push(w) ==
    /\ pc[w] = "push"
    /\ \/ Lands(w) /\ Finish(w, "applied")
       \/ Lands(w) /\ Finish(w, "push_failed")
       \/ UNCHANGED branch /\ Finish(w, "push_failed")
    /\ UNCHANGED <<now, month, pending, act, base, ws, originals, step,
                   target, steady>>

\* An exception inside the executor's transaction.  One raised after the push has
\* landed is Push's lost answer.
Fault(w) ==
    /\ pc[w] \in Replaying
    /\ ws' = [ws EXCEPT ![w] = Restore(@, originals[w])]
    /\ Finish(w, "error")
    /\ UNCHANGED <<branch, now, month, pending, act, base, originals, step,
                   target, steady>>

\* Nothing of a request outlives it.
Forget(w) ==
    /\ pc' = [pc EXCEPT ![w] = "idle"]
    /\ act' = [act EXCEPT ![w] = NoAction]
    /\ base' = [base EXCEPT ![w] = 1]
    /\ ws' = [ws EXCEPT ![w] = NoTree]
    /\ originals' = [originals EXCEPT ![w] = Snapshot(NoTree, {})]
    /\ step' = [step EXCEPT ![w] = 1]
    /\ target' = [target EXCEPT ![w] = MainFile]
    /\ steady' = [steady EXCEPT ![w] = TRUE]
    /\ outcome' = [outcome EXCEPT ![w] = "none"]
    /\ UNCHANGED <<branch, now, month, pending>>

\* The process is killed; the host hears nothing.
Crash(w) == pc[w] \notin {"idle", "done"} /\ Forget(w)

\* The answer has been sent and the workspace is destroyed.
Close(w) == pc[w] = "done" /\ Forget(w)

-----------------------------------------------------------------------------

Init ==
    /\ branch = <<[tree |-> InitialTree, by |-> User, calm |-> TRUE]>>
    /\ now = 0
    /\ month = 0
    /\ pending = [a \in Action |-> NoAction]
    /\ pc = [w \in Worker |-> "idle"]
    /\ act = [w \in Worker |-> NoAction]
    /\ base = [w \in Worker |-> 1]
    /\ ws = [w \in Worker |-> NoTree]
    /\ originals = [w \in Worker |-> Snapshot(NoTree, {})]
    /\ step = [w \in Worker |-> 1]
    /\ target = [w \in Worker |-> MainFile]
    /\ steady = [w \in Worker |-> TRUE]
    /\ outcome = [w \in Worker |-> "none"]

Apply(w) ==
    \/ Verify(w) \/ CheckWriteSet(w) \/ CaptureOriginals(w) \/ CheckPreconditions(w)
    \/ ReplayCreate(w) \/ ReplayInclude(w) \/ ReplayEdit(w)
    \/ Validate(w) \/ CommitLocally(w) \/ Push(w) \/ Close(w)

Next ==
    \/ Tick \/ UserPush
    \/ \E a \in Action : Prepare(a)
    \/ \E w \in Worker : \/ \E a \in Action : Open(w, a)
                         \/ Apply(w) \/ Fault(w) \/ Crash(w)

Spec == Init /\ [][Next]_vars

-----------------------------------------------------------------------------
(* Properties.                                                             *)

IsSealed(s) ==
    /\ s.plan \in Plan
    /\ s.month \in Month
    /\ IsCapture(s.pre)
    /\ DOMAIN s.pre = PotentialWriteTargets(s.plan, s.month)
    /\ s.expires \in Nat
    /\ s.base \in Nat
    /\ s.bound \in BOOLEAN

\* Types of the variables; a request past Open applies a prepared action.
TypeOK ==
    /\ branch \in Seq(Commit)
    /\ branch # <<>>
    /\ now \in Nat
    /\ month \in Month
    /\ DOMAIN pending = Action
    /\ \A a \in Action : pending[a] = NoAction \/ IsSealed(pending[a])
    /\ pc \in [Worker -> Phase]
    /\ act \in [Worker -> Action \cup {NoAction}]
    /\ base \in [Worker -> Nat]
    /\ ws \in [Worker -> Tree]
    /\ DOMAIN originals = Worker
    /\ \A w \in Worker : IsCapture(originals[w])
    /\ step \in [Worker -> Nat]
    /\ target \in [Worker -> Sidecar]
    /\ steady \in [Worker -> BOOLEAN]
    /\ outcome \in [Worker -> Outcome]

ByAgent(i)     == branch[i].by # User
SealOf(i)      == pending[branch[i].by]
Published(a)   == {i \in 2 .. Tip : branch[i].by = a}
Replayed(tree, s) == Rehearsal(tree, s.plan, s.month)[Len(s.plan)]

\* A commit of an agent was made on exactly the contents and the ledger facts
\* its plan was sealed against, whatever was pushed between the approval and
\* the push; the commit of a bound action follows the very commit it names.
\* (executor.py preconditions_hold, re-read on a copy that the fast-forward
\* push proves to be current.)
StalePlanNeverPublished ==
    \A i \in 2 .. Tip : ByAgent(i) =>
        /\ PreconditionsHold(TreeAt(i - 1), SealOf(i))
        /\ SealOf(i).bound => SealOf(i).base = i - 1

\* Nobody's push is undone: the branch only grows, and a commit of an agent
\* leaves every file outside the sidecar as its predecessor had it.
PushesSurvive ==
    [][/\ Len(branch') >= Tip
       /\ \A i \in 1 .. Tip : branch'[i] = branch[i]
       /\ Len(branch') > Tip /\ branch'[Tip + 1].by # User
             => branch'[Tip + 1].tree[EntryFile] = TreeAt(Tip)[EntryFile]]_branch

\* The sealed paths tell the sealed month from every other, which they do unless
\* a plan appends and also edits the files of two months.
PathsTellMonth(s) ==
    (\E k \in DOMAIN s.plan : Creates(s.plan[k])) =>
        \A m \in Month : PotentialWriteTargets(s.plan, m) = DOMAIN s.pre => m = s.month

\* What the user approved is what gets published: with the calendar steady, the
\* sealed files hold exactly what the dry run left in them when the action was
\* prepared, possibly on a much older revision, and nothing else changed.
PublishedAsReviewed ==
    \A i \in 2 .. Tip : ByAgent(i) /\ branch[i].calm /\ PathsTellMonth(SealOf(i)) =>
        \A p \in Path :
            TreeAt(i)[p] = IF p \in DOMAIN SealOf(i).pre
                           THEN Replayed(TreeAt(SealOf(i).base), SealOf(i))[p]
                           ELSE TreeAt(i - 1)[p]

\* With the calendar steady every ledger an agent publishes passes bean-check,
\* although only the captured files are staged and users push meanwhile.
SteadyLedgerValid ==
    \A i \in 2 .. Tip : ByAgent(i) /\ branch[i].calm => BeanCheck(TreeAt(i))

\* The same without the proviso, which is what the README promises of every
\* write ("bean-check after every write; auto-revert on failure") and
\* targets.py of a month rollover ("fail closed before replay").
PublishedLedgerValid ==
    \A i \in 2 .. Tip : ByAgent(i) => BeanCheck(TreeAt(i))

\* An action is published again only after somebody put its files back to what
\* they were when it was sealed; a retry on its own never publishes twice.
RepublishedOnlyIfRestored ==
    \A a \in Action : \A i, j \in Published(a) :
        i < j => \E k \in i + 1 .. j - 1 : PreconditionsHold(TreeAt(k), pending[a])

\* A bound action is published at most once, restored files or not.
BoundActionPublishedOnce ==
    \A a \in Action :
        pending[a] # NoAction /\ pending[a].bound => Cardinality(Published(a)) <= 1

\* publisher.py requires that an uncertain publication be reconciled before
\* another publish is attempted: no action is published twice.
PublishedAtMostOnce == \A a \in Action : Cardinality(Published(a)) <= 1

\* A replay that fails is undone completely: the restored workspace is the
\* revision it was copied from, created files included.
FailedReplayUndone ==
    \A w \in Worker :
        pc[w] = "done" /\ steady[w] /\ outcome[w] \in {"invalid", "commit_failed", "error"}
            => ws[w] = TreeAt(base[w])

\* The interleaved protocol implements an atomic one: whatever requests, users,
\* the clock and crashes do between two steps of an apply, the branch moves as
\* if every approved action were checked and published in one step.
Approved == INSTANCE ApprovedPublication WITH published <- branch, sealed <- pending
PublicationIsAtomic == Approved!Spec

=============================================================================
