# A TLA+ model of agent-core

agent-core is the stateless execution plane of BeanPilot: a FastAPI server that
clones a user's Beancount ledger repository, lets an LLM read it and prepare
changes, and, once the user has approved a sealed change, replays, checks,
commits and pushes it. This directory models the parts of it where several
things happen at once, checks them with TLC on small instances and proves the
most important results for instances of every size with TLAPS.

Paths below are relative to `src/agent_core/` in the repository.

## 1. The system

| Component | Code | State it keeps | Operations | Status here |
|---|---|---|---|---|
| Mutation publication | `services/mutations/{executor,application,applier,targets,sidecar}.py`, `services/operations/pending_actions.py` | one request's workspace and captured files | write-set check, snapshot, precondition check, replay, bean-check, commit, push, restore | modelled |
| Preparation and sealing | `services/mutations/{preparation,coordinator,validator,facts,plans,planners}.py` | none (the host keeps the sealed action) | build a plan, rehearse it on a copy, seal digests and facts | partly |
| Preparation handlers | `services/mutations/handlers/*` | none | what an operation may ask, its plan, its declared read set | partly |
| Approval contract | `services/approvals/*` | none | seal with risk, expiry and binding; verify actions and proofs | modelled |
| Private runtime | `services/runtime.py`, `services/runtime_references.py` | the draft of one change set | signed reads, `prepare`, `apply_sealed` | partly |
| Workspace cache and lifecycle | `services/workspace.py`, `services/operations/lifecycle.py` | `/tmp/bean_cache`: clones, `.meta`, `.lock` | acquire, refresh, clone, copy, sweep, destroy | modelled |
| Transaction index | `services/transaction_index.py` | none | mint references, resolve them | modelled |
| Balance reconciliation | `services/reconciliation.py` | none | balances, adjustments, assertions | modelled |
| Onboarding | `services/onboarding/*`, `services/operations/onboarding.py` | the copy of a confirmation | discover, preview, confirm | modelled |
| Chat stream | `agent.py`, `services/operations/chat.py`, `services/activity.py` | one turn's queues and history | LLM/tool loop, activity events, approval and history events | partly |
| Git service, Beancount checking, ledger reads, plugin policy, HTTP surface | `services/{workspace,beancount,inspection,preflight,queries,plugin_policy}.py`, `main.py` | a parse cache per workspace | | partly |
| Tools and language, tracing, legacy `ledger/`, benchmark | `workflow/`, `tracing.py`, `ledger/`, `src/benchmark` | none | | not modelled |

**How they interact.** Every request opens a workspace: `CachedWorkspaceManager`
refreshes or re-clones one cache entry under a file lock, the lifecycle copies
it to `/tmp/<prefix>...` and destroys the copy at the end. A chat turn runs the
LLM on its copy; a tool that changes the ledger only *prepares*: it rehearses
the plan on a second copy and returns a sealed pending action, which the host
stores and shows to the user. Later the host sends the approved action back, by
one of two routes: `/agent/actions/apply` (application.py) or the private
runtime's `apply_sealed` (runtime.py), which also names the commit the action
was sealed on. Both end in `MutationExecutor.apply_and_publish`.

**What is hard.** The endpoints are coroutines with synchronous bodies, so
within one process two applies do not interleave; but several processes share
`/tmp/bean_cache` and the remote branch, users push to the branch directly, the
host retries what it thinks has failed, the calendar decides which file is
written, and a process can be killed anywhere. There is no database: the only
thing that survives is the remote branch.

**What makes it correct.**

- Publication: what lands on the branch is what was approved, made on the state
  it was approved for, passes bean-check, touches the sealed files only, and
  lands once; a failed apply leaves nothing behind.
- Change sets: an edit changes the transaction its caller named and nothing
  else, wherever earlier operations of the set have pushed it; the facts that
  are sealed are the caller's, on the revision the caller read.
- Approval: an action is applied only by whom, where and while it was sealed for,
  and what its handler checked still holds of the revision it lands on.
- Onboarding: a setup that lands is the one that was shown, on the revision it
  was shown for; the answer says what happened; the policy walk reads exactly the
  files it follows the includes to.
- Cache: one writer per entry; a workspace is one recent revision; a crash
  cannot wedge the entry or its waiters.
- Chat stream: what a successful turn produced reaches the host, history comes
  once, last and whole, an action is put to the user in the turn that prepared
  it and in no other, every turn ends.

## 2. Modules

| Module | Models |
|---|---|
| `SidecarLedger` | the repository as the publication sees it: files, plans, replay of one operation, snapshot and restore, the include graph, bean-check, semantic facts, preconditions. Pure operators. |
| `MutationPublication` | EXTENDS it: the remote branch, the clock and calendar, sealed actions, and each request's apply as a state machine, with crashes and lost push answers. |
| `ApprovedPublication` | the abstract specification: the branch grows by whole commits, and an agent's commit is one atomic step from a ledger that meets everything its action was sealed with. |
| `TransactionIndex` | files as lines, the index of their transactions, opaque references, and the splices of the sidecar store. Pure operators. |
| `LedgerPolicy` | EXTENDS it: what the handlers ask of a ledger (accounts, inventories, assertions, prices), bean-check, and semantic facts. Pure operators. |
| `MutationHandlers` | EXTENDS it: what each handler accepts, the edit it plans, the facts it declares, replay, risk. Pure operators. |
| `PreparedActions` | EXTENDS it: drafts, sealing, both routes of preparation and of application, and the users that push in between. |
| `LedgerRepository` | the repository as onboarding sees it: include graph, plugin policy, discovery, setup paths, previews. Pure operators. |
| `Onboarding` | EXTENDS it: clients that preview and confirm setups. |
| `WorkspaceCache` | one cache entry, its lock file and time stamp, and the processes that refresh, copy and sweep it. |
| `ChatStream` | a conversation of several turns: the request handler, the graph of model and tools, the two queues between them, failures, a host that hangs up. |
| `ActivityEmitter` | how one activity event is built by handlers in several threads. |
| `MC...` | instances for TLC. |
| `DataLemmas` | lemmas about finite data: induction over sets of numbers, functions defined by iteration, sequences that grow at their end and are read from their front. |
| `LedgerEditProofs` | theorems about `TransactionIndex`, `LedgerPolicy` and `MutationHandlers`: what one edit does to any ledger. |
| `...Proofs` | the theorems about the module of that name. |

The publication is modelled twice, at two grains. `MutationPublication` splits
an apply into its steps and keeps plans small; `PreparedActions` keeps whole
ledgers and every kind of operation and applies in one step. That the steps of
an apply amount to one is what the refinement of `ApprovedPublication` says.

### SidecarLedger and MutationPublication

A file is the number of copies of each directive it holds, or `NoFile`. That is
all the digests (`snapshot` and `FilePrecondition`), the include graph and
bean-check are asked to tell apart; the order of directives in a file, dates,
amounts, comments and `bean-format` (which rewrites layout only) are left out.
Directives are `open`, `close` and `txn` of an account and `include` of a month.
`BeanCheck` is the part of Beancount's validation that the mutation code can
break: includes that resolve, accounts opened once, closed once and open when
posted to. The entry file includes the sidecar's main file in every tree;
requests on other layouts stop in preflight, before these modules begin.

**A workspace is taken whole.** `open` copies the cache entry after the entry's
lock has been given back (lifecycle.py:100-112). `WorkspaceCache` models that and
shows that the copy can be torn (`cache_torn`). `Open` here, `Confirm` in
`Onboarding` and `Execute` in `PreparedActions` take the workspace from the branch
in one step. What these modules check and prove of what is published, reviewed
and valid therefore rests on the assumption that a copy is one revision.

Variables: `branch` (each commit remembers its tree, who made it, and whether
the calendar was steady while it was made: a history component the code does not
have), `now`, `month`, `pending` (what the host holds), and per request `pc`,
`act`, `base`, `ws`, `originals`, `step`, `target`, `steady`, `outcome`.

| Action | Code |
|---|---|
| `Prepare` | `_prepare_registered` in preparation.py: build, rehearse on a copy, seal. A chat's workspace may be old, so any revision may be sealed. |
| `Open` | lifecycle.py `open`, reached from `run` of pending_actions.py or from `_apply_sealed`, which checks the expiry first |
| `Verify` | the checks between opening the workspace and the executor: expiry and write set on the host's route, the head on the runtime's (`HeadMoved`) |
| `CheckWriteSet`, `CaptureOriginals`, `CheckPreconditions` | executor.py 64-72, one action per reading of the calendar |
| `ReplayCreate`, `ReplayInclude` | `ensure_sidecar` chooses a month file, then names the month it includes: two readings, two actions; the directive goes in with the second |
| `ReplayEdit` | `replace` and `delete`, which fail if the text is gone |
| `Validate` | bean-check and the restore when it fails |
| `CommitLocally` | changed paths are computed, staged and committed; only captured paths can be seen to have changed |
| `Push` | lands only on the head it was made on; an answer may be lost after it landed |
| `Fault` | any exception inside the executor's `try`; it leaves the branch alone, an exception after the push has landed is the lost answer of `Push` |
| `Crash`, `Close` | a kill (no `finally` runs, and the workspace is not used again), the normal end |
| `Tick`, `UserPush` | the clock and calendar, other writers |

Not split further: the three readings of the calendar at sidecar.py:53-60 are
one step, so is the whole of `Prepare`.

### ApprovedPublication

`Publishes(a)` states in one step what an approved action may do to the branch:
it needs the sealed preconditions at the head it lands on, a bound action needs
that head to be the one it names, the user's entry file is kept, and if the
calendar was steady the rest of the tree outside the sealed files is kept and
the result passes bean-check. `PublicationIsAtomic` says that
`MutationPublication` implements it:
`INSTANCE ApprovedPublication WITH published <- branch, sealed <- pending`, with
everything else hidden.

### TransactionIndex, LedgerPolicy, MutationHandlers, PreparedActions

A line (`Line`) is a directive and the number of the line in its text, so that two
copies of one directive are the same text at two places. Directives, ledgers
(`Ledger`) and the operations that name no transaction (`Request`) are sets of
records over the constants `Account`, `Currency` and the integers, which is what the
proofs are about; an instance picks a few of each. A transaction has a header and
two postings, perhaps a comment behind the last, and below them any comments and
metadata (`Note`, `Meta`), which belong to the text a reference stands for. `Whole`
says that no header is torn from its postings. A file also knows whether it ends in
a newline: `append` adds one, `replace` drops the newline of the text it replaces. A
reference is path, line, identity and occurrence number (`Ref`); its fingerprint is
the text it stood for. `Resolves` and `RefCode` are `TransactionIndex.resolve`,
whose four answers are malformed, not found, stale and found.

`OccursAt` and `Replaced` are `str.replace(old, new, 1)` (sidecar.py:125-128): the
first place where the characters stand, which may be the beginning of a longer
transaction, in front of its comment, its metadata or its last newline. What is
left below then belongs to the new transaction, or does not parse (`JoinedTo`,
`Attached`). `StandsAt` and `Deleted` are the branch of `delete` that is given a
line (150-157).

`LedgerPolicy.Reading` is `_current_fact`, one disjunct per kind of fact;
`SemanticFactsHold` compares with what was sealed. `BeanCheck` here is parsing,
the life of an account and balance assertions. `MutationHandlers` has one
`...Allowed` per handler, `EditOf` for the plan it builds and `QuestionsOf` for
the facts it declares; `Edited` is one operation of `MutationApplier`,
`Replayed` all of them. Amounts are integers here; the code reads balances from the
CSV that bean-query prints, rounded to the precision a currency is displayed with
(beancount.py:299-313, reconciliation.py:203-217), so that
`AdjustmentHitsTarget` speaks of amounts which that precision can show.

| Action of `PreparedActions` | Code |
|---|---|
| `Begin`, `Take`, `Refuse` | the loop of `PrivateLedgerRuntime._prepare` (runtime.py:667-718): rebase the reference, build with the handler on the draft, replay on the draft, follow the references (`Followed`), record the facts under the caller's references (`OriginalQuestions`) |
| `Seal`, `SealFails` | runtime.py:719-789: facts captured on the base, the dry run on the base, the seal with its binding |
| `PrepareOne`, `PrepareSet` | the gateway's preparations on the checkout; a set is the opening and transaction operations of `ChangeSetPreparationHandler` |
| `ApplySealed` | `_apply_sealed`: expiry, binding, head, then `Execute` |
| `ApplyApproved` | `apply_pending_action`, by the endpoint or the gateway: expiry, proof, layout, then `Execute` |
| `Execute` | file and semantic preconditions, replay, bean-check, commit, push or refusal; an answer may be lost after the push landed |
| `Push`, `Tick` | the user adds, annotates or removes directives while an action is pending; time passes |

`Execute` is one step, so an action that expires between the check and the push
(contracts.py:210) is not seen to; nor is a push of somebody else in between,
which `MutationPublication` models.

Left out: the month file is always there (`SidecarLedger` models its creation)
and bean-format; the currencies of openings, pads and booking methods;
transactions with more than two postings; comments that differ (all are equal,
and so is all metadata); a text found in the middle of a line; a last line with
no newline that is the beginning of another directive's. One action is pending
at a time.

### LedgerRepository and Onboarding

A file is a set of marks (sets an option, opens an account, does not parse, names a
plugin, is not formatted, is bulky, or is one the policy refuses to read: too
large, a link or not UTF-8) and of includes with how they are spelt: as the setup
would write them, in another way, with a wildcard in the last part or in a
directory part, as a path the policy bars, or inside a comment. There are two
readers: `Included` and `Reach` are the Beancount loader, which expands every
wildcard; `Seen` and `Followed` are `_relative_include`, whose
`pattern.parent.glob(pattern.name)` expands the last part only. `Accepted` is the
policy, `Scan` its loop and `Popped` one round of it, with the bounds on files
and on bytes (`TooMuch`, in files that are bulky). A wildcard matches one path
here. `Candidates`, `Checked`, `Confidence`, `Discovered` the ranking of
discovery; `SetupPaths`, `PreviewError`, `Planned` the preview. `Confirm`,
`Apply`, `Check`, `Commit`, `Push` or `PushFails` are `confirm_setup`; every
refusal ends in `Answer`, which destroys the copy.

### WorkspaceCache

A checkout is the git directory and its tracked files, each at some revision;
every revision changes every file, so a mixture can be recognised. `acquire` is
`Lock`, `Decide` (`_is_valid`), `Remove` and `Clone` or not, `Fetch`,
`Checkout` file by file, `SetHead`, `Touch`. The lock is given back in `Touch`,
the copy (`CopyPart`) follows. `Sweep` and `SweepAway` are `cleanup_expired`,
run when a process starts. A request that is over forgets what it asked for and
fetched (`Forget`). `jammed` is what a killed git leaves behind
(`index.lock`, half a clone). `meta` counts the seconds since `.meta` was
written, up to the TTL.

`git pull --ff-only` and the fall-back to fetch and reset are one `Fetch`, which
goes on to the checkout unless a pull finds nothing new; then the working tree stays
as it is, without the files a sweep may have deleted. A pull that does bring
something is taken to restore such files, which `git merge` does only for those that
changed. `rmtree` is called to ignore errors: `SweepAway` ends when nothing is left,
and a part that cannot be deleted is not modelled. One branch and one key: entries
do not share anything.

### ChatStream

Three nested generators yield to the host: `event_stream` (main.py), `run`
(chat.py) and `stream` (agent.py). Between two decisions they yield a fixed list
of chunks; the variable `script` is what is left of that list, `YieldChunk`
plays it, and `Proceed` takes the next decision when it is played. `Deliver` is
what `run` does with a chunk of the agent: hold the history back, remember
`require_user_input`, pass the rest on.

The graph task is `graph`: the node `agent` (`ModelSpeaks`, `ModelAnswers`,
`ModelFails`), the node `tools`, and an event at each end of a node
(`NodeCallback`). The calls of one answer run side by side (`ToolWorks`,
`ToolCallback`). `ToolNode(MODEL_TOOLS)` (agent.py:374) keeps LangGraph's default
for errors: a call whose arguments do not fit is started, then failed, and gets an
error message (`refused`); a call of an unknown tool gets one with no event at all
(`Dispatched`, `unknown`); after both the graph goes on (`ToolsReturn`). Anything
else a tool raises ends the node (`ToolsRaise`), and its neighbours go on.
`StreamLosesNothing` covers all three. `Poll`, `TextsDrained`, `EventsDrained` are
the poll loop, `DrainText` and `DrainEvent` its inner loops, which are suspended at
each yield so that more may arrive; `Await`, `LastTexts`, `Close` the end of a
successful graph, `Apologise` that of a failed one. `Excuses` are the `except`
clauses of `run`. `NextTurn` is the host, which sends the history back with its next
query; `Serialize` is why a tool's result is not taken for one then.

A failed turn is still closed with the event `run.completed`: the code has it
so, and no document says otherwise. README.md 135-147 describes a planner, four
pillars and a synthesizer, which the code no longer has; the graph is modelled
as agent.py builds it.

### ActivityEmitter

`emit` has no lock. `Count` is line 92, `Reserve` one round of the loop in
`_unique_event_id`, `Number` line 101, `Put` the hand-over to the queue, which
the host receives in order. CPython switches threads at calls and backward
jumps, and these separate the four; within each there is none.

## 3. What is checked

The runs of the cache check deadlock. The others do not: the bounds on commits,
operations and time stop `MutationPublication`, `PreparedActions` and
`Onboarding`, the bound on turns stops `ChatStream`, and `ActivityEmitter` is over
when the tools are.

| Run | Instance | Shows |
|---|---|---|
| `publication_requests` | 2 requests, 1 appended transaction, a month's end, at most 4 commits | `StalePlanNeverPublished`, `SteadyLedgerValid`, `PushesSurvive`, `RepublishedOnlyIfRestored`, `BoundActionPublishedOnce`, and the refinement `PublicationIsAtomic` |
| `publication_plans` | 1 request at a time, 2 actions from a deletion, a closing and a change set, 2 accounts, a month's end and expiry, at most 3 commits | `TypeOK`, `PublishedAsReviewed`, `FailedReplayUndone` |
| `publication_rollover` | 1 request, a month's end | **violated**: `PublishedLedgerValid` |
| `publication_duplicate` | 1 request, 4 commits | **violated**: `PublishedAtMostOnce` |
| `change_sets` | 5 ledgers of 3 files, 8 kinds of operation, an account out of the conversation's scope, up to 2 in a set, 2 users, 2 branches, 2 layouts, 1 push of the user | `TypeOK`, `EditsWhatItNamed`, `PositionsFollow`, `FactsNameTheBase`, `AdjustmentHitsTarget`, `AppliedAsApproved`, `PolicyHoldsWhenPublished` |
| `change_sets_closed` | the same | **violated**: `ClosedEmpty` |
| `onboarding_setup` | 2 clients, 8 setups, 5 repositories of 6 paths, 1 foreign push before the setup and others after it | `TypeOK`, `PublishedAsPreviewed`, `SetupIsReady`, `AnswersAreTrue`, `PolicyIsExact`, `DiscoveryIsSound` |
| `cache_shared` | 2 processes, 1 file beside the git directory, 2 revisions, TTL 1, 1 crash, fairness | `TypeOK`, `OneWriter`, `CopyIsRecent`, `JamsAge`, `WaitsEnd`, `JamsHeal` |
| `cache_torn` | 2 processes | **violated**: `CopyIsOneRevision` |
| `cache_unlinked` | 2 processes, TTL 0 | **violated**: `OneWriter` |
| `chat_turns` | 2 turns, 2 tool calls between them that return, are refused, unknown or raise, text in the first turn, fairness | `TypeOK`, `NothingLost`, `HistoryIsLast`, `HistoryIsWhole`, `AsksForThisTurn`, `AwaitingIffAsked`, `ToolsHaveWorkspace`, `StreamEnds` |
| `activity_events` | 2 runs of one tool | `TypeOK`, `IdsDiffer`, `RunsInOrder` |

**The five violations** are behaviours of the code that contradict its own
documentation; `PROJECT.json` quotes both sides.

1. *A month that ends during a replay.* The executor fixes the write set first
   and `ensure_sidecar` asks the calendar again for each operation. The replay
   then writes a file that was not captured; bean-check passes on the workspace,
   but the commit lacks that file.
2. *A second publication.* A push whose answer is lost is reported as
   retryable. If the sealed files were restored before the retry, it publishes
   again on the host's route. On the runtime's route the named commit prevents
   it (`BoundActionPublishedOnce`, proved).
3. *A torn copy.* The cache is copied after its lock has been given back. In the
   run one request has copied the git directory at the first revision when
   another pulls the second, and it copies the files of that.
4. *An unlinked lock.* With TTL 0 a starting process deletes lock files in use.
   With any other TTL the lock excludes (`LockExcludes`, proved).
   The same sweep, with a positive TTL, deletes an entry that was refreshed
   after it was judged.
5. *A closed account that is not empty.* The handler checks on the draft that the
   account is empty on its closing day. A later operation of the same set may
   post to it on or before that day: the order of a set is not the order of
   dates. The facts are then captured on the base, where the account is empty,
   bean-check accepts the ledger, and the review says that the balance is zero.

**Seen while reading the code**, each at its lines, and not the subject of a run:

- Activity numbers may be shared by two events or queued out of order
  (activity.py:92-101), although the docstring at :65 speaks of a gap-free order.
  Ids stay unique and each tool's own events in order (both proved).
- Installing over a sidecar that exists but is not formatted commits its
  reformatting, which the planned changes do not list (setup.py:152-153, 198,
  286). `PublishedAsPreviewed` therefore leaves layout aside. An include inside a
  comment counts as configured (setup.py:226), and a confirmation retried after
  its answer was lost is told `GIT_COMMIT_FAILED`.
- An update edits the first place where the text it replaces stands
  (sidecar.py:125-128, runtime_references.py:78). That may be another copy of the
  transaction than the one named, or the beginning of a longer one, with a
  comment or metadata below: then the new text is put in front of these, and the
  transaction that was named stays. What the ledger posts is changed as if the
  named one had been replaced, which is what `EditsWhatItNamed` says by counting
  it; but comments and metadata end up at another transaction.
- The policy expands a wildcard in the last part of an include only
  (plugin_policy.py:37-42). `include "sub*/x.beancount"` is nothing to it, while
  the loader opens the file, plugins and all; so does `include"x"`, with no blank,
  which the policy's expression does not match (line 19; left out of the model).
  `PolicyIsExact` says of an accepted ledger that a plugin the loader meets lies in
  one that has such a line (`Overlooks`).
- `replace` drops the newline after the text. An update directly followed by
  another line glues the two, and the draft no longer parses, so the operation
  after it or the dry run fails.
- A change set of the runtime always has the type `change_set`, so that deletions
  and closings in it have the normal risk (contracts.py:34-64), while the same
  operation prepared by the host is of type `delete_transaction` and needs a
  review. Its review also omits the sidecar's main file from `target_files` when
  an `open` edits it (runtime.py:757-765).
- The host's route does not look at the binding of a runtime action.
- The month whose file a sealed append goes to is not sealed, only the set of
  paths (targets.py:32, executor.py:64-72). A plan that appends and also edits
  files of two months has the same paths in both, so after a month's end it is
  published with the new directive in the other month's file than the review
  showed. `PublishedAsReviewed` leaves these plans out (`PathsTellMonth`).
- A rebalance on a day that has two assertions for the account is adjusted to
  the first it finds (reconciliation.py:169-193); if they differ bean-check
  rejects the draft. `AdjustmentHitsTarget` therefore asks that the balance is one
  of them, and the only one after a reconciliation.
- An entry that a setup initializes need not be one discovery finds: its path may
  not end in `.beancount`, or lie in an `agent_inc` directory with its sidecar
  outside. `SetupIsReady` says so (`Discoverable`).
- Failures to index a draft that does not parse, or to read a fact, are raised
  past the handlers of `prepare` and reach the caller as `INTERNAL_ERROR`
  (facts.py:357); the preview and confirm handlers do not catch a busy cache
  (operations/onboarding.py:109, 151).

**Bounds.** Two requests are the least that race, and a request's steps do not
depend on how many others there are. Four commits are an initial one, a
publication, a restoration and a second publication: the shortest history in
which anything is published twice. Two months are one rollover. Two actions are
the least in which one action's publication makes the other stale.
Two operations are the least in which one moves, removes or glues the text
another one names; the five ledgers have equal transactions apart, equal ones
side by side with a comment and metadata, one that the text of another is the
beginning of, a file without a last newline, and an assertion that holds or
does not. One push between sealing and applying is enough to make a
fact stale; three revisions are a base, that push and the publication. Two
branches can stand at one revision, which is what tells the branch in the
binding from the revision. Two clients are the least of which one is overtaken;
the five repositories are empty, unclean without a ledger, one with two tied
candidates, one whose include graph is as large as the policy's bound of 3
(`MaxFiles`), and one with wildcards in both places, a barred path, a plugin only
the loader finds and one bulky file more than the policy's bound (`MaxBulky` is 1).
Parts are deleted and copied one at a time, and a file and the git directory are
two parts, the least that can be torn. Two tool calls are the least that overlap
and two turns the least in which history comes back. TTL 1 or 2 distinguishes
fresh, ageing and expired. Symmetry is used where requests, actions, users,
layouts, clients or files are interchangeable and no liveness property is
checked. `Seen` leaves the last answer out of the fingerprint of
`PreparedActions`, since no guard reads it.

**Fairness.** `chat_turns` assumes that the event loop and the worker threads are
scheduled, that the model answers or its client gives up, and that every tool
returns or raises: the tools call local commands, and the HTTP client of the
model has a timeout. `cache_shared` assumes `StepsAreTaken`: a process
that is scheduled takes its local steps. git commands that talk to the remote
get no fairness, since `_run_git` sets no timeout; so `WaitsEnd` holds although
the holder may hang for ever, because of the lock's own timeout of 30 seconds.
`JamsHeal` additionally assumes (as its premise `Served`) that requests keep
coming and that a fetch which is possible again and again succeeds in the end.

## 4. What is proved

For every value of the constants, from the named assumptions on them alone:

| Module | Theorems (and the property of a run they state) |
|---|---|
| `MutationPublicationProofs` | `TypeCorrect`, `NoStalePlanIsPublished`, `NoPushIsUndone`, `BoundActionsArePublishedOnce`, `CalmLedgersAreValid` (`SteadyLedgerValid`), `FailuresAreUndone` (`FailedReplayUndone`), `RetriesDoNotPublish` (`RepublishedOnlyIfRestored`), `WhatIsReviewedIsPublished` (`PublishedAsReviewed`), and `PublicationRefines`: the protocol implements `ApprovedPublication` |
| `LedgerEditProofs` | `EditSound`, `EditedCopies`, `EditTracks`, `PolicyCarries`: what an edit does to a ledger |
| `PreparedActionsProofs` | `FactsAreOfTheBase`, `PublishedAsApproved`, `SplicesKeepDirectives` (`TypeOK`), `NamedIsEdited` (`EditsWhatItNamed`), `ReferencesAreFollowed` (`PositionsFollow`), `ReconciliationsHit` (`AdjustmentHitsTarget`), `PolicyHolds` (`PolicyHoldsWhenPublished`) |
| `WorkspaceCacheProofs` | `CacheTypes`, `LockExcludes`, `JammedEntriesAge`, `WorkspacesAreRecent` |
| `OnboardingProofs` | `SetupTypes`, `SetupsAreAsPreviewed`, `ClientsAreToldTheTruth`, `SetupsMakeReady` (`SetupIsReady`), `ThePolicyIsExact`, `DiscoveryPicksTheBest` (`DiscoveryIsSound`) |
| `ChatStreamProofs` | `StreamTypes`, `WorkspaceOutlivesTools`, `UnknownToolsAreSilent`, `StreamLosesNothing`, `StreamEndsWithHistory`, `HistoryComesBackWhole`, `ApprovalsAreOfThisTurn`, `WaitsIffItAsked` |
| `ActivityEmitterProofs` | `IdsAreUnique`, `EachRunIsInOrder`, `EmitterTypes` |

Every safety property that a passing run checks is stated by one of these.

**What is assumed of the constants** is in the ASSUMEs beside them, which TLC
evaluates in the runs. Most say what a constant is. Three carry weight: a month
lasts at least as long as an action stays valid (`PublicationAssumption`; actions
expire after 30 minutes, contracts.py:11, 144); the ledgers a repository starts
with hold whole directives (`RequestsAssumption`); the paths of a repository and
the tool calls of a conversation are finitely many.

*Publication.* `TypeOK` is not inductive: that a replay leaves a tree depends on
which step it is at and on the file that `ensure_sidecar` has just made
(`ControlOK`). `StalePlanNeverPublished` speaks of commits only, so the
invariant adds `RequestOK`, what a request has established at each phase about
`base`, `ws` and the seal (it is the copy it was opened on until the replay
begins; the seal's preconditions held on that revision from the check on), and
`CommitOK`, what remains of it in a commit. A push that lands has
`base[w] = Tip`, which is what turns "held when it was checked" into "holds at
the head". For the ledgers' validity `CalmInv` adds that a steady request's
workspace differs from its base in captured files only; hence the tree that is
committed is the workspace that bean-check passed (`CalmCommitTree`), and
restoring the captured files restores the revision (`CalmRestores`).
`StepKinds` splits `Next` into the three kinds of step the abstract
specification knows.

*Retries and reviews.* That a retry does not publish again is not a matter of two
commits: what is between them counts. `RetryInv` says that an agent's commit
leaves a ledger its seal does not fit any more, or was made when the seal was out
of date (`UsesUp`), and that a seal that is out of date stays so. The second
holds because at most one month begins while an action is valid (`SealTime`):
once the calendar has left the sealed write set it cannot come back to it in
time. `ReviewInv` compares a replay with the dry run, which is the
recursive function `Rehearsal`; the proof shows that iterating an operation is what
it does (`RehearsalIs`) and follows a request along its trees on the sealed
files (`AsIn`). TLC showed that this fails for the plans `PathsTellMonth` leaves out.

*Edits.* `LedgerEditProofs` knows no state. A ledger is *sound* if each file is
whole unless it is visibly torn, and sound ledgers stay sound: wherever the
characters of a text are found, a header and its postings stand there, perhaps
with the comment that makes the transaction a longer one (`OccursStruck`), so an
edit takes out or puts in headers with their postings at places between others, or
glues two lines for good. From that follow the number of copies of each directive,
its comments and metadata aside (`EditedCopies`:
one less of the text that was named, one more of what was written) and where the
lines have gone (`EditTracks`: those above a splice stay, those below move by its
growth), and that a replay of a list of edits has one result at most. Balances
are sums over finite sets of transactions, to which an append adds one part.
`PolicyCarries` is the lemma behind semantic facts: an operation that was allowed
on one ledger, whose facts read the same on another, where its edit leads to a
ledger that passes bean-check, is allowed there.

*Change sets.* `FactsNameTheBase` speaks of sealed actions only. `FactsInv` adds
what a draft has recorded: its revision exists, every reference its caller gave
stands for its text there (`StandsFor`, which a base's index decides for one
reference at most, `RefsDiffer`), and the question about it has been recorded
under the caller's reference and not the draft's. The step that matters is
`Take`: it may replace the references of earlier questions by what they came
from, and must leave those that already are the caller's. `PublishedAsApproved`
needs only that the age of an action is a number. `EditsInv` and `PositionsInv`
add that drafts are sound (in `Typed`) and say their part of drafts that parse;
no later operation repairs one that does not.
`PolicyInv` follows one operation from its draft (`DraftRests`: the first
operation was allowed on the base, and its questions are recorded there) through
the sealed action (`ActionRests`: allowed on its revision, the answers sealed) to
what was published (`ReceiptHolds`); the last step is `PolicyCarries`.

*Cache.* `LockExcludes` rests on `LockOK`: whoever is inside the with-block holds
the lock file, which a sweep unlinks only with TTL 0. `JammedEntriesAge` rests on
`JamOK`: once past its fetch, a request has an entry that is not jammed, and the
lock keeps it so; the time stamp is only written then. `WorkspacesAreRecent` needs
that what is checked out was fetched after the request came in (`DueOK`,
`PlacedOK`), that no part is older than the commit the git directory is at
(`AheadOK`: a pull that finds nothing new leaves files as they are), and that
afterwards the entry gets newer or is gone (`RecentOK`), also under the hands of the
requests and sweeps that follow while it is being copied.

*Onboarding.* Both `PublishedAsPreviewed` and `AnswersAreTrue` speak of what is on
the branch; the invariant follows it back to the preview. What a client was shown
is still the preview of the revision it names, because the branch only grows
(`ShownOK`); a confirmation works on that very revision, and its copy is as far
as its phase says (`WorkOK`), so that its push makes what `AppliedAsListed` says
the preview lists: formatting changes no text. A client that is confirming has
landed nothing since its copy was made (`LateOK`), which is why a refusal is
true. `ReadyInv` adds that a copy past bean-check has passed it as it was made,
and that formatting changes nothing the loader reads.

The policy's walk is a recursive function over a queue. It is sound because of
what is true at each step (`WalkOK`: what was read is not rejected, and what it
follows is read or queued), so that a walk that empties its queue has read
everything it could follow; it is complete because a measure decreases (`Left`), so
that a walk ends, and it can only end early at a rejected line or at its bound.
Neither argument uses that the include graph has no cycles. The loader's graph is
another one; without a wildcard in a directory part every file it finds is one the
policy walked (`LoadedIsWalked`). What discovery
proposes has the highest confidence among finitely many candidates.

*Chat stream.* The phase of the request handler tells whether the workspace is
there and how far the graph can be (`PhaseOK`), the state of the graph which
calls may be at work (`CallsOK`): the handler leaves the poll loop only when the
graph has ended, and a graph that has ended without raising has no call left.
`StreamOK` says of the wire and of what is still to be sent together what the
properties say of the wire of a turn that is over. `ScriptOK`, `WireOK`, `HeldOK`
and `EndOK`: which chunks can be in the handler's list, on the wire and held back
in each phase, and where the end mark is. `CountOK` and `OrderOK`: every piece of
text is on the wire or in its queue, and so are both events of a call that has
returned or refused its arguments, the start ahead of the end. `Unheard`: nothing
is heard of a call that is not made yet or that names no tool
(`UnknownToolsAreSilent`). `SaidOK` and `HistOK`: an exchange names
tool calls that have returned, each once, and ends with the model's answer, and
every history chunk holds the host's messages or those and the whole exchange.
`AskOK` and `ApproveOK`: the content, the approvals and the closing status of a
turn come from one set of prepared calls, and no call is asked for twice.

*Emitter.* A reserved id belongs to one event from the reservation on, and a run
which builds its end has counted since it queued its start.

**Only model-checked**: liveness (`JamsHeal`, `WaitsEnd`, `StreamEnds`), which
rests on fairness and so on ENABLED, out of the prover's reach; and the five
violations, which are counterexamples.

The library's induction theorems take an operator as a parameter, which none of
the provers instantiates. Where a proof needs induction it is done over a set of
numbers that is shown to be all of them (`Induction` in `DataLemmas`), and a
recursive function is used through its defining equation.

## 5. Plan

1. (done) publication, its refinement and its proofs; the cache and its proofs.
2. (done) `ChatStream` and `ActivityEmitter`, with proofs about the emitter.
3. (done) `Onboarding`, with discovery and the plugin policy.
4. (done) transaction references, reconciliation, the handlers' policies, change
   sets, the approval contract and the runtime's `prepare`.
5. (done) proofs about onboarding and the chat stream.
6. (done) proofs of every safety property that a run checks.
7. Left: directives that share lines; the omission of attachment output from a
   turn's history; the two readings of the calendar inside one preparation.

## 6. What is not modelled, and why

Text (formatting, diffs, prompts, localisation), the LLM itself, credentials and
askpass scripts, tracing, HTTP argument validation, uploads, the tools' schemas
(each delegates to a service that is modelled where it changes state), the
legacy `ledger/` package, `transaction_locator.py` and `services/ledger.py`
(façades over the services), and the benchmark client: they keep no state that
several parties share. The text context assembled by `preflight_context.py` is
read by the model only. Digests are taken to detect every difference. Except in
`PreparedActions` a repository has one branch.
