--------------------------- MODULE PreparedActions ---------------------------
(***************************************************************************)
(* From the operations a caller names to a sealed pending action, and from *)
(* the approved action to a published revision.                            *)
(*                                                                         *)
(* The private runtime builds a change set one operation at a time on a    *)
(* draft: every operation is checked against the draft, the references the *)
(* caller read on the base revision are followed through it, and the facts *)
(* are taken again on the base.  The conversation prepares one operation,  *)
(* or a set of openings and transactions, straight on the checkout.  The   *)
(* two also apply what they sealed in different ways: the runtime by the   *)
(* binding inside the action, the host by an approval proof.               *)
(*                                                                         *)
(* Applying is one step here; how the checkout, the files and the push of  *)
(* concurrent requests interleave is the subject of MutationPublication.   *)
(***************************************************************************)
EXTENDS MutationHandlers

CONSTANTS
    User, Branch, Layout,
    MainBranch,        \* the branch the conversation and the host work on
    EntryPath,         \* a file only the user writes
    Initial,           \* the ledgers the repository may start with
    Requests,          \* operations that name no transaction
    NewText,           \* what an update writes
    Pushed,            \* directives the user adds to the entry file
    TTL,               \* steps of time until an action expires
    ManyTransactions,  \* a batch of this size is of high risk
    MaxOps, MaxPushes, MaxRevs    \* bounds

\* No header is torn from its postings: the first line of each directive is
\* followed by the others, no other of its lines stands alone, and no two lines
\* have run together.  Empty lines, comments and metadata stand anywhere between.
Whole(lines) ==
    \A k \in DOMAIN lines :
        LET says == lines[k][1]
            i    == lines[k][2]
        IN  \/ lines[k] \in Loose
            \/ /\ i \in 1 .. Height(says)
               /\ i > 1 => k > 1 /\ lines[k - 1] = <<says, i - 1>>
               /\ i < Height(says) => k < Len(lines) /\ lines[k + 1] = <<says, i + 1>>

ASSUME RequestsAssumption ==
    /\ Initial \subseteq {ledger \in Ledger : \A p \in Path : Whole(ledger[p].lines)}
    /\ Requests \subseteq Request
    /\ NewText \subseteq Transaction
    /\ Pushed \subseteq Directive
    /\ EntryPath \in Path
    /\ MainBranch \in Branch
    /\ TTL \in Nat /\ MaxOps \in Nat

VARIABLES
    history,   \* the ledgers of the revisions, in the order they were made
    head,      \* the revision each branch is at
    draft,     \* the change set being built, if any
    action,    \* the pending action, if any
    age,       \* time since it was sealed
    receipt,   \* what was published last, if anything
    answer     \* the last answer to a caller

vars == <<history, head, draft, action, age, receipt, answer>>

LedgerAt(branch) == history[head[branch]]

\* What search and lookup have shown of the revisions so far: a reference and
\* the text, by its fingerprint, that stood there.
Shown ==
    UNION {{[ref |-> e.ref, text |-> e.text] : e \in IndexOf(history[rev])} :
        rev \in {r \in DOMAIN history : BeanCheck(history[r])}}

\* The operations a caller may ask for.
Asked ==
    Requests
        \cup {[kind |-> "delete", ref |-> s.ref, text |-> s.text] : s \in Shown}
        \cup {[kind |-> "update", ref |-> x[1].ref, text |-> x[1].text, new |-> x[2]] :
                x \in Shown \X NewText}

Init ==
    /\ history \in {<<ledger>> : ledger \in Initial}
    /\ head = [b \in Branch |-> 1]
    /\ draft = {}
    /\ action = {}
    /\ age = 0
    /\ receipt = {}
    /\ answer = "none"

-----------------------------------------------------------------------------
(* The runtime: a change set on a draft.                                   *)

Begin(user, branch, layout) ==
    /\ draft = {} /\ action = {}
    /\ BeanCheck(LedgerAt(branch))
    /\ draft' = {[owner |-> user, branch |-> branch, layout |-> layout,
                  rev |-> head[branch], ledger |-> LedgerAt(branch),
                  positions |-> Positions(IndexOf(LedgerAt(branch))),
                  names |-> <<>>, asked |-> <<>>, edits |-> <<>>, questions |-> {}]}
    /\ UNCHANGED <<history, head, action, age, receipt, answer>>

\* The transaction of the draft that the reference has become.
Matches(d, op) ==
    {e \in IndexOf(d.ledger) :
        /\ e.ref.path = op.ref.path
        /\ e.ref.start = d.positions[op.ref].start
        /\ e.text = op.text}

\* RuntimeTransactionBindings.rebase, and how it may fail.
RebaseCode(d, op) ==
    LET base     == IndexOf(history[d.rev])
        original == Resolves(base, op.ref)
    IN  CASE ~NamesTransaction(op)                   -> "ok"
          [] original = {}                           -> RefCode(base, op.ref)
          [] \A e \in original : e.text # op.text    -> "stale"
          [] op.ref \notin DOMAIN d.positions        -> "stale"
          [] ~BeanCheck(d.ledger)                    -> "internal"
          [] Cardinality(Matches(d, op)) # 1         -> "stale"
          [] OTHER                                   -> "ok"

Rebased(d, op) ==
    IF NamesTransaction(op)
    THEN [op EXCEPT !.ref = (CHOOSE e \in Matches(d, op) : TRUE).ref]
    ELSE op

\* The reference a transaction of the draft has is noted with the caller's.
Noted(names, current, ref) ==
    [x \in DOMAIN names \cup {current} |-> IF x = current THEN ref ELSE names[x]]

\* mutant: the facts keep the references of the draft
DraftQuestions(names, questions) == questions

\* The facts of a draft reference are those of the reference it came from.
OriginalQuestions(names, questions) ==
    {IF q.kind = "transaction_revision" /\ q.subject.ref \in DOMAIN names
     THEN AboutRevision(names[q.subject.ref]) ELSE q : q \in questions}

\* Where the tracked transactions are once an edit turned one draft into another.
Followed(positions, edit, before, after) ==
    LET delta(p) == Len(after[p].lines) - Len(before[p].lines)
        splice(p, first) ==
            ShiftedAfter(positions, p, first, first + Size(edit.old) - 1, delta(p))
    IN  CASE edit.kind = "replace" ->
                splice(edit.path, FirstOf(Occurrences(before[edit.path], edit.old)))
          [] edit.kind = "delete" -> splice(edit.path, edit.start)
          [] IsAppend(edit) /\ ~before[MonthPath].ended ->
                LET end == Len(before[MonthPath].lines)
                IN  ShiftedAfter(positions, MonthPath, end, end, delta(MonthPath))
          [] OTHER -> positions

\* One operation: rebased, checked on the draft, made in the draft.
Take(d, op) ==
    LET here  == Rebased(d, op)
        edit  == EditOf(d.ledger, here)
        after == Edited(d.ledger, edit)
        names == IF NamesTransaction(op) THEN Noted(d.names, here.ref, op.ref) ELSE d.names
    IN  /\ Len(d.asked) < MaxOps
        /\ RebaseCode(d, op) = "ok"
        /\ Allowed(d.ledger, here)
        /\ draft' = {[d EXCEPT
              !.ledger    = after,
              !.positions = Followed(@, edit, d.ledger, after),
              !.names     = names,
              !.asked     = Append(@, op),
              !.edits     = Append(@, edit),
              !.questions = @ \cup OriginalQuestions(names, QuestionsOf(here))]}
        /\ UNCHANGED <<history, head, action, age, receipt, answer>>

\* The operation fails and the whole change set with it.
Refuse(d, op) ==
    LET code == RebaseCode(d, op)
    IN  /\ Len(d.asked) < MaxOps
        /\ code = "ok" => ~Allowed(d.ledger, Rebased(d, op))
        /\ draft' = {}
        /\ answer' = IF code # "ok" THEN code ELSE "policy"
        /\ UNCHANGED <<history, head, action, age, receipt>>

-----------------------------------------------------------------------------
(* Sealing.                                                                *)

ReadingsOf(ledger, questions) ==
    {Fact(q, CHOOSE v \in Reading(ledger, q) : TRUE) :
        q \in {x \in questions : Reading(ledger, x) # {}}}

\* The dry run: the plan replayed on a copy of the checkout and checked.
Validates(ledger, edits) ==
    \E after \in Replayed(ledger, edits) : BeanCheck(after)

Sealed(type, edits, facts, rev, owner, branch, layout, batch, asked, bound) ==
    [type |-> type, edits |-> edits, facts |-> facts, rev |-> rev, owner |-> owner,
     branch |-> branch, layout |-> layout, asked |-> asked, bound |-> bound,
     risk |-> Risk(type, batch, ManyTransactions)]

\* capture_semantic_read_set: every fact has to be readable on the base.
Capturable(d) == \A q \in d.questions : Reading(history[d.rev], q) # {}

Seal(d) ==
    LET base == history[d.rev]
    IN  /\ d.asked # <<>>
        /\ Capturable(d)
        /\ Validates(base, d.edits)
        /\ action' = {Sealed("change_set", d.edits, ReadingsOf(base, d.questions), d.rev,
                             d.owner, d.branch, d.layout, 0, d.asked, TRUE)}
        /\ draft' = {}
        /\ age' = 0
        /\ answer' = "approval_required"
        /\ UNCHANGED <<history, head, receipt>>

SealFails(d) ==
    /\ d.asked # <<>>
    /\ ~(Capturable(d) /\ Validates(history[d.rev], d.edits))
    /\ draft' = {}
    /\ answer' = IF Capturable(d) THEN "validation_failed" ELSE "internal"
    /\ UNCHANGED <<history, head, action, age, receipt>>

TypeOfAction(op) ==
    CASE op.kind = "create" -> IF Len(op.txns) = 1 THEN "commit_transaction" ELSE "bulk_commit"
      [] op.kind = "update" -> "update_transaction"
      [] op.kind = "delete" -> "delete_transaction"
      [] op.kind = "open"   -> "open_account"
      [] op.kind = "close"  -> "close_account"
      [] op.kind = "price"  -> "record_price"
      [] op.kind \in {"reconcile", "rebalance"} -> "balance_reconciliation"

BatchOf(op) == IF op.kind = "create" THEN Len(op.txns) ELSE 0

\* _prepare_registered: one operation, or one plan of several, on the checkout.
PrepareOnCheckout(user, layout, type, ops, allowed, batch) ==
    LET base      == LedgerAt(MainBranch)
        edits     == [i \in DOMAIN ops |-> EditOf(base, ops[i])]
        questions == UNION {QuestionsOf(ops[i]) : i \in DOMAIN ops}
    IN  /\ draft = {} /\ action = {}
        /\ IF allowed /\ Validates(base, edits)
           THEN /\ action' = {Sealed(type, edits, ReadingsOf(base, questions), head[MainBranch],
                                     user, MainBranch, layout, batch, ops, FALSE)}
                /\ answer' = "approval_required"
           ELSE /\ action' = {}
                /\ answer' = IF allowed THEN "validation_failed" ELSE "policy"
        /\ age' = 0
        /\ UNCHANGED <<history, head, draft, receipt>>

PrepareOne(user, layout, op) ==
    PrepareOnCheckout(user, layout, TypeOfAction(op), <<op>>,
                      Allowed(LedgerAt(MainBranch), op), BatchOf(op))

\* A set of one transaction is prepared as that transaction.
TypeOfSet(ops) ==
    IF Len(ops) = 1 /\ ops[1].kind = "create" THEN "commit_transaction" ELSE "change_set"

PrepareSet(user, layout, ops) ==
    PrepareOnCheckout(user, layout, TypeOfSet(ops), ops,
                      ChangeSetAllowed(LedgerAt(MainBranch), ops),
                      Cardinality({i \in DOMAIN ops : ops[i].kind = "create"}))

-----------------------------------------------------------------------------
(* The world.                                                              *)

\* A commit on a branch; branches that stood at one revision part there.
Commit(branch, ledger) ==
    /\ Len(history) < MaxRevs
    /\ history' = Append(history, ledger)
    /\ head' = [head EXCEPT ![branch] = Len(history) + 1]

\* A comment below a transaction and all that belongs to it.
Annotated(file, k) ==
    LET end == EndOf(file, k)
    IN  [file EXCEPT !.lines = SubSeq(@, 1, end) \o <<Note>> \o SubSeq(@, end + 1, Len(@))]

\* While an action is pending the user adds a directive to its branch,
\* annotates a transaction or removes one.
Push(branch) ==
    /\ \E a \in action : a.branch = branch
    /\ receipt = {} /\ Len(history) <= MaxPushes
    /\ \/ \E says \in Pushed :
            Commit(branch, [LedgerAt(branch) EXCEPT ![EntryPath] = Appended(@, TextOf(<<says>>))])
       \/ \E e \in Transactions(LedgerAt(branch)) :
            LET file == LedgerAt(branch)[e.path]
                text == TextAt(file, e.line)
            IN  \/ Commit(branch, [LedgerAt(branch) EXCEPT ![e.path] = Deleted(@, text, e.line)])
                \/ /\ Note \notin ToSet(text.tail)
                   /\ Commit(branch, [LedgerAt(branch) EXCEPT ![e.path] = Annotated(@, e.line)])
    /\ UNCHANGED <<draft, action, age, receipt, answer>>

Tick ==
    /\ action # {} /\ age < TTL
    /\ age' = age + 1
    /\ UNCHANGED <<history, head, draft, action, receipt, answer>>

-----------------------------------------------------------------------------
(* Applying an approved action.                                            *)

Expired == age >= TTL

FilesHold(a, ledger) ==
    \A p \in WriteTargets(a.edits) : ledger[p] = history[a.rev][p]

PreconditionsHold(a, ledger) ==
    FilesHold(a, ledger) /\ SemanticFactsHold(ledger, a.facts)

\* MutationExecutor.apply_and_publish, in one step on a whole copy of the branch.
\* The push lands, or lands and the answer is lost, or is refused.
Execute(a, branch, request) ==
    LET ledger == LedgerAt(branch)
        after  == Replayed(ledger, a.edits)
        sound  == PreconditionsHold(a, ledger) /\ Validates(ledger, a.edits)
    IN  \/ /\ sound
           /\ \E l \in after : Commit(branch, l)
           /\ receipt' = {[action |-> a, request |-> request, age |-> age,
                           before |-> head[branch], after |-> Len(history) + 1]}
           /\ answer' \in {"published", "conflict"}
        \/ /\ answer' = IF sound THEN "conflict"
                        ELSE IF PreconditionsHold(a, ledger) THEN "validation_failed"
                        ELSE "precondition"
           /\ UNCHANGED <<history, head, receipt>>

\* mutant: the owner and the revision are compared, not the branch
BoundToRevision(a, request) ==
    /\ a.bound /\ a.owner = request.user /\ a.rev = request.rev /\ a.layout = request.layout

Bound(a, request) ==
    /\ a.bound
    /\ a.owner = request.user
    /\ a.branch = request.branch
    /\ a.rev = request.rev
    /\ a.layout = request.layout

\* _apply_sealed
ApplySealed(a, user, branch, layout, rev) ==
    LET request == [route |-> "runtime", user |-> user, branch |-> branch, layout |-> layout,
                    rev |-> rev, proof |-> "none"]
        refused(code) == answer' = code /\ UNCHANGED <<history, head, receipt>>
    IN  /\ draft = {}
        /\ IF Expired THEN refused("integrity")
           ELSE IF ~Bound(a, request) THEN refused("binding")
           ELSE IF head[branch] # a.rev THEN refused("concurrent")
           ELSE Execute(a, branch, request)
        /\ UNCHANGED <<draft, action, age>>

NeedsReview(a) == a.type = "delete_transaction" \/ a.risk = "high"

\* A proof names one action and the digests of what it holds.  The gateway
\* always asks for one, the endpoint for actions that need a review.
ProofHolds(a, route, proof) ==
    \/ proof = "this"
    \/ proof = "none" /\ route = "http" /\ ~NeedsReview(a)

\* apply_pending_action, through the endpoint or the gateway.  Another layout
\* has other write targets.
ApplyApproved(a, user, layout, route, proof) ==
    LET request == [route |-> route, user |-> user, branch |-> MainBranch, layout |-> layout,
                    rev |-> head[MainBranch], proof |-> proof]
        refused(code) == answer' = code /\ UNCHANGED <<history, head, receipt>>
    IN  /\ draft = {}
        /\ IF Expired \/ ~ProofHolds(a, route, proof) \/ layout # a.layout
           THEN refused("integrity")
           ELSE Execute(a, MainBranch, request)
        /\ UNCHANGED <<draft, action, age>>

Routes == {"http", "gateway"}
Proofs == {"none", "this", "other"}

Next ==
    \/ \E u \in User, b \in Branch, y \in Layout : Begin(u, b, y)
    \/ \E d \in draft : \E op \in Asked : Take(d, op) \/ Refuse(d, op)
    \/ \E d \in draft : Seal(d) \/ SealFails(d)
    \/ \E u \in User, y \in Layout, op \in Asked : PrepareOne(u, y, op)
    \/ \E u \in User, y \in Layout, n \in 1 .. MaxOps :
            \E ops \in [1 .. n -> Requests] : PrepareSet(u, y, ops)
    \/ \E b \in Branch : Push(b)
    \/ Tick
    \/ \E a \in action, u \in User, b \in Branch, y \in Layout, rev \in DOMAIN history :
            ApplySealed(a, u, b, y, rev)
    \/ \E a \in action, u \in User, y \in Layout, route \in Routes, proof \in Proofs :
            ApplyApproved(a, u, y, route, proof)

Spec == Init /\ [][Next]_vars

-----------------------------------------------------------------------------
(* Properties.                                                             *)

Answers ==
    {"none", "ok", "malformed", "not_found", "stale", "internal", "policy", "validation_failed",
     "approval_required", "integrity", "binding", "concurrent", "precondition", "published",
     "conflict"}

\* The state is well typed, and no operation tears a header from its postings in
\* a ledger that still parses, although the splices the store makes are made on
\* text: wherever one strikes, it takes a header and postings that belong
\* together, and it may leave the comments and metadata below them behind.
TypeOK ==
    /\ history \in Seq({ledger \in Ledger : \A p \in Path : Whole(ledger[p].lines)})
    /\ head \in [Branch -> DOMAIN history]
    /\ \A d \in draft :
          /\ d.ledger \in Ledger
          /\ Parses(d.ledger) => \A p \in Path : Whole(d.ledger[p].lines)
    /\ Cardinality(draft) + Cardinality(action) <= 1
    /\ \A a \in action : a.rev \in DOMAIN history /\ a.owner \in User
    /\ age \in 0 .. TTL
    /\ answer \in Answers

\* How often a directive stands in a ledger, and in a sequence of edits; the
\* comments and metadata of a transaction are not counted.
Copies(ledger, says) == Cardinality({e \in Placed(ledger) : Plain(e.says) = says})

IndicesOf(seq, Holds(_)) == {i \in DOMAIN seq : Holds(seq[i])}

Removed(ops, says) ==
    Cardinality(IndicesOf(ops, LAMBDA op :
        NamesTransaction(op) /\ Plain(op.text.directive) = says))

Written(edit) ==
    CASE IsAppend(edit)          -> edit.says
      [] edit.kind = "replace"   -> <<edit.new>>
      [] OTHER                   -> <<>>

Added(edits, says) ==
    Cardinality(UNION {{<<i, j>> : j \in IndicesOf(Written(edits[i]), LAMBDA d : Plain(d) = says)} :
        i \in DOMAIN edits})

\* A draft that parses posts what its operations say: of each transaction that a
\* reference named, by date, accounts and amount, one copy less than on the
\* revision it was made from, what was recorded or written in its place once
\* more, and of nothing else more or less.  An update may take another copy than
\* the one named, with other comments or metadata, but never another posting; the
\* references were read on the base, and by then earlier operations of the set
\* have moved or replaced the text they stand for.
EditsWhatItNamed ==
    \A d \in draft :
        Parses(d.ledger) =>
            LET base == history[d.rev]
            IN  \A says \in {Plain(e.says) : e \in Placed(base) \cup Placed(d.ledger)} :
                    Copies(d.ledger, says) =
                        Copies(base, says) - Removed(d.asked, says) + Added(d.edits, says)

\* A reference that is still followed through a draft leads to the text it had
\* when it was read, wherever the operations before have pushed it.
PositionsFollow ==
    \A d \in draft : Parses(d.ledger) =>
        \A ref \in DOMAIN d.positions :
            LET base == history[d.rev]
                k    == d.positions[ref].start
            IN  /\ k \in Headers(d.ledger[ref.path])
                /\ TextAt(d.ledger[ref.path], k) = TextAt(base[ref.path], ref.start)

\* The facts sealed with a change set are about the references its caller gave,
\* at the revision they were read, and not about the lines the transactions
\* had moved to when the operation was checked.
FactsNameTheBase ==
    \A a \in action : \A i \in DOMAIN a.asked :
        NamesTransaction(a.asked[i]) =>
            Fact(AboutRevision(a.asked[i].ref), [text |-> a.asked[i].text]) \in a.facts

\* A reconciliation brings the account to the observed balance: the assertion
\* it writes holds as soon as it is written, unless the other side of the
\* adjustment is below the account itself.
AdjustmentHitsTarget ==
    \A d \in draft :
        d.asked # <<>> /\ Last(d.asked).kind \in {"reconcile", "rebalance"} =>
            LET op   == Last(d.asked)
                date == IF op.kind = "reconcile" THEN AssertionDate(op) ELSE op.date
            IN  op.other \in Under[op.account]
                \/ LET total  == Total(d.ledger, Under[op.account], op.cur, date)
                       checks == Checkpoints(d.ledger, op.account, date, op.cur)
                   IN  total \in checks /\ (op.kind = "reconcile" => checks = {total})

\* What is published was sealed for that branch, layout and owner, on that very
\* revision when it goes through the runtime, in time; and what needs a review
\* has a proof of it when it goes through the host.
AppliedAsApproved ==
    \A r \in receipt :
        /\ r.age < TTL
        /\ r.request.layout = r.action.layout
        /\ r.request.route = "runtime" =>
              /\ r.request.user = r.action.owner
              /\ r.request.branch = r.action.branch
              /\ r.before = r.action.rev
        /\ r.request.route # "runtime" /\ NeedsReview(r.action) => r.request.proof = "this"

\* The policy an operation passed when it was prepared still holds of the
\* revision it is applied to, although the user may have pushed in between:
\* a price is the first of its day, an account that is closed is empty, and an
\* assertion is the only one of its day.
PolicyHoldsWhenPublished ==
    \A r \in receipt : \A i \in DOMAIN r.action.asked :
        Len(r.action.asked) = 1 =>
            LET op   == r.action.asked[i]
                base == history[r.before]
            IN  /\ op.kind = "price" => PriceAllowed(base, op)
                /\ op.kind = "close" => CloseAllowed(base, op)
                /\ op.kind = "reconcile" => ReconcileAllowed(base, op)
                /\ NamesTransaction(op) => NamesCurrentRevision(base, op)

\* What the review of an account closing says, that the account holds nothing
\* on the day it is closed.
ClosedEmpty ==
    \A r \in receipt : \A i \in DOMAIN r.action.asked :
        LET op == r.action.asked[i]
        IN  op.kind = "close" => Inventory(history[r.after], {op.account}, op.date + 1) = {}

=============================================================================
