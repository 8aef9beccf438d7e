----------------------- MODULE MutationPublicationProofs -----------------------
(***************************************************************************)
(* Theorems about MutationPublication, for every value of its constants:   *)
(* what holds of every interleaving of the requests; that a steady apply   *)
(* writes nothing but the files it captured, so that a failed one is       *)
(* undone completely and the protocol implements the atomic publication of *)
(* ApprovedPublication; that a retry does not publish again; and that what *)
(* is published is what was reviewed.                                      *)
(***************************************************************************)
EXTENDS MutationPublication, DataLemmas, FiniteSetTheorems, TLAPS

-----------------------------------------------------------------------------
(* What the operators of SidecarLedger preserve, for every value of its      *)
(* constants.                                                                *)

\* The user's entry file is none of the sidecar's files, and MainFile is one.
LEMMA PathFacts ==
    /\ Sidecar \subseteq Path
    /\ EntryFile \in Path
    /\ EntryFile \notin Sidecar
    /\ MainFile \in Sidecar
    /\ \A m \in Month : MonthFile(m) \in Sidecar /\ MonthFile(m) # MainFile
BY DEF Path, Sidecar, EntryFile, MainFile, MonthFile

\* Contents stay contents when a directive is added, or taken where it stands.
LEMMA PutTake ==
    ASSUME NEW content \in Content, NEW d \in Directive
    PROVE  /\ Put(content, d) \in Content
           /\ content[d] > 0 => Take(content, d) \in Content
BY DEF Put, Take, Content

LEMMA EmptyFileIsContent == EmptyFile \in Content
BY DEF EmptyFile, Content

\* A file that exists holds contents.
LEMMA FileIsContent ==
    ASSUME NEW tree \in Tree, NEW p \in Path, tree[p] # NoFile
    PROVE  tree[p] \in Content
BY DEF Tree, FileState

\* The file of a month is created if it is missing; no other path changes.
LEMMA EnsureMonthFileTree ==
    ASSUME NEW tree \in Tree, NEW m \in Month
    PROVE  /\ EnsureMonthFile(tree, m) \in Tree
           /\ EnsureMonthFile(tree, m)[MonthFile(m)] # NoFile
           /\ \A p \in Path \ {MonthFile(m)} : EnsureMonthFile(tree, m)[p] = tree[p]
<1>1. MonthFile(m) \in Path
  BY PathFacts
<1>2. EmptyFile \in FileState /\ EmptyFile # NoFile
  BY EmptyFileIsContent, NoFileAssumption DEF FileState
<1>3. QED
  BY <1>1, <1>2 DEF EnsureMonthFile, Tree

\* Main is created if it is missing and includes the month; no other path changes.
LEMMA EnsureIncludeTree ==
    ASSUME NEW tree \in Tree, NEW m \in Month
    PROVE  /\ EnsureInclude(tree, m) \in Tree
           /\ EnsureInclude(tree, m)[MainFile] # NoFile
           /\ \A p \in Path \ {MainFile} : EnsureInclude(tree, m)[p] = tree[p]
<1> DEFINE main == IF tree[MainFile] = NoFile THEN EmptyFile ELSE tree[MainFile]
           new  == IF main[IncludeOf(m)] = 0 THEN Put(main, IncludeOf(m)) ELSE main
<1>1. MainFile \in Path
  BY PathFacts
<1>2. main \in Content
  BY <1>1, EmptyFileIsContent, FileIsContent
<1>3. IncludeOf(m) \in Directive
  BY DEF IncludeOf, Directive
<1>4. new \in Content
  BY <1>2, <1>3, PutTake
<1>5. new \in FileState /\ new # NoFile
  BY <1>4, NoFileAssumption DEF FileState
<1>6. EnsureInclude(tree, m) = [tree EXCEPT ![MainFile] = new]
  BY DEF EnsureInclude
<1> HIDE DEF new
<1>7. QED
  BY <1>1, <1>5, <1>6 DEF Tree

\* An operation that creates writes one directive to main or to its target.
LEMMA WriteItemTree ==
    ASSUME NEW tree \in Tree, NEW op \in Operation, NEW into \in Sidecar,
           tree[MainFile] # NoFile, tree[into] # NoFile
    PROVE  /\ WriteItem(tree, op, into) \in Tree
           /\ \A p \in Path \ {MainFile, into} :
                 WriteItem(tree, op, into)[p] = tree[p]
<1> DEFINE p == IF op.kind = "open" THEN MainFile ELSE into
<1>1. p \in Path /\ tree[p] # NoFile
  BY PathFacts
<1>2. op.item \in Directive
  BY DEF Operation, Directive
<1>3. Put(tree[p], op.item) \in FileState
  BY <1>1, <1>2, FileIsContent, PutTake DEF FileState
<1>4. WriteItem(tree, op, into) = [tree EXCEPT ![p] = Put(tree[p], op.item)]
  BY DEF WriteItem
<1>5. p \in {MainFile, into}
  OBVIOUS
<1> HIDE DEF p
<1>6. QED
  BY <1>1, <1>3, <1>4, <1>5 DEF Tree

\* An edit that applies changes the one file it is addressed to.
LEMMA EditItemTree ==
    ASSUME NEW tree \in Tree, NEW op \in Operation, EditApplies(tree, op)
    PROVE  /\ EditItem(tree, op) \in Tree
           /\ \A p \in Path \ {op.file} : EditItem(tree, op)[p] = tree[p]
<1> DEFINE rest == Take(tree[op.file], op.old)
           new  == IF op.kind = "replace" THEN Put(rest, op.item) ELSE rest
<1>1. op.file \in Path /\ op.old \in Directive /\ op.item \in Directive
  BY PathFacts DEF Operation, Directive
<1>2. tree[op.file] \in Content /\ tree[op.file][op.old] > 0
  BY <1>1, FileIsContent DEF EditApplies, Holds
<1>3. rest \in Content
  BY <1>1, <1>2, PutTake
<1>4. new \in FileState
  BY <1>1, <1>3, PutTake DEF FileState
<1>5. EditItem(tree, op) = [tree EXCEPT ![op.file] = new]
  BY DEF EditItem
<1> HIDE DEF new
<1>6. QED
  BY <1>1, <1>4, <1>5 DEF Tree

\* Capturing files of a tree, and putting captured files back.
LEMMA SnapshotRestore ==
    ASSUME NEW tree \in Tree, NEW paths \in SUBSET Sidecar
    PROVE  /\ Snapshot(tree, paths) \in [paths -> FileState]
           /\ \A captured \in [paths -> FileState] : Restore(tree, captured) \in Tree
BY PathFacts DEF Snapshot, Restore, Tree

\* Whatever a plan may write to belongs to the sidecar.
LEMMA TargetsInSidecar ==
    ASSUME NEW plan \in Seq(Operation), NEW m \in Month
    PROVE  PotentialWriteTargets(plan, m) \subseteq Sidecar
<1>1. ASSUME NEW k \in DOMAIN plan
      PROVE  (IF Creates(plan[k]) THEN {MainFile, MonthFile(m)} ELSE {plan[k].file})
                \subseteq Sidecar
  <2>1. plan[k] \in Operation
    OBVIOUS
  <2>2. plan[k].file \in Sidecar
    BY <2>1 DEF Operation
  <2>3. QED
    BY <2>2, PathFacts
<1>2. QED
  BY <1>1 DEF PotentialWriteTargets

-----------------------------------------------------------------------------
(* Types.  TypeOK is not inductive by itself: that a replay leaves a tree    *)
(* depends on the step it is at and on the file ensure_sidecar has made.     *)

ControlOK ==
    /\ \A w \in Worker : pc[w] # "idle" => act[w] \in Action /\ pending[act[w]] # NoAction
    /\ \A w \in Worker : pc[w] \in {"replay", "include"} => step[w] \in DOMAIN PlanOf(w)
    /\ \A w \in Worker : pc[w] = "include" => ws[w][target[w]] # NoFile

TypeInv == TypeOK /\ ControlOK

LEMMA PlanFacts ==
    ASSUME NEW plan \in Plan
    PROVE  plan \in Seq(Operation) /\ Len(plan) \in Nat /\ 1 \in DOMAIN plan
BY PublicationAssumption

LEMMA BranchFacts ==
    ASSUME TypeOK
    PROVE  /\ Tip \in Nat /\ Tip >= 1
           /\ \A i \in 1 .. Tip : /\ branch[i] \in Commit
                                  /\ TreeAt(i) \in Tree
<1>1. branch \in Seq(Commit) /\ branch # <<>>
  BY DEF TypeOK
<1>2. \A i \in 1 .. Len(branch) : branch[i] \in Commit
  BY <1>1
<1>3. \A c \in Commit : c.tree \in Tree
  BY DEF Commit
<1>4. QED
  BY <1>1, <1>2, <1>3 DEF Tip, TreeAt

\* A request at work applies a sealed action, whose plan it steps through.
LEMMA PlanOfFacts ==
    ASSUME TypeInv, NEW w \in Worker, pc[w] # "idle"
    PROVE  /\ act[w] \in Action
           /\ IsSealed(pending[act[w]])
           /\ PlanOf(w) \in Seq(Operation)
           /\ 1 \in DOMAIN PlanOf(w)
           /\ pc[w] \in {"replay", "include"} => /\ step[w] \in DOMAIN PlanOf(w)
                                                /\ PlanOf(w)[step[w]] \in Operation
<1>1. act[w] \in Action /\ IsSealed(pending[act[w]])
  BY DEF TypeInv, TypeOK, ControlOK
<1>2. PlanOf(w) \in Plan
  BY <1>1 DEF IsSealed, PlanOf
<1>3. PlanOf(w) \in Seq(Operation) /\ 1 \in DOMAIN PlanOf(w)
  BY <1>2, PlanFacts
<1>4. pc[w] \in {"replay", "include"} => step[w] \in DOMAIN PlanOf(w)
  BY DEF TypeInv, ControlOK
<1>5. QED
  BY <1>1, <1>3, <1>4

\* The tree a user leaves behind is a tree.
LEMMA UserEditsAreTrees ==
    ASSUME TypeOK, NEW t \in UserEdits(TreeAt(Tip))
    PROVE  t \in Tree
<1> DEFINE old == TreeAt(Tip)
<1>1. \A i \in 1 .. Tip : TreeAt(i) \in Tree
  BY BranchFacts
<1>2. Tip \in 1 .. Tip
  BY BranchFacts
<1>3. old \in Tree
  BY <1>1, <1>2
<1>4. ASSUME NEW a \in Account, old[EntryFile] # NoFile
      PROVE  /\ [old EXCEPT ![EntryFile] = Put(@, OpenOf(a))] \in Tree
             /\ Holds(old, EntryFile, OpenOf(a)) =>
                   [old EXCEPT ![EntryFile] = Take(@, OpenOf(a))] \in Tree
  <2>1. EntryFile \in Path /\ OpenOf(a) \in Directive
    BY PathFacts DEF OpenOf, Directive, Entry
  <2>2. old[EntryFile] \in Content
    BY <1>3, <1>4, <2>1, FileIsContent
  <2>3. /\ Put(old[EntryFile], OpenOf(a)) \in FileState
        /\ Holds(old, EntryFile, OpenOf(a)) => Take(old[EntryFile], OpenOf(a)) \in FileState
    BY <2>1, <2>2, PutTake DEF Holds, FileState
  <2>4. QED
    BY <1>3, <2>1, <2>3 DEF Tree
<1>5. QED
  BY <1>1, <1>3, <1>4 DEF UserEdits, Holds

\* What Prepare seals is a sealed action.
LEMMA SealIsSealed ==
    ASSUME TypeOK, NEW plan \in Plan, NEW i \in 1 .. Tip, NEW bound \in BOOLEAN
    PROVE  IsSealed(Seal(TreeAt(i), plan, month, i, bound))
<1>1. TreeAt(i) \in Tree /\ month \in Month /\ now + TTL \in Nat /\ i \in Nat
  BY PublicationAssumption, BranchFacts DEF TypeOK
<1>2. PotentialWriteTargets(plan, month) \in SUBSET Sidecar
  BY <1>1, PlanFacts, TargetsInSidecar
<1>3. Snapshot(TreeAt(i), PotentialWriteTargets(plan, month))
         \in [PotentialWriteTargets(plan, month) -> FileState]
  BY <1>1, <1>2, SnapshotRestore
<1>4. QED
  BY <1>1, <1>2, <1>3 DEF IsSealed, Seal, IsCapture

\* Restoring the captured contents of a workspace leaves a tree.
LEMMA RestoredTree ==
    ASSUME TypeOK, NEW w \in Worker
    PROVE  Restore(ws[w], originals[w]) \in Tree
<1>1. PICK paths \in SUBSET Sidecar : originals[w] \in [paths -> FileState]
  BY DEF TypeOK, IsCapture
<1>2. ws[w] \in Tree
  BY DEF TypeOK
<1>3. QED
  BY <1>1, <1>2, SnapshotRestore

LEMMA TypeInit == Init => TypeInv
<1> SUFFICES ASSUME Init PROVE TypeInv
  OBVIOUS
<1>1. <<[tree |-> InitialTree, by |-> User, calm |-> TRUE]>> \in Seq(Commit)
  BY PublicationAssumption DEF Commit
<1>2. NoTree \in Tree
  BY DEF NoTree, Tree, FileState
<1>3. IsCapture(Snapshot(NoTree, {}))
  BY DEF IsCapture, Snapshot
<1>4. 0 \in Month
  BY LastMonthAssumption DEF Month
<1>5. TypeOK
  BY <1>1, <1>2, <1>3, <1>4, PathFacts DEF Init, TypeOK, Phase, Outcome
<1>6. ControlOK
  BY DEF Init, ControlOK
<1>7. QED
  BY <1>5, <1>6 DEF TypeInv

\* The phases and outcomes named by the actions are ones TypeOK knows.
LEMMA PhaseFacts ==
    /\ {"idle", "verify", "writeset", "snapshot", "done", "preconditions", "replay",
        "include", "check", "commit", "push"} \subseteq Phase
    /\ {"none", "applied", "push_failed", "error"} \cup Refusal \subseteq Outcome
BY DEF Phase, Replaying, Outcome

\* What the two ways of moving a request on do to the control variables.
LEMMA MovesOn ==
    ASSUME TypeInv, NEW w \in Worker, NEW phase \in Phase, NEW result \in Outcome,
           \/ Goto(w, phase)
           \/ phase = "done" /\ Finish(w, result)
    PROVE  /\ pc' \in [Worker -> Phase] /\ outcome' \in [Worker -> Outcome]
           /\ pc'[w] = phase
           /\ \A v \in Worker \ {w} : pc'[v] = pc[v]
<1>1. pc \in [Worker -> Phase] /\ outcome \in [Worker -> Outcome]
  BY DEF TypeInv, TypeOK
<1>2. /\ pc' = [pc EXCEPT ![w] = phase]
      /\ outcome' = outcome \/ outcome' = [outcome EXCEPT ![w] = result]
  BY DEF Goto, Finish
<1>3. QED
  BY <1>1, <1>2

LEMMA TypeTick == TypeInv /\ Tick => TypeInv'
BY DEF TypeInv, TypeOK, ControlOK, Tick, worker, PlanOf

LEMMA TypeUserPush == TypeInv /\ UserPush => TypeInv'
<1> SUFFICES ASSUME TypeInv, UserPush PROVE TypeInv'
  OBVIOUS
<1>1. PICK t \in UserEdits(TreeAt(Tip)) :
         branch' = Append(branch, [tree |-> t, by |-> User, calm |-> TRUE])
  BY DEF UserPush
<1>2. [tree |-> t, by |-> User, calm |-> TRUE] \in Commit
  BY UserEditsAreTrees DEF TypeInv, Commit
<1>3. branch \in Seq(Commit)
  BY DEF TypeInv, TypeOK
<1>4. branch' \in Seq(Commit) /\ branch' # <<>>
  BY <1>1, <1>2, <1>3
<1>5. QED
  BY <1>4 DEF TypeInv, TypeOK, ControlOK, UserPush, worker, PlanOf

LEMMA TypePrepare == ASSUME TypeInv, NEW a \in Action, Prepare(a) PROVE TypeInv'
<1>1. PICK plan \in Plan, i \in 1 .. Tip, bound \in BOOLEAN :
         pending' = [pending EXCEPT ![a] = Seal(TreeAt(i), plan, month, i, bound)]
  BY DEF Prepare
<1>2. IsSealed(pending'[a])
  BY <1>1, SealIsSealed DEF TypeInv, TypeOK
<1>3. \A b \in Action \ {a} : pending'[b] = pending[b]
  BY <1>1 DEF TypeInv, TypeOK
<1>4. DOMAIN pending' = Action
  BY <1>1 DEF TypeInv, TypeOK
<1>5. TypeOK'
  BY <1>2, <1>3, <1>4 DEF TypeInv, TypeOK, Prepare, worker
<1>6. \A w \in Worker : pc[w] # "idle" => act[w] # a
  BY DEF TypeInv, ControlOK, Prepare
<1>7. ControlOK'
  BY <1>3, <1>6 DEF TypeInv, ControlOK, Prepare, worker, PlanOf, Phase
<1>8. QED
  BY <1>5, <1>7 DEF TypeInv

LEMMA TypeOpen ==
    ASSUME TypeInv, NEW w \in Worker, NEW a \in Action, Open(w, a)
    PROVE  TypeInv'
<1>1. TreeAt(Tip) \in Tree /\ Tip \in Nat
  BY BranchFacts DEF TypeInv
<1>2. TypeOK'
  <2>1. /\ pc' \in [Worker -> Phase]
        /\ outcome' \in [Worker -> Outcome]
    <3>1. CASE pending[a].bound /\ Expired(a)
      <4>1. Finish(w, "rejected")
        BY <3>1 DEF Open
      <4>2. QED
        BY <4>1, PhaseFacts DEF TypeInv, TypeOK, Finish, Refusal
    <3>2. CASE ~(pending[a].bound /\ Expired(a))
      <4>1. pc' = [pc EXCEPT ![w] = "verify"] /\ outcome' = [outcome EXCEPT ![w] = "none"]
        BY <3>2 DEF Open
      <4>2. QED
        BY <4>1, PhaseFacts DEF TypeInv, TypeOK
    <3>3. QED
      BY <3>1, <3>2
  <2>2. /\ base' \in [Worker -> Nat]
        /\ ws' \in [Worker -> Tree]
        /\ act' \in [Worker -> Action \cup {NoAction}]
    <3>1. /\ base \in [Worker -> Nat]
          /\ ws \in [Worker -> Tree]
          /\ act \in [Worker -> Action \cup {NoAction}]
      BY DEF TypeInv, TypeOK
    <3>2. act' = [act EXCEPT ![w] = a]
      BY DEF Open
    <3>3. base' = base \/ base' = [base EXCEPT ![w] = Tip]
      BY DEF Open
    <3>4. ws' = ws \/ ws' = [ws EXCEPT ![w] = TreeAt(Tip)]
      BY DEF Open
    <3>5. base' \in [Worker -> Nat]
      BY <1>1, <3>1, <3>3
    <3>6. ws' \in [Worker -> Tree]
      BY <1>1, <3>1, <3>4
    <3>7. QED
      BY <3>1, <3>2, <3>5, <3>6
  <2>3. QED
    BY <2>1, <2>2 DEF TypeInv, TypeOK, Open
<1>3. ControlOK'
  <2>1. /\ pc'[w] \in {"verify", "done"} /\ act'[w] = a
        /\ \A v \in Worker \ {w} : pc'[v] = pc[v] /\ act'[v] = act[v] /\ ws'[v] = ws[v]
    BY DEF TypeInv, TypeOK, Open, Finish
  <2>2. pending[a] # NoAction /\ UNCHANGED <<pending, step, target>>
    BY DEF Open
  <2>3. QED
    BY <2>1, <2>2 DEF TypeInv, ControlOK, PlanOf
<1>4. QED
  BY <1>2, <1>3 DEF TypeInv

\* The steps before the replay change no tree.
LEMMA TypeChecks ==
    ASSUME TypeInv, NEW w \in Worker,
           Verify(w) \/ CheckWriteSet(w) \/ CaptureOriginals(w) \/ CheckPreconditions(w)
    PROVE  TypeInv'
<1>1. CASE Verify(w) \/ CheckWriteSet(w)
  <2>1. \/ Goto(w, "writeset") \/ Goto(w, "snapshot")
        \/ Finish(w, "conflict") \/ Finish(w, "rejected")
    BY <1>1 DEF Verify, CheckWriteSet
  <2>2. /\ pc[w] \in {"verify", "writeset"}
        /\ UNCHANGED <<branch, now, month, pending, act, base, ws, originals,
                       step, target, steady>>
    BY <1>1 DEF Verify, CheckWriteSet
  <2>3. /\ pc' \in [Worker -> Phase] /\ outcome' \in [Worker -> Outcome]
        /\ pc'[w] \notin {"idle", "replay", "include"}
        /\ \A v \in Worker \ {w} : pc'[v] = pc[v]
    <3>1. CASE \E phase \in {"writeset", "snapshot"} : Goto(w, phase)
      BY <3>1, PhaseFacts, MovesOn
    <3>2. CASE \E result \in {"conflict", "rejected"} : Finish(w, result)
      <4>1. {"conflict", "rejected"} \subseteq Outcome
        BY PhaseFacts DEF Refusal
      <4>2. QED
        BY <3>2, <4>1, PhaseFacts, MovesOn
    <3>3. QED
      BY <2>1, <3>1, <3>2
  <2>4. TypeOK'
    BY <2>2, <2>3 DEF TypeInv, TypeOK
  <2>5. ControlOK'
    BY <2>2, <2>3 DEF TypeInv, ControlOK, PlanOf
  <2>6. QED
    BY <2>4, <2>5 DEF TypeInv
<1>2. CASE CaptureOriginals(w)
  <2>1. IsCapture(originals'[w])
    <3>1. ws[w] \in Tree /\ month \in Month
      BY DEF TypeInv, TypeOK
    <3>2. PlanOf(w) \in Seq(Operation)
      BY <1>2, PlanOfFacts DEF CaptureOriginals
    <3>3. PotentialWriteTargets(PlanOf(w), month) \in SUBSET Sidecar
      BY <3>1, <3>2, TargetsInSidecar
    <3>4. originals'[w] = Snapshot(ws[w], PotentialWriteTargets(PlanOf(w), month))
      BY <1>2 DEF TypeInv, TypeOK, CaptureOriginals
    <3>5. QED
      BY <3>1, <3>3, <3>4, SnapshotRestore DEF IsCapture
  <2>2. \A v \in Worker : IsCapture(originals'[v])
    BY <1>2, <2>1 DEF TypeInv, TypeOK, CaptureOriginals
  <2>3. WriteSetMatches(w) \in BOOLEAN
    BY DEF WriteSetMatches
  <2>4. TypeOK'
    BY <1>2, <2>2, <2>3, PhaseFacts DEF TypeInv, TypeOK, CaptureOriginals, Goto
  <2>5. ControlOK'
    BY <1>2 DEF TypeInv, TypeOK, ControlOK, CaptureOriginals, Goto, PlanOf
  <2>6. QED
    BY <2>4, <2>5 DEF TypeInv
<1>3. CASE CheckPreconditions(w)
  <2>1. 1 \in DOMAIN PlanOf(w)
    BY <1>3, PlanOfFacts DEF CheckPreconditions
  <2>2. /\ pc' \in [Worker -> Phase] /\ outcome' \in [Worker -> Outcome]
        /\ pc'[w] \in {"replay", "done"}
        /\ \A v \in Worker \ {w} : pc'[v] = pc[v]
    <3>1. Goto(w, "replay") \/ Finish(w, "stale")
      BY <1>3 DEF CheckPreconditions
    <3>2. "stale" \in Outcome
      BY PhaseFacts DEF Refusal
    <3>3. QED
      BY <3>1, <3>2, PhaseFacts, MovesOn
  <2>3. /\ step' \in [Worker -> Nat] /\ step'[w] = 1
        /\ \A v \in Worker \ {w} : step'[v] = step[v]
    <3>1. step \in [Worker -> Nat] /\ step' = [step EXCEPT ![w] = 1]
      BY <1>3 DEF TypeInv, TypeOK, CheckPreconditions
    <3>2. QED
      BY <3>1
  <2>4. pc[w] = "preconditions" /\ UNCHANGED <<branch, now, month, pending, act, base,
                                             ws, originals, target, steady>>
    BY <1>3 DEF CheckPreconditions
  <2>5. TypeOK'
    BY <2>2, <2>3, <2>4 DEF TypeInv, TypeOK
  <2>6. ControlOK'
    BY <2>1, <2>2, <2>3, <2>4 DEF TypeInv, ControlOK, PlanOf
  <2>7. QED
    BY <2>5, <2>6 DEF TypeInv
<1>4. QED
  BY <1>1, <1>2, <1>3

\* The steps of the replay.
LEMMA TypeReplayCreate ==
    ASSUME TypeInv, NEW w \in Worker, ReplayCreate(w)
    PROVE  TypeInv'
<1>1. ws[w] \in Tree /\ month \in Month
  BY DEF TypeInv, TypeOK
<1>2. /\ ws' = [ws EXCEPT ![w] = EnsureMonthFile(ws[w], month)]
      /\ target' = [target EXCEPT ![w] = MonthFile(month)]
  BY DEF ReplayCreate
<1>3. MonthFile(month) \in Sidecar
  BY <1>1, PathFacts
<1>4. ws' \in [Worker -> Tree] /\ target' \in [Worker -> Sidecar]
  BY <1>1, <1>2, <1>3, EnsureMonthFileTree DEF TypeInv, TypeOK
<1>5. ws'[w][target'[w]] # NoFile
  BY <1>1, <1>2, EnsureMonthFileTree DEF TypeInv, TypeOK
<1>6. WriteSetMatches(w) \in BOOLEAN
  BY DEF WriteSetMatches
<1>7. TypeOK'
  BY <1>4, <1>6, PhaseFacts DEF TypeInv, TypeOK, ReplayCreate, Goto
<1>8. \A v \in Worker \ {w} : ws'[v] = ws[v] /\ target'[v] = target[v]
  BY <1>2 DEF TypeInv, TypeOK
<1>9. ControlOK'
  BY <1>5, <1>8 DEF TypeInv, TypeOK, ControlOK, ReplayCreate, Goto, PlanOf
<1>10. QED
  BY <1>7, <1>9 DEF TypeInv

\* Going on to the next operation keeps the step within the plan.
LEMMA NextOperationFacts ==
    ASSUME TypeInv, NEW w \in Worker, pc[w] \in {"replay", "include"}, NextOperation(w)
    PROVE  /\ pc' \in [Worker -> Phase] /\ step' \in [Worker -> Nat]
           /\ pc'[w] \in {"check", "replay"} /\ outcome' = outcome
           /\ pc'[w] = "replay" => step'[w] \in DOMAIN PlanOf(w)
           /\ \A v \in Worker \ {w} : pc'[v] = pc[v] /\ step'[v] = step[v]
<1>1. PlanOf(w) \in Seq(Operation) /\ step[w] \in DOMAIN PlanOf(w)
  BY PlanOfFacts
<1>2. /\ pc \in [Worker -> Phase] /\ step \in [Worker -> Nat]
  BY DEF TypeInv, TypeOK
<1>3. step[w] # Len(PlanOf(w)) => step[w] + 1 \in DOMAIN PlanOf(w)
  BY <1>1
<1>4. QED
  BY <1>2, <1>3, PhaseFacts DEF NextOperation, Goto

\* A replay step that goes on leaves the control of every request in order.
LEMMA NextOperationControl ==
    ASSUME TypeInv, NEW w \in Worker, pc[w] \in {"replay", "include"}, NextOperation(w),
           \A v \in Worker \ {w} : ws'[v] = ws[v], UNCHANGED <<pending, act, target>>
    PROVE  ControlOK'
<1>1. \A v \in Worker : PlanOf(v)' = PlanOf(v)
  BY DEF PlanOf
<1>2. \A v \in Worker \ {w} : pc'[v] = pc[v] /\ step'[v] = step[v]
  BY NextOperationFacts
<1>3. /\ pc'[w] \in {"check", "replay"}
      /\ pc'[w] = "replay" => step'[w] \in DOMAIN PlanOf(w)
  BY NextOperationFacts
<1>4. ASSUME NEW v \in Worker
      PROVE  /\ pc'[v] # "idle" => act'[v] \in Action /\ pending'[act'[v]] # NoAction
             /\ pc'[v] \in {"replay", "include"} => step'[v] \in DOMAIN PlanOf(v)'
             /\ pc'[v] = "include" => ws'[v][target'[v]] # NoFile
  <2>1. CASE v = w
    BY <1>1, <1>3, <2>1 DEF TypeInv, ControlOK
  <2>2. CASE v # w
    BY <1>1, <1>2, <2>2 DEF TypeInv, ControlOK
  <2>3. QED
    BY <2>1, <2>2
<1>5. QED
  BY <1>4 DEF ControlOK

LEMMA TypeReplayInclude ==
    ASSUME TypeInv, NEW w \in Worker, ReplayInclude(w)
    PROVE  TypeInv'
<1> DEFINE tree == EnsureInclude(ws[w], month)
           op   == PlanOf(w)[step[w]]
<1>1. ws[w] \in Tree /\ month \in Month /\ target[w] \in Sidecar
  BY DEF TypeInv, TypeOK
<1>2. op \in Operation
  BY PlanOfFacts DEF ReplayInclude
<1>3. ws[w][target[w]] # NoFile
  BY DEF TypeInv, ControlOK, ReplayInclude
<1>4. tree \in Tree /\ tree[MainFile] # NoFile /\ tree[target[w]] # NoFile
  BY <1>1, <1>3, EnsureIncludeTree, PathFacts
<1>5. WriteItem(tree, op, target[w]) \in Tree
  BY <1>1, <1>2, <1>4, WriteItemTree
<1>6. ws' = [ws EXCEPT ![w] = WriteItem(tree, op, target[w])]
  BY DEF ReplayInclude
<1>7. ws' \in [Worker -> Tree] /\ \A v \in Worker \ {w} : ws'[v] = ws[v]
  BY <1>5, <1>6 DEF TypeInv, TypeOK
<1>8. WriteSetMatches(w) \in BOOLEAN
  BY DEF WriteSetMatches
<1>9. pc[w] \in {"replay", "include"} /\ NextOperation(w)
  BY DEF ReplayInclude
<1>10. TypeOK'
  BY <1>7, <1>8, <1>9, NextOperationFacts DEF TypeInv, TypeOK, ReplayInclude
<1>11. ControlOK'
  BY <1>7, <1>9, NextOperationControl DEF ReplayInclude
<1>12. QED
  BY <1>10, <1>11 DEF TypeInv

\* A workspace that is given up is restored; the request ends with a refusal.
LEMMA TypeGivenUp ==
    ASSUME TypeInv, NEW w \in Worker, NEW result \in Outcome, Finish(w, result),
           ws' = [ws EXCEPT ![w] = Restore(ws[w], originals[w])],
           UNCHANGED <<branch, now, month, pending, act, base, originals, step,
                       target, steady>>,
           pc[w] # "idle"
    PROVE  TypeInv'
<1>1. ws' \in [Worker -> Tree] /\ \A v \in Worker \ {w} : ws'[v] = ws[v]
  BY RestoredTree DEF TypeInv, TypeOK
<1>2. TypeOK'
  BY <1>1, PhaseFacts DEF TypeInv, TypeOK, Finish
<1>3. ControlOK'
  BY <1>1 DEF TypeInv, TypeOK, ControlOK, Finish, PlanOf
<1>4. QED
  BY <1>2, <1>3 DEF TypeInv

LEMMA TypeReplayEdit ==
    ASSUME TypeInv, NEW w \in Worker, ReplayEdit(w)
    PROVE  TypeInv'
<1> DEFINE op == PlanOf(w)[step[w]]
<1>1. pc[w] = "replay" /\ ws[w] \in Tree
  BY DEF ReplayEdit, TypeInv, TypeOK
<1>2. op \in Operation
  BY <1>1, PlanOfFacts
<1>3. CASE EditApplies(ws[w], op)
  <2>1. EditItem(ws[w], op) \in Tree
    BY <1>1, <1>2, <1>3, EditItemTree
  <2>2. ws' = [ws EXCEPT ![w] = EditItem(ws[w], op)] /\ NextOperation(w)
    BY <1>3 DEF ReplayEdit
  <2>3. ws' \in [Worker -> Tree] /\ \A v \in Worker \ {w} : ws'[v] = ws[v]
    BY <2>1, <2>2 DEF TypeInv, TypeOK
  <2>4. TypeOK'
    BY <1>1, <2>2, <2>3, NextOperationFacts DEF TypeInv, TypeOK, ReplayEdit
  <2>5. ControlOK'
    BY <1>1, <2>2, <2>3, NextOperationControl DEF ReplayEdit
  <2>6. QED
    BY <2>4, <2>5 DEF TypeInv
<1>4. CASE ~EditApplies(ws[w], op)
  <2>1. "rejected" \in Outcome
    BY DEF Outcome, Refusal
  <2>2. QED
    BY <1>1, <1>4, <2>1, TypeGivenUp DEF ReplayEdit
<1>5. QED
  BY <1>3, <1>4

LEMMA TypeValidate ==
    ASSUME TypeInv, NEW w \in Worker, Validate(w)
    PROVE  TypeInv'
<1>1. CASE BeanCheck(ws[w])
  BY <1>1, PhaseFacts DEF TypeInv, TypeOK, ControlOK, Validate, Goto, PlanOf
<1>2. CASE ~BeanCheck(ws[w])
  <2>1. "invalid" \in Outcome
    BY DEF Outcome, Refusal
  <2>2. QED
    BY <1>2, <2>1, TypeGivenUp DEF Validate
<1>3. QED
  BY <1>1, <1>2

LEMMA TypeFault ==
    ASSUME TypeInv, NEW w \in Worker, Fault(w)
    PROVE  TypeInv'
<1>1. "error" \in Outcome /\ "idle" \notin Replaying
  BY DEF Outcome, Replaying
<1>2. QED
  BY <1>1, TypeGivenUp DEF Fault

LEMMA TypeCommitLocally ==
    ASSUME TypeInv, NEW w \in Worker, CommitLocally(w)
    PROVE  TypeInv'
<1>1. CASE Finish(w, "nothing") /\ UNCHANGED ws
  BY <1>1, PhaseFacts DEF TypeInv, TypeOK, ControlOK, CommitLocally, Finish, Refusal, PlanOf
<1>2. CASE Goto(w, "push") /\ UNCHANGED ws
  BY <1>2, PhaseFacts DEF TypeInv, TypeOK, ControlOK, CommitLocally, Goto, PlanOf
<1>3. CASE /\ ws' = [ws EXCEPT ![w] = Restore(@, originals[w])]
           /\ Finish(w, "commit_failed")
  <2>1. "commit_failed" \in Outcome
    BY DEF Outcome, Refusal
  <2>2. QED
    BY <1>3, <2>1, TypeGivenUp DEF CommitLocally
<1>4. QED
  BY <1>1, <1>2, <1>3 DEF CommitLocally

\* A commit that lands is one commit more.
LEMMA LandsFacts ==
    ASSUME TypeInv, NEW w \in Worker, pc[w] = "push", base[w] \in 1 .. Tip, Lands(w)
    PROVE  branch' \in Seq(Commit) /\ branch' # <<>>
<1>1. CommitTree(w) \in Tree
  <2>1. ws[w] \in Tree /\ TreeAt(base[w]) \in Tree
    BY BranchFacts DEF TypeInv, TypeOK
  <2>2. QED
    BY <2>1 DEF CommitTree, Tree
<1>2. [tree |-> CommitTree(w), by |-> act[w], calm |-> steady[w]] \in Commit
  BY <1>1, PlanOfFacts DEF TypeInv, TypeOK, Commit
<1>3. branch \in Seq(Commit)
  BY DEF TypeInv, TypeOK
<1>4. QED
  BY <1>2, <1>3 DEF Lands

LEMMA TypePush ==
    ASSUME TypeInv, NEW w \in Worker, Push(w), base[w] \in 1 .. Tip
    PROVE  TypeInv'
<1>1. branch' \in Seq(Commit) /\ branch' # <<>>
  BY LandsFacts DEF Push, TypeInv, TypeOK
<1>2. "applied" \in Outcome /\ "push_failed" \in Outcome
  BY DEF Outcome
<1>3. PICK result \in Outcome : Finish(w, result)
  BY <1>2 DEF Push
<1>4. TypeOK'
  BY <1>1, <1>3, PhaseFacts DEF TypeInv, TypeOK, Push, Finish
<1>5. ControlOK'
  BY <1>3 DEF TypeInv, TypeOK, ControlOK, Push, Finish, PlanOf
<1>6. QED
  BY <1>4, <1>5 DEF TypeInv

LEMMA TypeForget ==
    ASSUME TypeInv, NEW w \in Worker, Forget(w)
    PROVE  TypeInv'
<1>1. NoTree \in Tree /\ IsCapture(Snapshot(NoTree, {})) /\ "none" \in Outcome
  BY DEF NoTree, Tree, FileState, IsCapture, Snapshot, Outcome
<1>2. \A v \in Worker : IsCapture(originals'[v])
  BY <1>1 DEF TypeInv, TypeOK, Forget
<1>3. TypeOK'
  BY <1>1, <1>2, PathFacts, PhaseFacts DEF TypeInv, TypeOK, Forget
<1>4. ControlOK'
  BY DEF TypeInv, TypeOK, ControlOK, Forget, PlanOf
<1>5. QED
  BY <1>3, <1>4 DEF TypeInv

-----------------------------------------------------------------------------
(* No stale plan is published.  A commit is good because the request behind  *)
(* it checked its preconditions on a copy of a revision, carried that        *)
(* knowledge through its replay, and pushed on top of that same revision.    *)

Fresh   == {"verify", "writeset", "snapshot", "preconditions"}
Checked == {"replay", "include", "check", "commit", "push"}

\* What is known of a request's workspace and seal at each phase.
RequestOK(w) ==
    /\ base[w] \in 1 .. Tip
    /\ pc[w] \in Fresh => ws[w] = TreeAt(base[w])
    /\ pc[w] \in Checked => PreconditionsHold(TreeAt(base[w]), pending[act[w]])
    /\ pc[w] \in (Fresh \cup Checked) \ {"verify"} /\ pending[act[w]].bound
          => pending[act[w]].base = base[w]

\* What is known of a commit.
CommitOK(i) ==
    ByAgent(i) => /\ pending[branch[i].by] # NoAction
                  /\ PreconditionsHold(TreeAt(i - 1), SealOf(i))
                  /\ SealOf(i).bound => SealOf(i).base = i - 1

PublicationInv ==
    /\ TypeInv
    /\ \A w \in Worker : RequestOK(w)
    /\ \A i \in 2 .. Tip : CommitOK(i)

\* The branch only grows and what is sealed stays sealed.
HistoryKept ==
    /\ Tip' \in Nat /\ Tip' >= Tip
    /\ \A i \in 1 .. Tip : branch'[i] = branch[i]
    /\ \A a \in Action : pending[a] # NoAction => pending'[a] = pending[a]

\* What is known of commits, and of requests that do not move, stays known.
LEMMA KnownStaysKnown ==
    ASSUME PublicationInv, HistoryKept
    PROVE  /\ \A i \in 2 .. Tip : CommitOK(i)'
           /\ \A w \in Worker : /\ pc'[w] = pc[w] /\ act'[w] = act[w]
                                 /\ base'[w] = base[w] /\ ws'[w] = ws[w]
                                 => RequestOK(w)'
<1>1. Tip \in Nat
  BY BranchFacts DEF PublicationInv, TypeInv
<1>2. ASSUME NEW i \in 2 .. Tip PROVE CommitOK(i)'
  <2>1. branch'[i] = branch[i] /\ branch'[i - 1] = branch[i - 1]
    BY <1>1 DEF HistoryKept
  <2>2. CommitOK(i) /\ branch[i].by \in Action \cup {User}
    BY <1>1, BranchFacts DEF PublicationInv, TypeInv, Commit
  <2>3. CASE ~ByAgent(i)
    BY <2>1, <2>3 DEF CommitOK, ByAgent
  <2>4. CASE ByAgent(i)
    <3>1. pending'[branch[i].by] = pending[branch[i].by]
      BY <2>2, <2>4 DEF HistoryKept, CommitOK, ByAgent
    <3>2. SealOf(i)' = SealOf(i) /\ TreeAt(i - 1)' = TreeAt(i - 1)
      BY <2>1, <3>1 DEF SealOf, TreeAt
    <3>3. QED
      BY <2>1, <2>2, <2>4, <3>1, <3>2 DEF CommitOK, ByAgent
  <2>5. QED
    BY <2>3, <2>4
<1>3. ASSUME NEW w \in Worker, pc'[w] = pc[w], act'[w] = act[w],
             base'[w] = base[w], ws'[w] = ws[w]
      PROVE  RequestOK(w)'
  <2>1. RequestOK(w) /\ base[w] \in 1 .. Tip
    BY DEF PublicationInv, RequestOK
  <2>2. base'[w] \in 1 .. Tip' /\ TreeAt(base[w])' = TreeAt(base[w])
    BY <1>1, <1>3, <2>1 DEF HistoryKept, TreeAt
  <2>3. pc[w] \in Fresh \cup Checked => pending'[act[w]] = pending[act[w]]
    BY DEF PublicationInv, TypeInv, ControlOK, HistoryKept, Fresh, Checked
  <2>4. QED
    BY <1>3, <2>1, <2>2, <2>3 DEF RequestOK
<1>4. QED
  BY <1>2, <1>3

\* A step that leaves the branch and the seals alone keeps history.
LEMMA HistoryUnchanged ==
    ASSUME PublicationInv, UNCHANGED <<branch, pending>>
    PROVE  HistoryKept /\ Tip' = Tip /\ \A i \in 1 .. Tip : TreeAt(i)' = TreeAt(i)
BY BranchFacts DEF PublicationInv, TypeInv, HistoryKept, Tip, TreeAt

\* A step of one request that leaves branch and seals alone keeps what is known
\* if it does for that request.
LEMMA OneRequestMoves ==
    ASSUME PublicationInv, TypeInv', NEW w \in Worker, UNCHANGED <<branch, pending>>,
           RequestOK(w)',
           \A v \in Worker \ {w} : /\ pc'[v] = pc[v] /\ act'[v] = act[v]
                                   /\ base'[v] = base[v] /\ ws'[v] = ws[v]
    PROVE  PublicationInv'
BY HistoryUnchanged, KnownStaysKnown DEF PublicationInv

\* While a request answers or is forgotten nothing need be known of it.
LEMMA RequestAtRest ==
    ASSUME NEW w \in Worker, pc'[w] \in {"idle", "done"}, base'[w] \in 1 .. Tip'
    PROVE  RequestOK(w)'
BY DEF RequestOK, Fresh, Checked

LEMMA InvOpen ==
    ASSUME PublicationInv, NEW w \in Worker, NEW a \in Action, Open(w, a)
    PROVE  PublicationInv'
<1>1. TypeInv'
  BY TypeOpen DEF PublicationInv
<1>2. /\ UNCHANGED <<branch, pending>> /\ Tip' = Tip /\ Tip \in 1 .. Tip
      /\ \A i \in 1 .. Tip : TreeAt(i)' = TreeAt(i)
  BY HistoryUnchanged, BranchFacts DEF PublicationInv, TypeInv, Open
<1>3. RequestOK(w)'
  <2>1. CASE pending[a].bound /\ Expired(a)
    <3>1. pc'[w] = "done" /\ base'[w] = base[w]
      BY <2>1 DEF Open, Finish, PublicationInv, TypeInv, TypeOK
    <3>2. base[w] \in 1 .. Tip
      BY DEF PublicationInv, RequestOK
    <3>3. QED
      BY <1>2, <3>1, <3>2, RequestAtRest
  <2>2. CASE ~(pending[a].bound /\ Expired(a))
    <3>1. pc'[w] = "verify" /\ base'[w] = Tip /\ ws'[w] = TreeAt(Tip)
      BY <2>2 DEF Open, PublicationInv, TypeInv, TypeOK
    <3>2. (TreeAt(base[w]))' = TreeAt(Tip)
      BY <1>2, <3>1 DEF TreeAt
    <3>3. QED
      BY <1>2, <3>1, <3>2 DEF RequestOK, Fresh, Checked
  <2>3. QED
    BY <2>1, <2>2
<1>4. \A v \in Worker \ {w} : /\ pc'[v] = pc[v] /\ act'[v] = act[v]
                              /\ base'[v] = base[v] /\ ws'[v] = ws[v]
  BY DEF Open, Finish, PublicationInv, TypeInv, TypeOK
<1>5. QED
  BY <1>1, <1>2, <1>3, <1>4, OneRequestMoves

\* The checks: each either refuses or adds to what is known of the request.
LEMMA InvChecks ==
    ASSUME PublicationInv, NEW w \in Worker,
           Verify(w) \/ CheckWriteSet(w) \/ CaptureOriginals(w) \/ CheckPreconditions(w)
    PROVE  PublicationInv'
<1>1. TypeInv'
  BY TypeChecks DEF PublicationInv
<1>2. UNCHANGED <<branch, pending, act, base, ws>>
  BY DEF Verify, CheckWriteSet, CaptureOriginals, CheckPreconditions
<1>3. Tip' = Tip /\ (TreeAt(base[w]))' = TreeAt(base[w])
  BY <1>2 DEF Tip, TreeAt
<1>4. RequestOK(w) /\ pc \in [Worker -> Phase] /\ w \in Worker
  BY DEF PublicationInv, TypeInv, TypeOK
<1>5. RequestOK(w)'
  <2>1. CASE pc'[w] = "done"
    BY <1>2, <1>3, <1>4, <2>1 DEF RequestOK, Fresh, Checked
  <2>2. CASE pc'[w] # "done" /\ Verify(w)
    <3>1. /\ pc[w] = "verify" /\ pc'[w] = "writeset"
          /\ pending[act[w]].bound => base[w] = pending[act[w]].base
      BY <1>4, <2>2 DEF Verify, HeadMoved, Goto, Finish
    <3>2. QED
      BY <1>2, <1>3, <1>4, <3>1 DEF RequestOK, Fresh, Checked
  <2>3. CASE pc'[w] # "done" /\ CheckWriteSet(w)
    <3>1. pc[w] = "writeset" /\ pc'[w] = "snapshot"
      BY <1>4, <2>3 DEF CheckWriteSet, Goto, Finish
    <3>2. QED
      BY <1>2, <1>3, <1>4, <3>1 DEF RequestOK, Fresh, Checked
  <2>4. CASE CaptureOriginals(w)
    <3>1. pc[w] = "snapshot" /\ pc'[w] = "preconditions"
      BY <1>4, <2>4 DEF CaptureOriginals, Goto
    <3>2. QED
      BY <1>2, <1>3, <1>4, <3>1 DEF RequestOK, Fresh, Checked
  <2>5. CASE pc'[w] # "done" /\ CheckPreconditions(w)
    <3>1. /\ pc[w] = "preconditions" /\ pc'[w] = "replay"
          /\ PreconditionsHold(ws[w], pending[act[w]])
      BY <1>4, <2>5 DEF CheckPreconditions, Goto, Finish
    <3>2. PreconditionsHold(TreeAt(base[w]), pending[act[w]])
      BY <1>4, <3>1 DEF RequestOK, Fresh
    <3>3. QED
      BY <1>2, <1>3, <1>4, <3>1, <3>2 DEF RequestOK, Fresh, Checked
  <2>6. QED
    BY <2>1, <2>2, <2>3, <2>4, <2>5
<1>6. \A v \in Worker \ {w} : pc'[v] = pc[v]
  BY <1>4 DEF Verify, CheckWriteSet, CaptureOriginals, CheckPreconditions, Goto, Finish
<1>7. QED
  BY <1>1, <1>2, <1>5, <1>6, OneRequestMoves

\* The replay and what follows up to the push keep the seal known to hold.
LEMMA InvReplay ==
    ASSUME PublicationInv, NEW w \in Worker,
           \/ ReplayCreate(w) \/ ReplayInclude(w) \/ ReplayEdit(w)
           \/ Validate(w) \/ CommitLocally(w) \/ Fault(w)
    PROVE  PublicationInv'
<1>1. TypeInv'
  BY TypeReplayCreate, TypeReplayInclude, TypeReplayEdit, TypeValidate,
     TypeCommitLocally, TypeFault DEF PublicationInv
<1>2. UNCHANGED <<branch, pending, act, base>>
  BY DEF ReplayCreate, ReplayInclude, ReplayEdit, Validate, CommitLocally, Fault
<1>3. Tip' = Tip /\ (TreeAt(base[w]))' = TreeAt(base[w])
  BY <1>2 DEF Tip, TreeAt
<1>4. /\ RequestOK(w) /\ pc \in [Worker -> Phase] /\ ws \in [Worker -> Tree]
  BY DEF PublicationInv, TypeInv, TypeOK
<1>5. /\ pc[w] \in {"preconditions"} \cup Checked
      /\ pc'[w] \in {"done"} \cup Checked
      /\ pc[w] = "preconditions" => pc'[w] = "done"
  BY <1>4 DEF ReplayCreate, ReplayInclude, ReplayEdit, Validate, CommitLocally, Fault,
              Goto, Finish, NextOperation, Replaying, Checked
<1>6. RequestOK(w)'
  BY <1>2, <1>3, <1>4, <1>5 DEF RequestOK, Fresh, Checked
<1>7. \A v \in Worker \ {w} : pc'[v] = pc[v] /\ ws'[v] = ws[v]
  BY <1>4 DEF ReplayCreate, ReplayInclude, ReplayEdit, Validate, CommitLocally, Fault,
              Goto, Finish, NextOperation
<1>8. QED
  BY <1>1, <1>2, <1>6, <1>7, OneRequestMoves

LEMMA InvForget ==
    ASSUME PublicationInv, NEW w \in Worker, Forget(w)
    PROVE  PublicationInv'
<1>1. TypeInv'
  BY TypeForget DEF PublicationInv
<1>2. UNCHANGED <<branch, pending>> /\ Tip' = Tip /\ 1 \in 1 .. Tip
  BY HistoryUnchanged, BranchFacts DEF PublicationInv, TypeInv, Forget
<1>3. pc'[w] = "idle" /\ base'[w] = 1
  BY DEF Forget, PublicationInv, TypeInv, TypeOK
<1>4. RequestOK(w)'
  BY <1>2, <1>3, RequestAtRest
<1>5. \A v \in Worker \ {w} : /\ pc'[v] = pc[v] /\ act'[v] = act[v]
                              /\ base'[v] = base[v] /\ ws'[v] = ws[v]
  BY DEF Forget, PublicationInv, TypeInv, TypeOK
<1>6. QED
  BY <1>1, <1>2, <1>4, <1>5, OneRequestMoves

\* What is appended to the branch comes after everything that was there.
LEMMA PushAppends ==
    ASSUME TypeOK, NEW c, branch' = Append(branch, c)
    PROVE  /\ Tip' = Tip + 1
           /\ branch'[Tip + 1] = c
           /\ \A i \in 1 .. Tip : branch'[i] = branch[i]
<1>1. branch \in Seq(Commit)
  BY DEF TypeOK
<1>2. QED
  BY <1>1 DEF Tip

\* The commit that lands is one its request has checked.
LEMMA InvLands ==
    ASSUME PublicationInv, TypeInv', NEW w \in Worker, pc[w] = "push", Lands(w),
           UNCHANGED <<pending, act, base, ws>>, pc'[w] = "done",
           \A v \in Worker \ {w} : pc'[v] = pc[v]
    PROVE  PublicationInv'
<1> DEFINE c == [tree |-> CommitTree(w), by |-> act[w], calm |-> steady[w]]
<1>1. branch' = Append(branch, c) /\ base[w] = Tip
  BY DEF Lands
<1>2. /\ Tip \in Nat /\ Tip >= 1 /\ Tip' = Tip + 1 /\ branch'[Tip + 1] = c
      /\ \A i \in 1 .. Tip : branch'[i] = branch[i]
  BY <1>1, PushAppends, BranchFacts DEF PublicationInv, TypeInv
<1>3. HistoryKept
  BY <1>2 DEF HistoryKept
<1>4. RequestOK(w) /\ act[w] \in Action /\ pending[act[w]] # NoAction
  BY DEF PublicationInv, TypeInv, ControlOK
<1>5. RequestOK(w)'
  BY <1>2, <1>4, RequestAtRest DEF RequestOK
<1>6. ASSUME NEW k \in Nat, k = Tip + 1 PROVE CommitOK(k)'
  <2>1. /\ PreconditionsHold(TreeAt(Tip), pending[act[w]])
        /\ pending[act[w]].bound => pending[act[w]].base = Tip
    BY <1>1, <1>4 DEF RequestOK, Checked
  <2>2. k - 1 = Tip /\ branch'[k].by = act[w] /\ branch'[k - 1].tree = TreeAt(Tip)
    BY <1>2, <1>6 DEF TreeAt
  <2>3. (SealOf(k))' = pending[act[w]] /\ (TreeAt(k - 1))' = TreeAt(Tip)
    BY <2>2 DEF SealOf, TreeAt
  <2>4. QED
    BY <1>4, <2>1, <2>2, <2>3 DEF CommitOK
<1>7. \A i \in 2 .. Tip' : i \in 2 .. Tip \/ (i \in Nat /\ i = Tip + 1)
  BY <1>2
<1>8. \A i \in 2 .. Tip' : CommitOK(i)'
  BY <1>3, <1>6, <1>7, KnownStaysKnown
<1>9. \A v \in Worker \ {w} : RequestOK(v)'
  BY <1>3, KnownStaysKnown
<1>10. QED
  BY <1>5, <1>8, <1>9 DEF PublicationInv

LEMMA InvPush ==
    ASSUME PublicationInv, NEW w \in Worker, Push(w)
    PROVE  PublicationInv'
<1>1. TypeInv'
  BY TypePush DEF PublicationInv, RequestOK
<1>2. /\ pc[w] = "push" /\ pc'[w] = "done" /\ UNCHANGED <<pending, act, base, ws>>
      /\ \A v \in Worker \ {w} : pc'[v] = pc[v]
  BY DEF Push, Finish, PublicationInv, TypeInv, TypeOK
<1>3. CASE Lands(w)
  BY <1>1, <1>2, <1>3, InvLands
<1>4. CASE UNCHANGED branch
  <2>1. base'[w] \in 1 .. Tip'
    BY <1>2, <1>4 DEF Tip, PublicationInv, RequestOK
  <2>2. RequestOK(w)'
    BY <1>2, <2>1, RequestAtRest
  <2>3. QED
    BY <1>1, <1>2, <1>4, <2>2, OneRequestMoves
<1>5. QED
  BY <1>3, <1>4 DEF Push

\* The world around the requests: the clock, other people's pushes, new seals.
LEMMA InvWorld ==
    ASSUME PublicationInv,
           Tick \/ UserPush \/ \E a \in Action : Prepare(a)
    PROVE  PublicationInv'
<1>1. TypeInv'
  BY TypeTick, TypeUserPush, TypePrepare DEF PublicationInv
<1>2. UNCHANGED <<pc, act, base, ws>>
  BY DEF Tick, UserPush, Prepare, worker
<1>3. CASE Tick
  <2>1. UNCHANGED <<branch, pending>>
    BY <1>3 DEF Tick
  <2>2. HistoryKept /\ Tip' = Tip
    BY <2>1, HistoryUnchanged
  <2>3. QED
    BY <1>1, <1>2, <2>2, KnownStaysKnown DEF PublicationInv
<1>4. CASE UserPush
  <2>1. PICK t \in UserEdits(TreeAt(Tip)) :
           branch' = Append(branch, [tree |-> t, by |-> User, calm |-> TRUE])
    BY <1>4 DEF UserPush
  <2>2. /\ Tip \in Nat /\ Tip >= 1 /\ Tip' = Tip + 1
        /\ branch'[Tip + 1].by = User
        /\ \A i \in 1 .. Tip : branch'[i] = branch[i]
    <3>1. TypeOK
      BY DEF PublicationInv, TypeInv
    <3>2. branch'[Tip + 1] = [tree |-> t, by |-> User, calm |-> TRUE]
      BY <2>1, <3>1, PushAppends
    <3>3. Tip' = Tip + 1 /\ \A i \in 1 .. Tip : branch'[i] = branch[i]
      BY <2>1, <3>1, PushAppends
    <3>4. branch'[Tip + 1].by = User
      BY <3>2
    <3>5. QED
      BY <3>1, <3>3, <3>4, BranchFacts
  <2>3. HistoryKept
    <3>1. UNCHANGED pending
      BY <1>4 DEF UserPush
    <3>2. QED
      BY <2>2, <3>1 DEF HistoryKept
  <2>4. ASSUME NEW k \in Nat, k = Tip + 1 PROVE CommitOK(k)'
    BY <2>2, <2>4 DEF CommitOK, ByAgent
  <2>5. \A i \in 2 .. Tip' : i \in 2 .. Tip \/ (i \in Nat /\ i = Tip + 1)
    BY <2>2
  <2>6. \A i \in 2 .. Tip' : CommitOK(i)'
    BY <2>3, <2>4, <2>5, KnownStaysKnown
  <2>7. \A w \in Worker : RequestOK(w)'
    BY <1>2, <2>3, KnownStaysKnown
  <2>8. QED
    BY <1>1, <2>6, <2>7 DEF PublicationInv
<1>5. CASE \E a \in Action : Prepare(a)
  <2>1. PICK a \in Action : Prepare(a)
    BY <1>5
  <2>2. \A b \in Action : pending[b] # NoAction => pending'[b] = pending[b]
    BY <2>1 DEF Prepare, PublicationInv, TypeInv, TypeOK
  <2>3. HistoryKept /\ Tip' = Tip
    BY <2>1, <2>2, BranchFacts DEF Prepare, HistoryKept, Tip, PublicationInv, TypeInv
  <2>4. QED
    BY <1>1, <1>2, <2>3, KnownStaysKnown DEF PublicationInv
<1>6. QED
  BY <1>3, <1>4, <1>5

LEMMA InvInit == Init => PublicationInv
<1> SUFFICES ASSUME Init PROVE PublicationInv
  OBVIOUS
<1>1. TypeInv
  BY TypeInit
<1>2. Tip = 1
  BY DEF Init, Tip
<1>3. \A w \in Worker : RequestOK(w)
  BY <1>2 DEF Init, RequestOK, Fresh, Checked
<1>4. QED
  BY <1>1, <1>2, <1>3 DEF PublicationInv

LEMMA InvStep == PublicationInv /\ [Next]_vars => PublicationInv'
<1> SUFFICES ASSUME PublicationInv, [Next]_vars PROVE PublicationInv'
  OBVIOUS
<1>1. CASE Tick \/ UserPush \/ \E a \in Action : Prepare(a)
  BY <1>1, InvWorld
<1>2. ASSUME NEW w \in Worker, NEW a \in Action, Open(w, a) PROVE PublicationInv'
  BY <1>2, InvOpen
<1>3. ASSUME NEW w \in Worker, Apply(w) \/ Fault(w) \/ Crash(w) PROVE PublicationInv'
  BY <1>3, InvChecks, InvReplay, InvPush, InvForget DEF Apply, Crash, Close
<1>4. CASE UNCHANGED vars
  <2>1. UNCHANGED <<branch, pending, pc, act, base, ws>>
    BY <1>4 DEF vars, worker
  <2>2. TypeInv'
    BY <1>4 DEF vars, worker, PublicationInv, TypeInv, TypeOK, ControlOK, PlanOf
  <2>3. QED
    BY <2>1, <2>2, HistoryUnchanged, KnownStaysKnown DEF PublicationInv
<1>5. QED
  BY <1>1, <1>2, <1>3, <1>4 DEF Next

\* The invariant the theorems below rest on.
THEOREM PublicationInvariant == Spec => []PublicationInv
BY InvInit, InvStep, PTL DEF Spec

\* Every variable keeps its type: whatever is interleaved with a replay, it
\* works on a tree, and its step stays within the plan.
THEOREM TypeCorrect == Spec => []TypeOK
<1>1. PublicationInv => TypeOK
  BY DEF PublicationInv, TypeInv
<1>2. QED
  BY <1>1, PublicationInvariant, PTL

\* However requests, users' pushes, the clock, faults and crashes interleave,
\* an agent's commit follows a revision that meets everything its plan was
\* sealed against (executor.py, preconditions_hold and the fast-forward push).
THEOREM NoStalePlanIsPublished == Spec => []StalePlanNeverPublished
<1>1. PublicationInv => StalePlanNeverPublished
  BY DEF PublicationInv, CommitOK, StalePlanNeverPublished
<1>2. QED
  BY <1>1, PublicationInvariant, PTL

\* Nobody's push is undone and the user's own file is left to the user, at every
\* step of every request: a push lands on the head it was made on, and only
\* captured sidecar files are staged (workspace.py commit_and_push).
THEOREM NoPushIsUndone == Spec => PushesSurvive
<1> DEFINE Grown == /\ Tip' >= Tip
                    /\ \A i \in 1 .. Tip : branch'[i] = branch[i]
                    /\ Tip' > Tip /\ branch'[Tip + 1].by # User =>
                          branch'[Tip + 1].tree[EntryFile] = TreeAt(Tip)[EntryFile]
<1>1. ASSUME PublicationInv, NEW w \in Worker, pc[w] = "push", Lands(w) PROVE Grown
  <2>1. TypeOK /\ base[w] = Tip /\ Tip \in Nat /\ Tip >= 1
    BY <1>1, BranchFacts DEF PublicationInv, TypeInv, Lands
  <2>2. branch' = Append(branch, [tree |-> CommitTree(w), by |-> act[w],
                                  calm |-> steady[w]])
    BY <1>1 DEF Lands
  <2>3. /\ Tip' = Tip + 1 /\ \A i \in 1 .. Tip : branch'[i] = branch[i]
        /\ branch'[Tip + 1].tree = CommitTree(w)
    <3>1. /\ Tip' = Tip + 1 /\ \A i \in 1 .. Tip : branch'[i] = branch[i]
          /\ branch'[Tip + 1] = [tree |-> CommitTree(w), by |-> act[w],
                                 calm |-> steady[w]]
      BY <2>1, <2>2, PushAppends
    <3>2. QED
      BY <3>1
  <2>4. EntryFile \notin ChangedPaths(w)
    BY <2>1, PathFacts DEF ChangedPaths, TypeOK, IsCapture
  <2>5. CommitTree(w)[EntryFile] = TreeAt(Tip)[EntryFile]
    BY <2>1, <2>4, PathFacts DEF CommitTree
  <2>6. QED
    BY <2>1, <2>3, <2>5
<1>2. ASSUME PublicationInv, UserPush PROVE Grown
  <2>1. PICK t \in UserEdits(TreeAt(Tip)) :
           branch' = Append(branch, [tree |-> t, by |-> User, calm |-> TRUE])
    BY <1>2 DEF UserPush
  <2>2. TypeOK /\ Tip \in Nat
    BY <1>2, BranchFacts DEF PublicationInv, TypeInv
  <2>3. branch'[Tip + 1] = [tree |-> t, by |-> User, calm |-> TRUE]
    BY <2>1, <2>2, PushAppends
  <2>4. branch'[Tip + 1].by = User
    BY <2>3
  <2>5. Tip' = Tip + 1 /\ \A i \in 1 .. Tip : branch'[i] = branch[i]
    BY <2>1, <2>2, PushAppends
  <2>6. QED
    BY <2>2, <2>4, <2>5
<1>3. ASSUME PublicationInv, UNCHANGED branch PROVE Grown
  BY <1>3, BranchFacts DEF PublicationInv, TypeInv, Tip
<1>4. ASSUME Next
      PROVE  \/ UNCHANGED branch \/ UserPush
             \/ \E w \in Worker : pc[w] = "push" /\ Lands(w)
  BY <1>4 DEF Next, Tick, Prepare, Open, Apply, Verify, CheckWriteSet,
              CaptureOriginals, CheckPreconditions, ReplayCreate, ReplayInclude,
              ReplayEdit, Validate, CommitLocally, Push, Fault, Crash, Close, Forget
<1>5. PublicationInv /\ [Next]_vars => [Grown]_branch
  BY <1>1, <1>2, <1>3, <1>4 DEF vars
<1>6. [Grown]_branch =>
        [/\ Len(branch') >= Tip
         /\ \A i \in 1 .. Tip : branch'[i] = branch[i]
         /\ Len(branch') > Tip /\ branch'[Tip + 1].by # User
               => branch'[Tip + 1].tree[EntryFile] = TreeAt(Tip)[EntryFile]]_branch
  BY DEF Tip
<1>7. QED
  BY <1>5, <1>6, PublicationInvariant, PTL DEF PushesSurvive, Spec

\* A bound action is published once at most, however often it is sent again and
\* whatever was reported of earlier pushes: its second commit would have to
\* follow the very commit its first one already follows.
THEOREM BoundActionsArePublishedOnce == Spec => []BoundActionPublishedOnce
<1>1. PublicationInv => BoundActionPublishedOnce
  <2> SUFFICES ASSUME PublicationInv, NEW a \in Action, pending[a] # NoAction,
                      pending[a].bound
               PROVE  Cardinality(Published(a)) <= 1
    BY DEF BoundActionPublishedOnce
  <2>1. ASSUME NEW i \in Published(a) PROVE i \in Nat /\ pending[a].base = i - 1
    <3>1. i \in 2 .. Tip /\ branch[i].by = a /\ a # User
      BY PublicationAssumption DEF Published
    <3>2. CommitOK(i) /\ ByAgent(i) /\ SealOf(i) = pending[a]
      BY <3>1 DEF PublicationInv, ByAgent, SealOf
    <3>3. QED
      BY <3>1, <3>2 DEF CommitOK
  <2>2. \A i, j \in Published(a) : i = j
    BY <2>1
  <2>3. CASE Published(a) = {}
    BY <2>3, FS_EmptySet
  <2>4. CASE Published(a) # {}
    <3>1. PICK i \in Published(a) : TRUE
      BY <2>4
    <3>2. Published(a) = {i}
      BY <2>2, <3>1
    <3>3. QED
      BY <3>2, FS_Singleton
  <2>5. QED
    BY <2>3, <2>4
<1>2. QED
  BY <1>1, PublicationInvariant, PTL

-----------------------------------------------------------------------------
(* A steady apply.                                                         *)

\* The files a request's seal covers.
SealedFiles(w) == DOMAIN pending[act[w]].pre

\* While every reading of the calendar has agreed with the seal, a request has
\* captured the sealed files and strayed from its revision in no other; what it
\* commits has passed bean-check.
CalmOK(w) ==
    /\ pc[w] = "include" => Creates(PlanOf(w)[step[w]])
    /\ steady[w] =>
        /\ pc[w] \in {"preconditions"} \cup Checked =>
              originals[w] = Snapshot(TreeAt(base[w]), SealedFiles(w))
        /\ pc[w] \in Checked =>
              \A p \in Path \ SealedFiles(w) : ws[w][p] = TreeAt(base[w])[p]
        /\ pc[w] = "include" => target[w] \in SealedFiles(w)
        /\ pc[w] \in {"commit", "push"} => BeanCheck(ws[w])

\* A commit made in the calm is one that passes bean-check.
CalmCommit(i) == ByAgent(i) /\ branch[i].calm => BeanCheck(TreeAt(i))

CalmInv ==
    /\ \A w \in Worker : CalmOK(w)
    /\ \A i \in 2 .. Tip : CalmCommit(i)

\* What a creating operation writes to, in the month that was sealed.
LEMMA CreatedFilesAreSealed ==
    ASSUME TypeInv, NEW w \in Worker, pc[w] \in {"replay", "include"},
           Creates(PlanOf(w)[step[w]]), WriteSetMatches(w)
    PROVE  MainFile \in SealedFiles(w) /\ MonthFile(month) \in SealedFiles(w)
<1>1. step[w] \in DOMAIN PlanOf(w)
  BY PlanOfFacts
<1>2. {MainFile, MonthFile(month)} \subseteq PotentialWriteTargets(PlanOf(w), month)
  BY <1>1 DEF PotentialWriteTargets
<1>3. QED
  BY <1>2 DEF WriteSetMatches, SealedFiles

\* What an edit writes to is sealed, in any month.
LEMMA EditedFileIsSealed ==
    ASSUME TypeInv, NEW w \in Worker, pc[w] = "replay", ~Creates(PlanOf(w)[step[w]])
    PROVE  PlanOf(w)[step[w]].file \in SealedFiles(w)
<1>1. step[w] \in DOMAIN PlanOf(w) /\ IsSealed(pending[act[w]])
  BY PlanOfFacts
<1>2. PlanOf(w)[step[w]].file \in PotentialWriteTargets(PlanOf(w), pending[act[w]].month)
  BY <1>1 DEF PotentialWriteTargets
<1>3. QED
  BY <1>1, <1>2 DEF IsSealed, SealedFiles, PlanOf

\* The seal of a request and the revision it works on do not change under it.
LEMMA CalmStaysCalm ==
    ASSUME PublicationInv, CalmInv, HistoryKept,
           NEW w \in Worker, pc'[w] = pc[w], act'[w] = act[w], base'[w] = base[w],
           ws'[w] = ws[w], originals'[w] = originals[w], step'[w] = step[w],
           target'[w] = target[w], steady'[w] = steady[w]
    PROVE  CalmOK(w)'
<1>1. base[w] \in 1 .. Tip /\ Tip \in Nat
  BY BranchFacts DEF PublicationInv, RequestOK, TypeInv
<1>2. TreeAt(base[w])' = TreeAt(base[w])
  BY <1>1 DEF HistoryKept, TreeAt
<1>3. pc[w] # "idle" => pending'[act[w]] = pending[act[w]]
  BY DEF PublicationInv, TypeInv, ControlOK, HistoryKept
<1>4. pc[w] # "idle" => SealedFiles(w)' = SealedFiles(w) /\ PlanOf(w)' = PlanOf(w)
  BY <1>3 DEF SealedFiles, PlanOf
<1>5. CalmOK(w)
  BY DEF CalmInv
<1>6. pc[w] \in {"preconditions", "include", "commit", "push"} \cup Checked
         => pc[w] # "idle"
  BY DEF Checked
<1>7. QED
  BY <1>2, <1>4, <1>5, <1>6 DEF CalmOK

\* A published commit is not changed afterwards.
LEMMA CalmCommitsStay ==
    ASSUME PublicationInv, CalmInv, HistoryKept
    PROVE  \A i \in 2 .. Tip : CalmCommit(i)'
<1>1. Tip \in Nat
  BY BranchFacts DEF PublicationInv, TypeInv
<1>2. QED
  BY <1>1 DEF CalmInv, HistoryKept, CalmCommit, ByAgent, TreeAt

\* While a request does not touch the branch, what it is measured by stays.
LEMMA SameMeasure ==
    ASSUME NEW w \in Worker, UNCHANGED <<branch, pending, act, base>>
    PROVE  /\ (TreeAt(base[w]))' = TreeAt(base[w])
           /\ SealedFiles(w)' = SealedFiles(w)
           /\ PlanOf(w)' = PlanOf(w)
BY DEF TreeAt, SealedFiles, PlanOf

LEMMA CalmChecks ==
    ASSUME PublicationInv, CalmInv, NEW w \in Worker,
           Verify(w) \/ CheckWriteSet(w) \/ CheckPreconditions(w)
    PROVE  CalmOK(w)'
<1>1. /\ UNCHANGED <<branch, pending, act, base, ws, originals, target, steady>>
      /\ pc \in [Worker -> Phase] /\ CalmOK(w) /\ RequestOK(w)
  BY DEF Verify, CheckWriteSet, CheckPreconditions, PublicationInv, TypeInv, TypeOK,
         CalmInv
<1>2. CASE pc'[w] \in {"writeset", "snapshot", "done"}
  BY <1>2 DEF CalmOK, Checked
<1>3. CASE pc'[w] \notin {"writeset", "snapshot", "done"}
  <2>1. /\ pc[w] = "preconditions" /\ pc'[w] = "replay"
    BY <1>1, <1>3 DEF Verify, CheckWriteSet, CheckPreconditions, Goto, Finish
  <2>2. ws[w] = TreeAt(base[w])
    BY <1>1, <2>1 DEF RequestOK, Fresh
  <2>3. QED
    BY <1>1, <2>1, <2>2, SameMeasure DEF CalmOK, Checked
<1>4. QED
  BY <1>2, <1>3

LEMMA CalmCapture ==
    ASSUME PublicationInv, CalmInv, NEW w \in Worker, CaptureOriginals(w)
    PROVE  CalmOK(w)'
<1>1. /\ UNCHANGED <<branch, pending, act, base, ws>> /\ pc'[w] = "preconditions"
      /\ originals'[w] = Snapshot(ws[w], PotentialWriteTargets(PlanOf(w), month))
      /\ steady'[w] = WriteSetMatches(w)
      /\ ws[w] = TreeAt(base[w])
  BY DEF CaptureOriginals, Goto, PublicationInv, TypeInv, TypeOK, RequestOK, Fresh
<1>2. steady'[w] => originals'[w] = Snapshot(TreeAt(base[w]), SealedFiles(w))
  BY <1>1 DEF WriteSetMatches, SealedFiles
<1>3. QED
  BY <1>1, <1>2, SameMeasure DEF CalmOK, Checked

LEMMA CalmReplayCreate ==
    ASSUME PublicationInv, CalmInv, NEW w \in Worker, ReplayCreate(w)
    PROVE  CalmOK(w)'
<1>1. /\ UNCHANGED <<branch, pending, act, base, originals, step>>
      /\ pc[w] = "replay" /\ pc'[w] = "include" /\ Creates(PlanOf(w)[step[w]])
      /\ ws'[w] = EnsureMonthFile(ws[w], month) /\ target'[w] = MonthFile(month)
      /\ steady'[w] => steady[w] /\ WriteSetMatches(w)
      /\ ws[w] \in Tree /\ month \in Month /\ TypeInv
  BY DEF ReplayCreate, Goto, PublicationInv, TypeInv, TypeOK
<1>2. CASE ~steady'[w]
  BY <1>1, <1>2, SameMeasure DEF CalmOK
<1>3. CASE steady'[w]
  <2>1. MonthFile(month) \in SealedFiles(w)
    BY <1>1, <1>3, CreatedFilesAreSealed
  <2>2. \A p \in Path \ SealedFiles(w) : ws'[w][p] = ws[w][p]
    BY <1>1, <2>1, EnsureMonthFileTree
  <2>3. CalmOK(w)
    BY DEF CalmInv
  <2>4. QED
    BY <1>1, <1>3, <2>1, <2>2, <2>3, SameMeasure DEF CalmOK, Checked
<1>4. QED
  BY <1>2, <1>3

\* Moving on to the next operation, or to the check, keeps a request calm.
LEMMA CalmNextOperation ==
    ASSUME PublicationInv, CalmInv, NEW w \in Worker, pc[w] \in {"replay", "include"},
           NextOperation(w), UNCHANGED <<branch, pending, act, base, originals>>,
           steady'[w] => steady[w],
           steady'[w] => \A p \in Path \ SealedFiles(w) : ws'[w][p] = ws[w][p]
    PROVE  CalmOK(w)'
<1>1. pc'[w] \in {"check", "replay"}
  BY NextOperationFacts DEF PublicationInv
<1>2. CalmOK(w)
  BY DEF CalmInv
<1>3. QED
  BY <1>1, <1>2, SameMeasure DEF CalmOK, Checked

LEMMA CalmReplayInclude ==
    ASSUME PublicationInv, CalmInv, NEW w \in Worker, ReplayInclude(w)
    PROVE  CalmOK(w)'
<1> DEFINE tree == EnsureInclude(ws[w], month)
           op   == PlanOf(w)[step[w]]
<1>1. /\ UNCHANGED <<branch, pending, act, base, originals>>
      /\ pc[w] = "include" /\ NextOperation(w)
      /\ ws'[w] = WriteItem(tree, op, target[w])
      /\ steady'[w] => steady[w] /\ WriteSetMatches(w)
      /\ ws[w] \in Tree /\ month \in Month /\ target[w] \in Sidecar /\ TypeInv
      /\ ws[w][target[w]] # NoFile
  BY DEF ReplayInclude, PublicationInv, TypeInv, TypeOK, ControlOK
<1>2. op \in Operation
  BY <1>1, PlanOfFacts
<1>3. CalmOK(w) /\ Creates(op)
  BY <1>1 DEF CalmInv, CalmOK
<1>4. tree \in Tree /\ tree[MainFile] # NoFile /\ tree[target[w]] # NoFile
  BY <1>1, EnsureIncludeTree, PathFacts
<1>5. ASSUME steady'[w], NEW p \in Path \ SealedFiles(w)
      PROVE  ws'[w][p] = ws[w][p]
  <2>1. MainFile \in SealedFiles(w) /\ target[w] \in SealedFiles(w)
    BY <1>1, <1>3, <1>5, CreatedFilesAreSealed DEF CalmOK
  <2>2. p \notin {MainFile, target[w]}
    BY <2>1
  <2>3. WriteItem(tree, op, target[w])[p] = tree[p]
    BY <1>1, <1>2, <1>4, <2>2, WriteItemTree
  <2>4. tree[p] = ws[w][p]
    BY <1>1, <2>2, EnsureIncludeTree
  <2>5. QED
    BY <1>1, <2>3, <2>4
<1>6. QED
  BY <1>1, <1>5, CalmNextOperation

LEMMA CalmReplayEdit ==
    ASSUME PublicationInv, CalmInv, NEW w \in Worker, ReplayEdit(w)
    PROVE  CalmOK(w)'
<1> DEFINE op == PlanOf(w)[step[w]]
<1>1. /\ UNCHANGED <<branch, pending, act, base, originals, steady>>
      /\ pc[w] = "replay" /\ ~Creates(op) /\ ws[w] \in Tree /\ TypeInv
  BY DEF ReplayEdit, PublicationInv, TypeInv, TypeOK
<1>2. CASE EditApplies(ws[w], op)
  <2>1. NextOperation(w) /\ ws'[w] = EditItem(ws[w], op)
    BY <1>2 DEF ReplayEdit, PublicationInv, TypeInv, TypeOK
  <2>2. op \in Operation /\ op.file \in SealedFiles(w)
    BY <1>1, PlanOfFacts, EditedFileIsSealed
  <2>3. \A p \in Path \ SealedFiles(w) : ws'[w][p] = ws[w][p]
    BY <1>1, <1>2, <2>1, <2>2, EditItemTree
  <2>4. QED
    BY <1>1, <2>1, <2>3, CalmNextOperation
<1>3. CASE ~EditApplies(ws[w], op)
  <2>1. pc'[w] = "done"
    BY <1>3 DEF ReplayEdit, Finish, PublicationInv, TypeInv, TypeOK
  <2>2. QED
    BY <2>1 DEF CalmOK, Checked
<1>4. QED
  BY <1>2, <1>3

\* bean-check passes on what is committed, and a push changes no workspace.
LEMMA CalmValidate ==
    ASSUME PublicationInv, CalmInv, NEW w \in Worker, Validate(w) \/ CommitLocally(w)
    PROVE  CalmOK(w)'
<1>1. /\ UNCHANGED <<branch, pending, act, base, originals, steady>> /\ CalmOK(w)
      /\ pc \in [Worker -> Phase]
  BY DEF Validate, CommitLocally, CalmInv, PublicationInv, TypeInv, TypeOK
<1>2. CASE pc'[w] = "done"
  BY <1>2 DEF CalmOK, Checked
<1>3. CASE pc'[w] # "done"
  <2>1. /\ pc[w] \in {"check", "commit"} /\ pc'[w] \in {"commit", "push"}
        /\ ws'[w] = ws[w] /\ (pc[w] = "check" => BeanCheck(ws[w]))
    BY <1>1, <1>3 DEF Validate, CommitLocally, Goto, Finish
  <2>2. QED
    BY <1>1, <2>1, SameMeasure DEF CalmOK, Checked
<1>4. QED
  BY <1>2, <1>3

\* A request that answers, is forgotten or starts has nothing to be measured by.
LEMMA CalmAtRest ==
    ASSUME NEW w \in Worker, pc'[w] \in {"idle", "done", "verify"}
    PROVE  CalmOK(w)'
BY DEF CalmOK, Checked

-----------------------------------------------------------------------------
(* What a calm request pushes, and that every step keeps requests calm.      *)

\* A calm request commits its workspace as bean-check saw it: whatever it wrote
\* is among the captured files.
LEMMA CalmCommitTree ==
    ASSUME PublicationInv, CalmInv, NEW w \in Worker, pc[w] = "push", steady[w]
    PROVE  /\ BeanCheck(CommitTree(w))
           /\ \A p \in Path \ SealedFiles(w) : CommitTree(w)[p] = TreeAt(base[w])[p]
<1>1. /\ originals[w] = Snapshot(TreeAt(base[w]), SealedFiles(w))
      /\ \A p \in Path \ SealedFiles(w) : ws[w][p] = TreeAt(base[w])[p]
      /\ BeanCheck(ws[w]) /\ ws[w] \in Tree
  BY DEF CalmInv, CalmOK, Checked, PublicationInv, TypeInv, TypeOK
<1>2. ASSUME NEW p \in Path
      PROVE  (IF p \in ChangedPaths(w) THEN ws[w][p] ELSE TreeAt(base[w])[p]) = ws[w][p]
  BY <1>1 DEF ChangedPaths, Snapshot
<1>3. CommitTree(w) = [p \in Path |-> ws[w][p]]
  BY <1>2 DEF CommitTree
<1>4. CommitTree(w) = ws[w]
  BY <1>1, <1>3 DEF Tree
<1>5. QED
  BY <1>1, <1>4

\* A step in which at most one request moves keeps the others calm.
LEMMA CalmOthers ==
    ASSUME PublicationInv, CalmInv, HistoryKept, NEW w \in Worker,
           \A v \in Worker \ {w} :
              /\ pc'[v] = pc[v] /\ act'[v] = act[v] /\ base'[v] = base[v]
              /\ ws'[v] = ws[v] /\ originals'[v] = originals[v] /\ step'[v] = step[v]
              /\ target'[v] = target[v] /\ steady'[v] = steady[v]
    PROVE  \A v \in Worker \ {w} : CalmOK(v)'
BY CalmStaysCalm

\* The request that moves stays calm, whatever step it takes.
LEMMA CalmRequest ==
    ASSUME PublicationInv, CalmInv, NEW w \in Worker,
           (\E a \in Action : Open(w, a)) \/ Apply(w) \/ Fault(w) \/ Crash(w)
    PROVE  CalmOK(w)'
<1>1. pc \in [Worker -> Phase]
  BY DEF PublicationInv, TypeInv, TypeOK
<1>2. ASSUME NEW a \in Action, Open(w, a) PROVE CalmOK(w)'
  <2>1. pc'[w] \in {"done", "verify"}
    BY <1>1, <1>2 DEF Open, Finish
  <2>2. QED
    BY <2>1, CalmAtRest
<1>3. CASE Push(w) \/ Fault(w) \/ Close(w) \/ Crash(w)
  <2>1. pc'[w] \in {"done", "idle"}
    BY <1>1, <1>3 DEF Push, Fault, Close, Crash, Forget, Finish
  <2>2. QED
    BY <2>1, CalmAtRest
<1>4. QED
  BY <1>2, <1>3, CalmChecks, CalmCapture, CalmReplayCreate, CalmReplayInclude,
     CalmReplayEdit, CalmValidate DEF Apply

\* No step of one request moves another.
LEMMA OthersDoNotMove ==
    ASSUME TypeInv, NEW w \in Worker,
           (\E a \in Action : Open(w, a)) \/ Apply(w) \/ Fault(w) \/ Crash(w),
           NEW v \in Worker \ {w}
    PROVE  /\ pc'[v] = pc[v] /\ act'[v] = act[v] /\ base'[v] = base[v]
           /\ ws'[v] = ws[v] /\ originals'[v] = originals[v] /\ step'[v] = step[v]
           /\ target'[v] = target[v] /\ steady'[v] = steady[v]
<1>1. TypeOK
  BY DEF TypeInv
<1>2. CASE \E a \in Action : Open(w, a)
  BY <1>1, <1>2 DEF TypeOK, Open, Finish
<1>3. CASE Verify(w) \/ CheckWriteSet(w) \/ CaptureOriginals(w) \/ CheckPreconditions(w)
  BY <1>1, <1>3 DEF TypeOK, Verify, CheckWriteSet, CaptureOriginals,
                    CheckPreconditions, Goto, Finish
<1>4. CASE ReplayCreate(w) \/ ReplayInclude(w) \/ ReplayEdit(w)
  BY <1>1, <1>4 DEF TypeOK, ReplayCreate, ReplayInclude, ReplayEdit, NextOperation,
                    Goto, Finish
<1>5. CASE Validate(w) \/ CommitLocally(w) \/ Push(w) \/ Fault(w)
  BY <1>1, <1>5 DEF TypeOK, Validate, CommitLocally, Push, Fault, Goto, Finish
<1>6. CASE Close(w) \/ Crash(w)
  BY <1>1, <1>6 DEF TypeOK, Close, Crash, Forget
<1>7. QED
  BY <1>2, <1>3, <1>4, <1>5, <1>6 DEF Apply

-----------------------------------------------------------------------------
(* The abstract specification speaks of the same ledger.                     *)

LEMMA SameLedger ==
    /\ Approved!Path = Path /\ Approved!EntryFile = EntryFile
    /\ \A tree : Approved!Included(tree) = Included(tree)
    /\ \A tree, d : Approved!Declared(tree, d) = Declared(tree, d)
<1>1. Approved!Path = Path /\ Approved!EntryFile = EntryFile /\ Approved!MainFile = MainFile
  BY DEF Approved!Path, Path, Approved!EntryFile, EntryFile, Approved!Sidecar, Sidecar,
         Approved!MainFile, MainFile, Approved!MonthFile, MonthFile, Approved!Month, Month
<1>2. Approved!Month = Month /\ \A m : /\ Approved!MonthFile(m) = MonthFile(m)
                                       /\ Approved!IncludeOf(m) = IncludeOf(m)
  BY DEF Approved!Month, Month, Approved!MonthFile, MonthFile, Approved!IncludeOf, IncludeOf
<1>3. \A tree, p, d : Approved!Holds(tree, p, d) = Holds(tree, p, d)
  BY DEF Approved!Holds, Holds
<1>4. \A tree : Approved!Included(tree) = Included(tree)
  BY <1>1, <1>2, <1>3 DEF Approved!Included, Included
<1>5. \A tree, d : Approved!Declared(tree, d) = Declared(tree, d)
  BY <1>4 DEF Approved!Declared, Declared
<1>6. QED
  BY <1>1, <1>4, <1>5

LEMMA SamePreconditions ==
    \A tree, s : Approved!PreconditionsHold(tree, s) = PreconditionsHold(tree, s)
<1>1. \A tree, a : /\ Approved!AccountState(tree, a) = AccountState(tree, a)
                   /\ Approved!PostingsOf(tree, a) = PostingsOf(tree, a)
  BY SameLedger DEF Approved!AccountState, AccountState, Approved!PostingsOf, PostingsOf,
     Approved!OpenOf, OpenOf, Approved!CloseOf, CloseOf, Approved!TxnOf, TxnOf
<1>2. \A tree, op : Approved!SemanticFact(tree, op) = SemanticFact(tree, op)
  BY <1>1 DEF Approved!SemanticFact, SemanticFact, Approved!EditApplies, EditApplies,
              Approved!Holds, Holds, Approved!Creates, Creates
<1>3. \A tree, plan : Approved!SemanticFacts(tree, plan) = SemanticFacts(tree, plan)
  BY <1>2 DEF Approved!SemanticFacts, SemanticFacts
<1>4. \A tree, paths : Approved!Snapshot(tree, paths) = Snapshot(tree, paths)
  BY DEF Approved!Snapshot, Snapshot
<1>5. QED
  BY <1>3, <1>4 DEF Approved!PreconditionsHold, PreconditionsHold

LEMMA SameBeanCheck == \A tree : Approved!BeanCheck(tree) = BeanCheck(tree)
<1>1. \A tree : Approved!IncludesResolve(tree) = IncludesResolve(tree)
  BY DEF Approved!IncludesResolve, IncludesResolve, Approved!EntryFile, EntryFile,
         Approved!MainFile, MainFile, Approved!Month, Month, Approved!IncludeOf, IncludeOf,
         Approved!MonthFile, MonthFile
<1>2. \A tree, d : Approved!DeclaredOnce(tree, d) = DeclaredOnce(tree, d)
  BY SameLedger DEF Approved!DeclaredOnce, DeclaredOnce
<1>3. \A tree : Approved!AccountsAreOpen(tree) = AccountsAreOpen(tree)
  BY <1>2, SameLedger DEF Approved!AccountsAreOpen, AccountsAreOpen,
     Approved!OpenOf, OpenOf, Approved!CloseOf, CloseOf, Approved!TxnOf, TxnOf
<1>4. QED
  BY <1>1, <1>3 DEF Approved!BeanCheck, BeanCheck

\* What may happen to the branch and to the seals in a step.
Pushes(w) == pc[w] = "push" /\ Lands(w) /\ UNCHANGED pending

LEMMA StepKinds ==
    ASSUME [Next]_vars
    PROVE  \/ UNCHANGED <<branch, pending>>
           \/ UserPush
           \/ \E a \in Action : Prepare(a)
           \/ \E w \in Worker : Pushes(w)
<1>1. CASE UNCHANGED vars
  BY <1>1 DEF vars
<1>2. CASE Tick
  BY <1>2 DEF Tick
<1>3. ASSUME NEW w \in Worker, NEW a \in Action, Open(w, a)
      PROVE  UNCHANGED <<branch, pending>>
  BY <1>3 DEF Open
<1>4. ASSUME NEW w \in Worker, Apply(w) \/ Fault(w) \/ Crash(w)
      PROVE  UNCHANGED <<branch, pending>> \/ Pushes(w)
  BY <1>4 DEF Apply, Verify, CheckWriteSet, CaptureOriginals, CheckPreconditions,
              ReplayCreate, ReplayInclude, ReplayEdit, Validate, CommitLocally, Push,
              Pushes, Fault, Crash, Close, Forget
<1>5. QED
  BY <1>1, <1>2, <1>3, <1>4 DEF Next

\* A commit that is appended comes on top of the head there was.
LEMMA AppendGrows ==
    ASSUME PublicationInv, NEW c, branch' = Append(branch, c), UNCHANGED pending
    PROVE  /\ Approved!Grows /\ HistoryKept
           /\ branch'[Tip + 1] = c /\ Tip' = Tip + 1 /\ Tip \in Nat /\ Tip \in 1 .. Tip
<1>1. TypeOK
  BY DEF PublicationInv, TypeInv
<1>2. /\ Tip' = Tip + 1 /\ branch'[Tip + 1] = c
      /\ \A i \in 1 .. Tip : branch'[i] = branch[i]
  BY <1>1, PushAppends
<1>3. Tip \in Nat /\ Tip \in 1 .. Tip
  BY <1>1, BranchFacts
<1>4. HistoryKept
  <2>1. \A a \in Action : pending'[a] = pending[a]
    OBVIOUS
  <2>2. Tip' \in Nat /\ Tip' >= Tip
    BY <1>2, <1>3
  <2>3. QED
    BY <1>2, <2>1, <2>2 DEF HistoryKept
<1>5. Approved!Grows
  BY <1>2 DEF Approved!Grows, Approved!Tip, Tip
<1>6. QED
  BY <1>2, <1>3, <1>4, <1>5

\* Preparing an action seals it on a revision that meets its preconditions (or
\* is a stutter, should NoAction happen to be that very seal).
LEMMA PrepareSeals ==
    ASSUME PublicationInv, NEW a \in Action, Prepare(a)
    PROVE  HistoryKept /\ (Approved!Seals(a) \/ UNCHANGED <<branch, pending>>)
<1>1. PICK plan \in Plan, i \in 1 .. Tip, bound \in BOOLEAN :
         pending' = [pending EXCEPT ![a] = Seal(TreeAt(i), plan, month, i, bound)]
  BY DEF Prepare
<1> DEFINE s == Seal(TreeAt(i), plan, month, i, bound)
<1>2. DOMAIN pending = Action /\ pending[a] = NoAction /\ UNCHANGED branch
  BY DEF Prepare, PublicationInv, TypeInv, TypeOK
<1>3. /\ pending'[a] = s
      /\ \A b \in Action \ {a} : pending'[b] = pending[b]
  BY <1>1, <1>2
<1>4. HistoryKept
  BY <1>2, <1>3, BranchFacts DEF HistoryKept, Tip, PublicationInv, TypeInv
<1>5. s.pre = Snapshot(TreeAt(i), DOMAIN s.pre) /\ s.facts = SemanticFacts(TreeAt(i), s.plan)
  BY DEF Seal, Snapshot
<1>6. PreconditionsHold(TreeAt(i), s)
  BY <1>5 DEF PreconditionsHold
<1>7. pending' = [pending EXCEPT ![a] = pending'[a]]
  BY <1>1, <1>3
<1>8. \E k \in 1 .. Tip : PreconditionsHold(branch[k].tree, pending'[a])
  BY <1>3, <1>6 DEF TreeAt
<1>9. CASE pending' # pending
  BY <1>9, <1>4, <1>2, <1>7, <1>8, SamePreconditions DEF Approved!Seals, Approved!Tip, Tip
<1>10. CASE pending' = pending
  BY <1>10, <1>2, <1>4
<1>11. QED
  BY <1>9, <1>10

\* A push of a request publishes its action; a user's push is the user's.
LEMMA PushPublishes ==
    ASSUME PublicationInv, CalmInv, NEW w \in Worker, Pushes(w)
    PROVE  /\ HistoryKept /\ Approved!Publishes(act[w]) /\ act[w] \in Action
           /\ \A i \in 2 .. Tip' : CalmCommit(i)'
<1> DEFINE c == [tree |-> CommitTree(w), by |-> act[w], calm |-> steady[w]]
           s == pending[act[w]]
<1>1. branch' = Append(branch, c) /\ base[w] = Tip /\ UNCHANGED pending /\ pc[w] = "push"
  BY DEF Pushes, Lands
<1>2. /\ Approved!Grows /\ HistoryKept
      /\ branch'[Tip + 1] = c /\ Tip' = Tip + 1 /\ Tip \in Nat /\ Tip \in 1 .. Tip
  BY <1>1, AppendGrows
<1>3. /\ act[w] \in Action /\ s # NoAction /\ PreconditionsHold(TreeAt(Tip), s)
      /\ s.bound => s.base = Tip
  BY <1>1 DEF PublicationInv, TypeInv, ControlOK, RequestOK, Checked
<1>4. steady[w] => /\ BeanCheck(CommitTree(w))
                   /\ \A p \in Path \ DOMAIN s.pre : CommitTree(w)[p] = TreeAt(Tip)[p]
  BY <1>1, CalmCommitTree DEF SealedFiles
<1>5. CommitTree(w)[EntryFile] = TreeAt(Tip)[EntryFile]
  <2>1. EntryFile \notin ChangedPaths(w)
    BY PathFacts DEF ChangedPaths, PublicationInv, TypeInv, TypeOK, IsCapture
  <2>2. QED
    BY <1>1, <2>1, PathFacts DEF CommitTree
<1>6. Approved!Publishes(act[w])
  <2>1. Approved!New = c /\ Approved!Tip = Tip /\ branch[Tip].tree = TreeAt(Tip)
    BY <1>2 DEF Approved!New, Approved!Tip, Tip, TreeAt
  <2>2. /\ Approved!New.by = act[w] /\ Approved!New.calm = steady[w]
        /\ Approved!New.tree = CommitTree(w)
    BY <2>1
  <2>3. QED
    BY <1>1, <1>2, <1>3, <1>4, <1>5, <2>1, <2>2, SameLedger, SamePreconditions,
       SameBeanCheck DEF Approved!Publishes
<1>7. ASSUME NEW k \in Nat, k = Tip + 1 PROVE CalmCommit(k)'
  <2>1. branch'[k].calm = steady[w] /\ branch'[k].tree = CommitTree(w)
    BY <1>2, <1>7
  <2>2. QED
    BY <1>4, <2>1 DEF CalmCommit, TreeAt
<1>8. \A i \in 2 .. Tip' : i \in 2 .. Tip \/ (i \in Nat /\ i = Tip + 1)
  BY <1>2
<1>9. \A i \in 2 .. Tip' : CalmCommit(i)'
  BY <1>2, <1>7, <1>8, CalmCommitsStay
<1>10. QED
  BY <1>2, <1>3, <1>6, <1>9

LEMMA UserPushCommits ==
    ASSUME PublicationInv, CalmInv, UserPush
    PROVE  /\ HistoryKept /\ Approved!UserCommits
           /\ \A i \in 2 .. Tip' : CalmCommit(i)'
<1>1. PICK t \in UserEdits(TreeAt(Tip)) :
         branch' = Append(branch, [tree |-> t, by |-> User, calm |-> TRUE])
  BY DEF UserPush
<1>2. UNCHANGED pending
  BY DEF UserPush
<1>3. /\ Approved!Grows /\ HistoryKept /\ Tip' = Tip + 1 /\ Tip \in Nat
      /\ branch'[Tip + 1] = [tree |-> t, by |-> User, calm |-> TRUE]
  BY <1>1, <1>2, AppendGrows
<1>4. branch'[Tip + 1].by = User
  BY <1>3
<1>5. Approved!UserCommits
  BY <1>2, <1>3, <1>4 DEF Approved!UserCommits, Approved!New, Approved!Tip, Tip
<1>6. ASSUME NEW k \in Nat, k = Tip + 1 PROVE CalmCommit(k)'
  BY <1>4, <1>6 DEF CalmCommit, ByAgent
<1>7. \A i \in 2 .. Tip' : i \in 2 .. Tip \/ (i \in Nat /\ i = Tip + 1)
  BY <1>3
<1>8. \A i \in 2 .. Tip' : CalmCommit(i)'
  BY <1>3, <1>6, <1>7, CalmCommitsStay
<1>9. QED
  BY <1>3, <1>5, <1>8

\* Each step is a step of the abstract specification, or none.
LEMMA StepIsApproved ==
    ASSUME PublicationInv, CalmInv, [Next]_vars
    PROVE  /\ HistoryKept
           /\ Approved!Next \/ UNCHANGED <<branch, pending>>
           /\ \A i \in 2 .. Tip' : CalmCommit(i)'
<1>1. CASE UNCHANGED <<branch, pending>>
  BY <1>1, HistoryUnchanged, CalmCommitsStay
<1>2. CASE UserPush
  BY <1>2, UserPushCommits DEF Approved!Next
<1>3. ASSUME NEW a \in Action, Prepare(a)
      PROVE  /\ HistoryKept
             /\ Approved!Next \/ UNCHANGED <<branch, pending>>
             /\ \A i \in 2 .. Tip' : CalmCommit(i)'
  <2>1. HistoryKept /\ (Approved!Next \/ UNCHANGED <<branch, pending>>)
    BY <1>3, PrepareSeals DEF Approved!Next
  <2>2. Tip' = Tip
    BY <1>3 DEF Prepare, Tip
  <2>3. QED
    BY <2>1, <2>2, CalmCommitsStay
<1>4. ASSUME NEW w \in Worker, Pushes(w)
      PROVE  /\ HistoryKept /\ Approved!Next
             /\ \A i \in 2 .. Tip' : CalmCommit(i)'
  BY <1>4, PushPublishes DEF Approved!Next
<1>5. QED
  BY <1>1, <1>2, <1>3, <1>4, StepKinds

LEMMA CalmInit == Init => CalmInv
<1> SUFFICES ASSUME Init PROVE CalmInv
  OBVIOUS
<1>1. Tip = 1 /\ \A w \in Worker : pc[w] = "idle"
  BY DEF Init, Tip
<1>2. QED
  BY <1>1 DEF CalmInv, CalmOK, Checked

LEMMA CalmStep == PublicationInv /\ CalmInv /\ [Next]_vars => CalmInv'
<1> SUFFICES ASSUME PublicationInv, CalmInv, [Next]_vars PROVE CalmInv'
  OBVIOUS
<1>1. HistoryKept /\ \A i \in 2 .. Tip' : CalmCommit(i)'
  BY StepIsApproved
<1>2. CASE UNCHANGED worker
  BY <1>1, <1>2, CalmStaysCalm DEF worker, CalmInv
<1>3. ASSUME NEW w \in Worker,
             (\E a \in Action : Open(w, a)) \/ Apply(w) \/ Fault(w) \/ Crash(w)
      PROVE  CalmInv'
  <2>1. CalmOK(w)'
    BY <1>3, CalmRequest
  <2>2. \A v \in Worker \ {w} : CalmOK(v)'
    BY <1>1, <1>3, OthersDoNotMove, CalmOthers DEF PublicationInv
  <2>3. QED
    BY <1>1, <2>1, <2>2 DEF CalmInv
<1>4. CASE Tick \/ UserPush \/ \E a \in Action : Prepare(a)
  BY <1>2, <1>4 DEF Tick, UserPush, Prepare
<1>5. CASE UNCHANGED vars
  BY <1>2, <1>5 DEF vars
<1>6. QED
  BY <1>3, <1>4, <1>5 DEF Next

THEOREM CalmInvariant == Spec => [](PublicationInv /\ CalmInv)
BY InvInit, InvStep, CalmInit, CalmStep, PTL DEF Spec

\* Whatever users push meanwhile, and although only the captured files are
\* staged, a ledger published in the calm passes bean-check: the check of the
\* workspace is a check of the commit (executor.py, apply_and_publish).
THEOREM CalmLedgersAreValid == Spec => []SteadyLedgerValid
<1>1. CalmInv => SteadyLedgerValid
  BY DEF CalmInv, CalmCommit, SteadyLedgerValid
<1>2. QED
  BY <1>1, CalmInvariant, PTL

\* The protocol implements the atomic publication: every commit that reaches the
\* branch is the step the abstract specification allows, whatever else runs.
THEOREM PublicationRefines == Spec => PublicationIsAtomic
<1>1. Init => Approved!Init
  BY DEF Init, Approved!Init
<1>2. PublicationInv /\ CalmInv /\ [Next]_vars => [Approved!Next]_<<branch, pending>>
  BY StepIsApproved
<1>3. QED
  BY <1>1, <1>2, CalmInvariant, PTL DEF Spec, PublicationIsAtomic, Approved!Spec

-----------------------------------------------------------------------------
(* A failed replay is undone.                                                *)

\* The phases of an apply that restore the captured files when they fail.
LEMMA CalmRestores ==
    ASSUME PublicationInv, CalmInv, NEW w \in Worker, pc[w] \in Replaying, steady[w]
    PROVE  Restore(ws[w], originals[w]) = TreeAt(base[w])
<1> DEFINE tree == TreeAt(base[w])
<1>1. tree \in Tree
  BY BranchFacts DEF PublicationInv, TypeInv, RequestOK
<1>2. originals[w] = Snapshot(tree, SealedFiles(w))
  BY DEF CalmInv, CalmOK, Replaying, Checked
<1>3. \A p \in Path \ SealedFiles(w) : ws[w][p] = tree[p]
  <2>1. CASE pc[w] \in Checked
    BY <2>1 DEF CalmInv, CalmOK
  <2>2. CASE pc[w] \notin Checked
    BY <2>2 DEF PublicationInv, RequestOK, Fresh, Replaying, Checked
  <2>3. QED
    BY <2>1, <2>2
<1> HIDE DEF tree
<1>4. DOMAIN originals[w] = SealedFiles(w) /\ \A p \in SealedFiles(w) : originals[w][p] = tree[p]
  BY <1>2 DEF Snapshot
<1>5. \A p \in Path :
         (IF p \in DOMAIN originals[w] THEN originals[w][p] ELSE ws[w][p]) = tree[p]
  BY <1>3, <1>4
<1>6. Restore(ws[w], originals[w]) = [p \in Path |-> tree[p]]
  BY <1>5 DEF Restore
<1>7. tree = [p \in Path |-> tree[p]]
  BY <1>1 DEF Tree
<1>8. QED
  BY <1>6, <1>7 DEF tree

Failures == {"invalid", "commit_failed", "error"}

\* A request that answers with a failure has restored its workspace.
LEMMA FailureRestores ==
    ASSUME TypeInv, NEW w \in Worker,
           (\E a \in Action : Open(w, a)) \/ Apply(w) \/ Fault(w) \/ Crash(w),
           pc'[w] = "done", outcome'[w] \in Failures
    PROVE  /\ pc[w] \in Replaying
           /\ ws'[w] = Restore(ws[w], originals[w])
           /\ UNCHANGED <<branch, base, steady>>
<1>1. TypeOK
  BY DEF TypeInv
<1>2. CASE \E a \in Action : Open(w, a)
  BY <1>1, <1>2 DEF TypeOK, Open, Finish, Failures
<1>3. CASE Verify(w) \/ CheckWriteSet(w) \/ CaptureOriginals(w) \/ CheckPreconditions(w)
  BY <1>1, <1>3 DEF TypeOK, Verify, CheckWriteSet, CaptureOriginals,
                    CheckPreconditions, Goto, Finish, Failures
<1>4. CASE ReplayCreate(w) \/ ReplayInclude(w) \/ ReplayEdit(w)
  BY <1>1, <1>4 DEF TypeOK, ReplayCreate, ReplayInclude, ReplayEdit, NextOperation,
                    Goto, Finish, Failures
<1>5. CASE Validate(w) \/ CommitLocally(w) \/ Fault(w)
  BY <1>1, <1>5 DEF TypeOK, Validate, CommitLocally, Fault, Goto, Finish, Failures,
                    Replaying
<1>6. CASE Push(w) \/ Close(w) \/ Crash(w)
  BY <1>1, <1>6 DEF TypeOK, Push, Close, Crash, Forget, Finish, Failures
<1>7. QED
  BY <1>2, <1>3, <1>4, <1>5, <1>6 DEF Apply

\* A request that has answered keeps what it answered until it is closed.
LEMMA UndoneStays ==
    ASSUME PublicationInv, FailedReplayUndone, HistoryKept, NEW w \in Worker,
           pc'[w] = pc[w], base'[w] = base[w], ws'[w] = ws[w], steady'[w] = steady[w],
           outcome'[w] = outcome[w]
    PROVE  pc'[w] = "done" /\ steady'[w] /\ outcome'[w] \in Failures
              => ws'[w] = (TreeAt(base[w]))'
<1>1. base[w] \in 1 .. Tip
  BY DEF PublicationInv, RequestOK
<1>2. (TreeAt(base[w]))' = TreeAt(base[w])
  BY <1>1 DEF HistoryKept, TreeAt
<1>3. QED
  BY <1>2 DEF FailedReplayUndone, Failures

LEMMA OthersKeepAnswers ==
    ASSUME TypeInv, NEW w \in Worker,
           (\E a \in Action : Open(w, a)) \/ Apply(w) \/ Fault(w) \/ Crash(w),
           NEW v \in Worker \ {w}
    PROVE  outcome'[v] = outcome[v]
<1>1. outcome \in [Worker -> Outcome]
  BY DEF TypeInv, TypeOK
<1>2. CASE \E a \in Action : Open(w, a)
  BY <1>1, <1>2 DEF Open, Finish
<1>3. CASE Verify(w) \/ CheckWriteSet(w) \/ CaptureOriginals(w) \/ CheckPreconditions(w)
  BY <1>1, <1>3 DEF Verify, CheckWriteSet, CaptureOriginals, CheckPreconditions, Goto, Finish
<1>4. CASE ReplayCreate(w) \/ ReplayInclude(w) \/ ReplayEdit(w)
  BY <1>1, <1>4 DEF ReplayCreate, ReplayInclude, ReplayEdit, NextOperation, Goto, Finish
<1>5. CASE Validate(w) \/ CommitLocally(w) \/ Push(w) \/ Fault(w)
  BY <1>1, <1>5 DEF Validate, CommitLocally, Push, Fault, Goto, Finish
<1>6. CASE Close(w) \/ Crash(w)
  BY <1>1, <1>6 DEF Close, Crash, Forget
<1>7. QED
  BY <1>2, <1>3, <1>4, <1>5, <1>6 DEF Apply

LEMMA UndoneStep ==
    PublicationInv /\ CalmInv /\ FailedReplayUndone /\ [Next]_vars => FailedReplayUndone'
<1> SUFFICES ASSUME PublicationInv, CalmInv, FailedReplayUndone, [Next]_vars
             PROVE  FailedReplayUndone'
  OBVIOUS
<1> DEFINE Undone(w) == pc[w] = "done" /\ steady[w] /\ outcome[w] \in Failures
                           => ws[w] = TreeAt(base[w])
<1>0. (\A w \in Worker : Undone(w)') => FailedReplayUndone'
  BY DEF FailedReplayUndone, Failures
<1>1. HistoryKept
  BY StepIsApproved
<1>2. CASE UNCHANGED worker
  BY <1>0, <1>1, <1>2, UndoneStays DEF worker
<1>3. ASSUME NEW w \in Worker,
             (\E a \in Action : Open(w, a)) \/ Apply(w) \/ Fault(w) \/ Crash(w)
      PROVE  FailedReplayUndone'
  <2>1. Undone(w)'
    <3> SUFFICES ASSUME pc'[w] = "done", steady'[w], outcome'[w] \in Failures
                 PROVE  ws'[w] = (TreeAt(base[w]))'
      OBVIOUS
    <3>1. /\ pc[w] \in Replaying /\ ws'[w] = Restore(ws[w], originals[w])
          /\ UNCHANGED <<branch, base, steady>>
      BY <1>3, FailureRestores DEF PublicationInv
    <3>2. ws'[w] = TreeAt(base[w])
      BY <3>1, CalmRestores
    <3>3. QED
      BY <3>1, <3>2 DEF TreeAt
  <2>2. ASSUME NEW v \in Worker \ {w} PROVE Undone(v)'
    BY <1>1, <1>3, OthersDoNotMove, OthersKeepAnswers, UndoneStays DEF PublicationInv
  <2>3. QED
    BY <1>0, <2>1, <2>2
<1>4. CASE Tick \/ UserPush \/ \E a \in Action : Prepare(a)
  BY <1>2, <1>4 DEF Tick, UserPush, Prepare
<1>5. CASE UNCHANGED vars
  BY <1>2, <1>5 DEF vars
<1>6. QED
  BY <1>3, <1>4, <1>5 DEF Next

\* Whatever step of an apply fails, and however many operations of its plan had
\* been replayed, the workspace is the revision it was copied from again, new
\* files included (executor.py, apply_and_publish and its restore).
THEOREM FailuresAreUndone == Spec => []FailedReplayUndone
<1>1. Init => FailedReplayUndone
  BY DEF Init, FailedReplayUndone
<1>2. QED
  BY <1>1, UndoneStep, CalmInvariant, PTL DEF Spec

-----------------------------------------------------------------------------
(* A retry does not publish again.  A commit of an action leaves a ledger    *)
(* its seal does not fit any more, or was made once the seal was out of      *)
(* date; and a seal that is out of date stays so, because a month outlasts a *)
(* pending action.                                                           *)

\* The host's route turns the action down: it has expired, or its write set is
\* no longer the sealed one.
OutOfDate(a) ==
    \/ Expired(a)
    \/ PotentialWriteTargets(pending[a].plan, month) # DOMAIN pending[a].pre

\* While an action is valid at most one month has begun since it was sealed.
SealTime(a) ==
    pending[a] # NoAction =>
        /\ pending[a].expires <= now + TTL
        /\ pending[a].month <= month
        /\ ~Expired(a) =>
              \/ month = pending[a].month
              \/ /\ month = pending[a].month + 1
                 /\ \E t \in MonthStarts : t <= now /\ pending[a].expires < t + TTL

\* What is captured is the revision's, and covers the sealed files unless a
\* month has begun since; what is pushed differs from it.
CaptureOK(w) ==
    /\ pc[w] \in {"preconditions"} \cup Checked =>
          /\ originals[w] = Snapshot(TreeAt(base[w]), DOMAIN originals[w])
          /\ DOMAIN originals[w] = SealedFiles(w) \/ OutOfDate(act[w])
    /\ pc[w] = "push" => ChangedPaths(w) # {}

\* Once verified, a request that works on a commit of its own action will find
\* its preconditions broken.
RetryOK(w) ==
    /\ pc[w] \in (Fresh \cup Checked) \ {"verify"}
    /\ ~pending[act[w]].bound
    /\ branch[base[w]].by = act[w]
    => ~PreconditionsHold(TreeAt(base[w]), pending[act[w]])

\* A commit uses up the seal it was made for.
UsesUp(i) ==
    ByAgent(i) => \/ ~PreconditionsHold(TreeAt(i), SealOf(i))
                  \/ OutOfDate(branch[i].by)

RetryInv ==
    /\ \A a \in Action : SealTime(a)
    /\ \A w \in Worker : CaptureOK(w) /\ RetryOK(w)
    /\ branch[1].by = User
    /\ \A i \in 1 .. Tip : UsesUp(i)
    /\ \A i \in 2 .. Tip : ByAgent(i) => branch[i - 1].by # branch[i].by

LEMMA RetryInit == Init => RetryInv
<1> SUFFICES ASSUME Init PROVE RetryInv
  OBVIOUS
<1>1. Tip = 1 /\ branch[1].by = User
  BY DEF Init, Tip
<1>2. \A w \in Worker : pc[w] = "idle"
  BY DEF Init
<1>3. \A a \in Action : SealTime(a)
  BY DEF Init, SealTime
<1>4. \A i \in 1 .. Tip : UsesUp(i)
  BY <1>1 DEF UsesUp, ByAgent
<1>5. \A w \in Worker : CaptureOK(w) /\ RetryOK(w)
  BY <1>2 DEF CaptureOK, RetryOK, Checked, Fresh
<1>q. QED
  BY <1>1, <1>3, <1>4, <1>5 DEF RetryInv

\* Time moves on; a seal keeps its instant and its month.
LEMMA TimeTicks ==
    ASSUME TypeOK, NEW a \in Action, SealTime(a), pending[a] # NoAction, Tick
    PROVE  SealTime(a)' /\ (OutOfDate(a) => OutOfDate(a)')
<1> DEFINE s == pending[a]
<1>1. /\ IsSealed(s) /\ now \in Nat /\ month \in Nat /\ LastMonth \in Nat
      /\ now' = now + 1 /\ pending' = pending
      /\ now + 1 \in MonthStarts => month' = month + 1
      /\ now + 1 \notin MonthStarts => month' = month
      /\ s.expires \in Nat /\ s.month \in Nat /\ TTL \in Nat
      /\ MonthStarts \subseteq Nat /\ \A t, u \in MonthStarts : t < u => u - t >= TTL
      /\ DOMAIN s.pre = PotentialWriteTargets(s.plan, s.month)
  BY PublicationAssumption, LastMonthAssumption DEF TypeOK, Tick, IsSealed, Month
<1>2. Expired(a) <=> s.expires <= now
  BY DEF Expired
<1>3. Expired(a)' <=> s.expires <= now + 1
  BY <1>1 DEF Expired
<1>4. /\ s.expires <= now + TTL /\ s.month <= month
      /\ ~(s.expires <= now) =>
            \/ month = s.month
            \/ month = s.month + 1 /\ \E t \in MonthStarts : t <= now /\ s.expires < t + TTL
  BY <1>2 DEF SealTime
<1> HIDE DEF s
<1>5. s.expires <= now' + TTL /\ s.month <= month'
  BY <1>1, <1>4
<1>6. ASSUME ~(s.expires <= now + 1), now + 1 \in MonthStarts
      PROVE  month = s.month /\ month' = s.month + 1 /\ s.expires < (now + 1) + TTL
  <2>1. ~(s.expires <= now) /\ s.expires < (now + 1) + TTL
    BY <1>1, <1>4, <1>6
  <2>2. ASSUME NEW t \in MonthStarts, t <= now, s.expires < t + TTL PROVE FALSE
    <3>1. t \in Nat /\ t < now + 1
      BY <1>1, <2>2
    <3>2. (now + 1) - t >= TTL
      BY <1>1, <1>6, <3>1
    <3>3. QED
      BY <1>1, <1>6, <2>2, <3>1, <3>2
  <2>3. QED
    BY <1>1, <1>4, <1>6, <2>1, <2>2
<1>7. ASSUME ~(s.expires <= now + 1)
      PROVE  \/ month' = s.month
             \/ month' = s.month + 1 /\ \E t \in MonthStarts : t <= now' /\ s.expires < t + TTL
  <2>1. CASE now + 1 \in MonthStarts
    BY <1>1, <1>6, <1>7, <2>1
  <2>2. CASE now + 1 \notin MonthStarts
    <3>1. month' = month /\ ~(s.expires <= now)
      BY <1>1, <1>7, <2>2
    <3>2. \A t \in MonthStarts : t <= now => t <= now'
      BY <1>1
    <3>3. QED
      BY <1>4, <3>1, <3>2
  <2>3. QED
    BY <2>1, <2>2
<1>8. SealTime(a)'
  BY <1>1, <1>3, <1>5, <1>7 DEF SealTime, s
<1>9. ASSUME OutOfDate(a), ~Expired(a)' PROVE OutOfDate(a)'
  <2>1. ~(s.expires <= now + 1) /\ ~(s.expires <= now)
    BY <1>1, <1>3, <1>9
  <2>2. PotentialWriteTargets(s.plan, month) # DOMAIN s.pre
    BY <1>2, <1>9, <2>1 DEF OutOfDate, s
  <2>3. month # s.month
    BY <1>1, <2>2
  <2>4. month' = month
    BY <1>1, <1>6, <2>1, <2>3
  <2>5. QED
    BY <1>1, <2>2, <2>4 DEF OutOfDate, s
<1>q. QED
  BY <1>8, <1>9 DEF OutOfDate

\* A new seal is of this instant and this month.
LEMMA TimePrepares ==
    ASSUME TypeOK, NEW a \in Action, Prepare(a)
    PROVE  SealTime(a)'
<1>1. PICK plan \in Plan, i \in 1 .. Tip, bound \in BOOLEAN :
         pending' = [pending EXCEPT ![a] = Seal(TreeAt(i), plan, month, i, bound)]
  BY DEF Prepare
<1>2. pending'[a] = Seal(TreeAt(i), plan, month, i, bound) /\ now' = now /\ month' = month
  BY <1>1 DEF TypeOK, Prepare
<1>3. pending'[a].expires = now + TTL /\ pending'[a].month = month
  BY <1>2 DEF Seal
<1>4. now \in Nat /\ month \in Nat /\ TTL \in Nat
  BY PublicationAssumption, LastMonthAssumption DEF TypeOK, Month
<1>q. QED
  BY <1>2, <1>3, <1>4 DEF SealTime

\* The clock's part of every step.
LEMMA TimeStep ==
    ASSUME TypeOK, [Next]_vars, \A a \in Action : SealTime(a)
    PROVE  /\ \A a \in Action : SealTime(a)'
           /\ \A a \in Action : pending[a] # NoAction /\ OutOfDate(a) => OutOfDate(a)'
<1>1. CASE UNCHANGED <<now, month, pending>>
  BY <1>1 DEF SealTime, OutOfDate, Expired
<1>2. CASE Tick
  <2>1. ASSUME NEW a \in Action, pending[a] # NoAction
        PROVE  SealTime(a)' /\ (OutOfDate(a) => OutOfDate(a)')
    BY <1>2, <2>1, TimeTicks
  <2>2. ASSUME NEW a \in Action, pending[a] = NoAction PROVE SealTime(a)'
    BY <1>2, <2>2 DEF SealTime, Tick
  <2>3. QED
    BY <2>1, <2>2
<1>3. ASSUME NEW a \in Action, Prepare(a)
      PROVE  /\ \A b \in Action : SealTime(b)'
             /\ \A b \in Action : pending[b] # NoAction /\ OutOfDate(b) => OutOfDate(b)'
  <2>1. SealTime(a)' /\ pending[a] = NoAction
    BY <1>3, TimePrepares DEF Prepare
  <2>2. ASSUME NEW b \in Action, b # a PROVE pending'[b] = pending[b]
    BY <1>3, <2>2 DEF Prepare, TypeOK
  <2>3. now' = now /\ month' = month
    BY <1>3 DEF Prepare
  <2>4. ASSUME NEW b \in Action, b # a
        PROVE  SealTime(b)' /\ (OutOfDate(b) => OutOfDate(b)')
    BY <2>2, <2>3, <2>4 DEF SealTime, OutOfDate, Expired
  <2>5. QED
    BY <2>1, <2>4
<1>4. ASSUME NEW w \in Worker, (\E a \in Action : Open(w, a)) \/ Apply(w) \/ Fault(w) \/ Crash(w)
      PROVE  UNCHANGED <<now, month, pending>>
  BY <1>4 DEF Open, Apply, Verify, CheckWriteSet, CaptureOriginals, CheckPreconditions,
              ReplayCreate, ReplayInclude, ReplayEdit, Validate, CommitLocally, Push,
              Fault, Crash, Close, Forget
<1>5. CASE UserPush \/ UNCHANGED vars
  BY <1>1, <1>5 DEF UserPush, vars
<1>q. QED
  BY <1>1, <1>2, <1>3, <1>4, <1>5 DEF Next

\* What is known of a request that does not move stays known.
LEMMA RetryStays ==
    ASSUME PublicationInv, RetryInv, HistoryKept,
           \A a \in Action : pending[a] # NoAction /\ OutOfDate(a) => OutOfDate(a)',
           NEW w \in Worker, pc'[w] = pc[w], act'[w] = act[w], base'[w] = base[w],
           ws'[w] = ws[w], originals'[w] = originals[w]
    PROVE  CaptureOK(w)' /\ RetryOK(w)'
<1>1. base[w] \in 1 .. Tip
  BY DEF PublicationInv, RequestOK
<1>2. TreeAt(base[w])' = TreeAt(base[w]) /\ branch'[base'[w]] = branch[base[w]]
  BY <1>1 DEF HistoryKept, TreeAt
<1>3. pc[w] # "idle" => /\ act[w] \in Action /\ pending[act[w]] # NoAction
                        /\ pending'[act[w]] = pending[act[w]]
  BY DEF PublicationInv, TypeInv, ControlOK, HistoryKept
<1>4. pc[w] # "idle" => /\ SealedFiles(w)' = SealedFiles(w)
                        /\ OutOfDate(act[w]) => OutOfDate(act[w])'
  BY <1>3 DEF SealedFiles
<1>5. CaptureOK(w) /\ RetryOK(w)
  BY DEF RetryInv
<1>6. pc[w] \in {"preconditions", "push"} \cup Checked \cup Fresh => pc[w] # "idle"
  BY DEF Checked, Fresh
<1>7. CaptureOK(w)'
  <2>1. ChangedPaths(w)' = ChangedPaths(w)
    BY DEF ChangedPaths
  <2>q. QED
    BY <1>2, <1>4, <1>5, <1>6, <2>1 DEF CaptureOK
<1>8. RetryOK(w)'
  BY <1>2, <1>3, <1>5, <1>6 DEF RetryOK
<1>q. QED
  BY <1>7, <1>8

\* A commit on the branch has used its seal up for good.
LEMMA UsedUpStays ==
    ASSUME PublicationInv, RetryInv, HistoryKept,
           \A a \in Action : pending[a] # NoAction /\ OutOfDate(a) => OutOfDate(a)'
    PROVE  /\ branch'[1].by = User
           /\ \A i \in 1 .. Tip : UsesUp(i)'
           /\ \A i \in 2 .. Tip : (ByAgent(i) => branch[i - 1].by # branch[i].by)'
<1>1. Tip \in Nat /\ 1 \in 1 .. Tip
  BY BranchFacts DEF PublicationInv, TypeInv
<1>2. branch'[1].by = User
  BY <1>1 DEF HistoryKept, RetryInv
<1>3. ASSUME NEW i \in 1 .. Tip PROVE UsesUp(i)'
  <2>1. branch'[i] = branch[i]
    BY DEF HistoryKept
  <2>2. CASE ~ByAgent(i)
    BY <2>1, <2>2 DEF UsesUp, ByAgent
  <2>3. CASE ByAgent(i)
    <3>1. i \in 2 .. Tip
      BY <1>1, <2>3 DEF RetryInv, ByAgent
    <3>2. pending[branch[i].by] # NoAction /\ branch[i].by \in Action
      BY <1>1, <2>3, <3>1, BranchFacts DEF PublicationInv, CommitOK, ByAgent, TypeInv, Commit
    <3>3. SealOf(i)' = SealOf(i) /\ TreeAt(i)' = TreeAt(i)
      BY <2>1, <3>2 DEF HistoryKept, SealOf, TreeAt
    <3>4. UsesUp(i)
      BY DEF RetryInv
    <3>5. QED
      BY <2>1, <2>3, <3>2, <3>3, <3>4 DEF UsesUp
  <2>4. QED
    BY <2>2, <2>3
<1>4. ASSUME NEW i \in 2 .. Tip PROVE (ByAgent(i) => branch[i - 1].by # branch[i].by)'
  <2>1. i \in 1 .. Tip /\ i - 1 \in 1 .. Tip
    BY <1>1
  <2>2. branch'[i] = branch[i] /\ branch'[i - 1] = branch[i - 1]
    BY <2>1 DEF HistoryKept
  <2>3. QED
    BY <2>2 DEF RetryInv, ByAgent
<1>q. QED
  BY <1>2, <1>3, <1>4

\* The request that moves: each phase keeps, or establishes, what the next needs.
LEMMA RetryRequest ==
    ASSUME PublicationInv, RetryInv, HistoryKept, NEW w \in Worker,
           \A a \in Action : pending[a] # NoAction /\ OutOfDate(a) => OutOfDate(a)',
           (\E a \in Action : Open(w, a)) \/ Apply(w) \/ Fault(w) \/ Crash(w)
    PROVE  CaptureOK(w)' /\ RetryOK(w)'
<1>1. TypeOK /\ pc \in [Worker -> Phase] /\ CaptureOK(w) /\ RetryOK(w) /\ RequestOK(w)
  BY DEF PublicationInv, TypeInv, TypeOK, RetryInv
<1>2. CASE pc'[w] \in {"idle", "done", "verify"}
  BY <1>2 DEF CaptureOK, RetryOK, Checked, Fresh
<1>3. pc[w] # "idle" => act[w] \in Action /\ pending[act[w]] # NoAction
  BY DEF PublicationInv, TypeInv, ControlOK
<1>4. ASSUME NEW a \in Action, Open(w, a) PROVE pc'[w] \in {"done", "verify"}
  BY <1>1, <1>4 DEF Open, Finish
<1>5. CASE Push(w) \/ Fault(w) \/ Close(w) \/ Crash(w)
  <2>1. pc'[w] \in {"done", "idle"}
    BY <1>1, <1>5 DEF Push, Fault, Close, Crash, Forget, Finish
  <2>2. QED
    BY <1>2, <2>1
<1>6. CASE Verify(w) /\ pc'[w] # "done"
  <2>1. /\ pc[w] = "verify" /\ pc'[w] = "writeset"
        /\ UNCHANGED <<branch, now, month, pending, act, base>>
        /\ ~pending[act[w]].bound => ~Expired(act[w]) /\ WriteSetMatches(w)
    BY <1>1, <1>6 DEF Verify, Goto, Finish
  <2>2. CaptureOK(w)'
    BY <2>1 DEF CaptureOK, Checked
  <2>3. ASSUME ~pending[act[w]].bound, branch[base[w]].by = act[w]
        PROVE  ~PreconditionsHold(TreeAt(base[w]), pending[act[w]])
    <3>1. ~OutOfDate(act[w])
      BY <2>1, <2>3 DEF OutOfDate, WriteSetMatches, PlanOf
    <3>2. base[w] \in 1 .. Tip /\ ByAgent(base[w]) /\ SealOf(base[w]) = pending[act[w]]
      BY <1>1, <1>3, <2>1, <2>3, PublicationAssumption DEF RequestOK, ByAgent, SealOf
    <3>3. QED
      BY <2>3, <3>1, <3>2 DEF RetryInv, UsesUp
  <2>4. (TreeAt(base[w]))' = TreeAt(base[w])
    BY <2>1 DEF TreeAt
  <2>5. RetryOK(w)'
    BY <2>1, <2>3, <2>4 DEF RetryOK
  <2>6. QED
    BY <2>2, <2>5
<1>7. CASE CheckWriteSet(w) /\ pc'[w] # "done"
  <2>1. /\ pc[w] = "writeset" /\ pc'[w] = "snapshot"
        /\ UNCHANGED <<branch, pending, act, base>>
    BY <1>1, <1>7 DEF CheckWriteSet, Goto, Finish
  <2>2. QED
    BY <1>1, <2>1, SameMeasure DEF CaptureOK, RetryOK, Checked, Fresh
<1>8. CASE CaptureOriginals(w)
  <2>1. /\ pc[w] = "snapshot" /\ pc'[w] = "preconditions"
        /\ UNCHANGED <<branch, now, month, pending, act, base>>
        /\ originals'[w] = Snapshot(ws[w], PotentialWriteTargets(PlanOf(w), month))
        /\ ws[w] = TreeAt(base[w])
    BY <1>1, <1>8 DEF CaptureOriginals, Goto, TypeOK, RequestOK, Fresh
  <2>2. DOMAIN originals'[w] = PotentialWriteTargets(PlanOf(w), month)
    BY <2>1 DEF Snapshot
  <2>3. originals'[w] = Snapshot(TreeAt(base[w]), DOMAIN originals'[w])
    BY <2>1, <2>2
  <2>4. DOMAIN originals'[w] = SealedFiles(w) \/ OutOfDate(act[w])
    BY <2>2 DEF SealedFiles, OutOfDate, PlanOf
  <2>5. OutOfDate(act[w]) => OutOfDate(act[w])'
    BY <1>3, <2>1
  <2>6. CaptureOK(w)'
    BY <2>1, <2>3, <2>4, <2>5, SameMeasure DEF CaptureOK
  <2>7. RetryOK(w)'
    BY <1>1, <2>1, SameMeasure DEF RetryOK, Checked, Fresh
  <2>8. QED
    BY <2>6, <2>7
<1>9. CASE /\ pc'[w] # "done"
           /\ \/ CheckPreconditions(w) \/ ReplayCreate(w) \/ ReplayInclude(w) \/ ReplayEdit(w)
              \/ Validate(w) \/ CommitLocally(w)
  <2>1. /\ UNCHANGED <<branch, now, month, pending, act, base, originals>>
        /\ pc[w] \in {"preconditions"} \cup Checked /\ pc'[w] \in Checked
        /\ pc'[w] = "push" => pc[w] = "commit" /\ ChangedPaths(w) # {} /\ ws'[w] = ws[w]
    <3>1. CASE CheckPreconditions(w)
      BY <1>1, <1>9, <3>1 DEF CheckPreconditions, Goto, Finish, Checked
    <3>2. CASE ReplayCreate(w) \/ ReplayInclude(w) \/ ReplayEdit(w)
      BY <1>1, <1>9, <3>2 DEF ReplayCreate, ReplayInclude, ReplayEdit, NextOperation,
                              Goto, Finish, Checked
    <3>3. CASE Validate(w) \/ CommitLocally(w)
      BY <1>1, <1>9, <3>3 DEF Validate, CommitLocally, Goto, Finish, Checked
    <3>4. QED
      BY <1>9, <3>1, <3>2, <3>3
  <2>2. (OutOfDate(act[w]))' <=> OutOfDate(act[w])
    BY <2>1 DEF OutOfDate, Expired
  <2>3. (ChangedPaths(w))' = {p \in DOMAIN originals[w] : ws'[w][p] # originals[w][p]}
    BY <2>1 DEF ChangedPaths
  <2>4. pc'[w] = "push" => (ChangedPaths(w))' # {}
    BY <2>1, <2>3 DEF ChangedPaths
  <2>5. CaptureOK(w)'
    BY <1>1, <2>1, <2>2, <2>4, SameMeasure DEF CaptureOK
  <2>6. RetryOK(w)'
    BY <1>1, <2>1, SameMeasure DEF RetryOK, Checked, Fresh
  <2>7. QED
    BY <2>5, <2>6
<1>q. QED
  BY <1>2, <1>4, <1>5, <1>6, <1>7, <1>8, <1>9 DEF Apply

\* The commit that lands uses its seal up and follows no commit of its action.
LEMMA RetryLands ==
    ASSUME PublicationInv, RetryInv, NEW w \in Worker, Pushes(w),
           \A a \in Action : pending[a] # NoAction /\ OutOfDate(a) => OutOfDate(a)'
    PROVE  /\ HistoryKept /\ Tip' = Tip + 1 /\ Tip \in Nat
           /\ \A k \in Nat : k = Tip + 1 => UsesUp(k)'
           /\ branch'[Tip].by # branch'[Tip + 1].by
<1> DEFINE c == [tree |-> CommitTree(w), by |-> act[w], calm |-> steady[w]]
           s == pending[act[w]]
<1>1. branch' = Append(branch, c) /\ base[w] = Tip /\ UNCHANGED pending /\ pc[w] = "push"
  BY DEF Pushes, Lands
<1>2. /\ HistoryKept /\ branch'[Tip + 1] = c
      /\ Tip' = Tip + 1 /\ Tip \in Nat /\ Tip \in 1 .. Tip
  BY <1>1, AppendGrows
<1>3. /\ act[w] \in Action /\ s # NoAction /\ IsSealed(s) /\ PreconditionsHold(TreeAt(Tip), s)
      /\ s.bound => s.base = Tip
  BY <1>1 DEF PublicationInv, TypeInv, TypeOK, ControlOK, RequestOK, Checked
<1>4. /\ originals[w] = Snapshot(TreeAt(Tip), DOMAIN originals[w])
      /\ DOMAIN originals[w] = DOMAIN s.pre \/ OutOfDate(act[w])
      /\ ChangedPaths(w) # {}
  BY <1>1 DEF RetryInv, CaptureOK, Checked, SealedFiles
<1>5. branch'[Tip + 1].by = act[w] /\ branch'[Tip + 1].tree = CommitTree(w)
      /\ branch'[Tip] = branch[Tip]
  BY <1>2 DEF HistoryKept
<1>6. ASSUME NEW k \in Nat, k = Tip + 1 PROVE UsesUp(k)'
  <2>0. branch'[k].by = act[w] /\ (TreeAt(k))' = CommitTree(w) /\ (SealOf(k))' = s
    BY <1>1, <1>5, <1>6 DEF TreeAt, SealOf
  <2>1. CASE OutOfDate(act[w])
    <3>1. ASSUME NEW a \in Action, a = act[w] PROVE (OutOfDate(branch[k].by))'
      <4>1. OutOfDate(a)'
        BY <1>3, <2>1, <3>1
      <4>2. branch'[k].by = a
        BY <2>0, <3>1
      <4>3. QED
        BY <4>1, <4>2 DEF OutOfDate, Expired
    <3>2. QED
      BY <1>3, <3>1 DEF UsesUp
  <2>2. CASE DOMAIN originals[w] = DOMAIN s.pre
    <3>1. PICK p \in DOMAIN s.pre : ws[w][p] # originals[w][p]
      BY <1>4, <2>2 DEF ChangedPaths
    <3>2. originals[w][p] = TreeAt(Tip)[p] /\ p \in ChangedPaths(w)
      BY <1>4, <2>2, <3>1 DEF Snapshot, ChangedPaths
    <3>3. p \in Path
      BY <1>3, PathFacts DEF IsSealed, IsCapture
    <3>4. CommitTree(w)[p] # TreeAt(Tip)[p]
      BY <3>1, <3>2, <3>3 DEF CommitTree
    <3>5. s.pre[p] = TreeAt(Tip)[p]
      <4>1. Snapshot(TreeAt(Tip), DOMAIN s.pre) = s.pre
        BY <1>3 DEF PreconditionsHold
      <4>2. Snapshot(TreeAt(Tip), DOMAIN s.pre)[p] = TreeAt(Tip)[p]
        BY DEF Snapshot
      <4>3. QED
        BY <4>1, <4>2
    <3>6. ~PreconditionsHold(CommitTree(w), s)
      <4> SUFFICES ASSUME Snapshot(CommitTree(w), DOMAIN s.pre) = s.pre PROVE FALSE
        BY DEF PreconditionsHold
      <4>1. Snapshot(CommitTree(w), DOMAIN s.pre)[p] = CommitTree(w)[p]
        BY DEF Snapshot
      <4>2. QED
        BY <3>4, <3>5, <4>1
    <3>7. QED
      BY <2>0, <3>6 DEF UsesUp
  <2>3. QED
    BY <1>4, <2>1, <2>2
<1>7. branch[Tip].by # act[w]
  <2> SUFFICES ASSUME branch[Tip].by = act[w] PROVE FALSE
    OBVIOUS
  <2>1. Tip # 1 /\ Tip \in 2 .. Tip /\ ByAgent(Tip) /\ SealOf(Tip) = s
    BY <1>2, <1>3, PublicationAssumption DEF RetryInv, ByAgent, SealOf
  <2>2. CASE s.bound
    <3>1. s.base = Tip - 1 /\ s.base = Tip
      BY <1>3, <2>1, <2>2 DEF PublicationInv, CommitOK
    <3>2. QED
      BY <1>2, <3>1
  <2>3. CASE ~s.bound
    BY <1>1, <1>3, <2>3 DEF RetryInv, RetryOK, Checked
  <2>4. QED
    BY <2>2, <2>3
<1>q. QED
  BY <1>2, <1>5, <1>6, <1>7

LEMMA RetryStep == PublicationInv /\ CalmInv /\ RetryInv /\ [Next]_vars => RetryInv'
<1> SUFFICES ASSUME PublicationInv, CalmInv, RetryInv, [Next]_vars PROVE RetryInv'
  OBVIOUS
<1>1. HistoryKept
  BY StepIsApproved
<1>2. /\ \A a \in Action : SealTime(a)'
      /\ \A a \in Action : pending[a] # NoAction /\ OutOfDate(a) => OutOfDate(a)'
  BY TimeStep DEF RetryInv, PublicationInv, TypeInv
<1>3. \A w \in Worker : CaptureOK(w)' /\ RetryOK(w)'
  <2>1. CASE UNCHANGED worker
    BY <1>1, <1>2, <2>1, RetryStays DEF worker
  <2>2. ASSUME NEW w \in Worker,
               (\E a \in Action : Open(w, a)) \/ Apply(w) \/ Fault(w) \/ Crash(w)
        PROVE  \A v \in Worker : CaptureOK(v)' /\ RetryOK(v)'
    <3>1. CaptureOK(w)' /\ RetryOK(w)'
      BY <1>1, <1>2, <2>2, RetryRequest
    <3>2. ASSUME NEW v \in Worker \ {w} PROVE CaptureOK(v)' /\ RetryOK(v)'
      <4>1. /\ pc'[v] = pc[v] /\ act'[v] = act[v] /\ base'[v] = base[v]
            /\ ws'[v] = ws[v] /\ originals'[v] = originals[v]
        BY <2>2, OthersDoNotMove DEF PublicationInv
      <4>2. QED
        BY <1>1, <1>2, <4>1, RetryStays
    <3>3. QED
      BY <3>1, <3>2
  <2>3. CASE Tick \/ UserPush \/ \E a \in Action : Prepare(a)
    BY <2>1, <2>3 DEF Tick, UserPush, Prepare
  <2>4. CASE UNCHANGED vars
    BY <2>1, <2>4 DEF vars
  <2>5. QED
    BY <2>2, <2>3, <2>4 DEF Next
<1>4. /\ branch'[1].by = User
      /\ \A i \in 1 .. Tip : UsesUp(i)'
      /\ \A i \in 2 .. Tip : (ByAgent(i) => branch[i - 1].by # branch[i].by)'
  BY <1>1, <1>2, UsedUpStays
<1>5. CASE Tip' = Tip
  BY <1>2, <1>3, <1>4, <1>5 DEF RetryInv
<1>6. CASE UserPush
  <2>1. PICK t \in UserEdits(TreeAt(Tip)) :
           branch' = Append(branch, [tree |-> t, by |-> User, calm |-> TRUE])
    BY <1>6 DEF UserPush
  <2>2. UNCHANGED pending
    BY <1>6 DEF UserPush
  <2>3. /\ Tip' = Tip + 1 /\ Tip \in Nat
        /\ branch'[Tip + 1] = [tree |-> t, by |-> User, calm |-> TRUE]
    BY <2>1, <2>2, AppendGrows
  <2>4. ASSUME NEW k, k = Tip + 1
        PROVE  UsesUp(k)' /\ (ByAgent(k) => branch[k - 1].by # branch[k].by)'
    BY <2>3, <2>4 DEF UsesUp, ByAgent
  <2>5. /\ \A i \in 1 .. Tip' : i \in 1 .. Tip \/ i = Tip + 1
        /\ \A i \in 2 .. Tip' : i \in 2 .. Tip \/ i = Tip + 1
    BY <2>3
  <2>6. QED
    BY <1>2, <1>3, <1>4, <2>4, <2>5 DEF RetryInv
<1>7. ASSUME NEW w \in Worker, Pushes(w) PROVE RetryInv'
  <2>1. /\ Tip' = Tip + 1 /\ Tip \in Nat
        /\ \A k \in Nat : k = Tip + 1 => UsesUp(k)'
        /\ branch'[Tip].by # branch'[Tip + 1].by
    BY <1>2, <1>7, RetryLands
  <2>2. ASSUME NEW k, k = Tip + 1
        PROVE  UsesUp(k)' /\ (ByAgent(k) => branch[k - 1].by # branch[k].by)'
    <3>1. k - 1 = Tip /\ k \in Nat /\ UsesUp(k)'
      BY <2>1, <2>2
    <3>2. branch'[k - 1].by # branch'[k].by
      BY <2>1, <2>2, <3>1
    <3>3. QED
      BY <3>1, <3>2
  <2>3. /\ \A i \in 1 .. Tip' : i \in 1 .. Tip \/ i = Tip + 1
        /\ \A i \in 2 .. Tip' : i \in 2 .. Tip \/ i = Tip + 1
    BY <2>1
  <2>4. QED
    BY <1>2, <1>3, <1>4, <2>2, <2>3 DEF RetryInv
<1>8. ASSUME NEW a \in Action, Prepare(a) PROVE Tip' = Tip
  BY <1>8 DEF Prepare, Tip
<1>9. UNCHANGED <<branch, pending>> => Tip' = Tip
  BY DEF Tip
<1>q. QED
  BY <1>5, <1>6, <1>7, <1>8, <1>9, StepKinds

THEOREM RetryInvariant == Spec => [](PublicationInv /\ RetryInv)
BY InvInit, InvStep, CalmInit, CalmStep, RetryInit, RetryStep, PTL DEF Spec

\* Sent again, after whatever was answered, an action is not published a second
\* time unless somebody put its files and the facts it relies on back in between
\* (executor.py preconditions_hold, approvals/contracts.py verify_pending_action).
THEOREM RetriesDoNotPublish == Spec => []RepublishedOnlyIfRestored
<1>1. PublicationInv /\ RetryInv => RepublishedOnlyIfRestored
  <2> SUFFICES ASSUME PublicationInv, RetryInv, NEW a \in Action,
                      NEW i \in Published(a), NEW j \in Published(a), i < j
               PROVE  \E k \in i + 1 .. j - 1 : PreconditionsHold(TreeAt(k), pending[a])
    BY DEF RepublishedOnlyIfRestored
  <2>1. /\ i \in 2 .. Tip /\ j \in 2 .. Tip /\ branch[i].by = a /\ branch[j].by = a
        /\ a # User /\ Tip \in Nat
    BY PublicationAssumption, BranchFacts DEF Published, PublicationInv, TypeInv
  <2>2. ByAgent(j) /\ SealOf(j) = pending[a]
    BY <2>1 DEF ByAgent, SealOf
  <2>3. PreconditionsHold(TreeAt(j - 1), pending[a])
    BY <2>1, <2>2 DEF PublicationInv, CommitOK
  <2>4. branch[j - 1].by # branch[j].by
    BY <2>1, <2>2 DEF RetryInv
  <2>5. j - 1 # i
    BY <2>1, <2>4
  <2>6. j - 1 \in i + 1 .. j - 1
    BY <2>1, <2>5
  <2>7. QED
    BY <2>3, <2>6
<1>2. QED
  BY <1>1, RetryInvariant, PTL

-----------------------------------------------------------------------------
(* What is published is what was reviewed: on the sealed files a calm replay *)
(* goes through the trees of the dry run, one operation after the other.     *)

\* What an operation makes of a file depends on that file alone.
LEMMA EachFileByItself ==
    ASSUME NEW t \in Tree, NEW u \in Tree, NEW p \in Path, t[p] = u[p],
           NEW m \in Month, NEW op \in Operation, NEW into \in Sidecar
    PROVE  /\ EnsureMonthFile(t, m)[p] = EnsureMonthFile(u, m)[p]
           /\ EnsureInclude(t, m)[p] = EnsureInclude(u, m)[p]
           /\ WriteItem(t, op, into)[p] = WriteItem(u, op, into)[p]
           /\ EditItem(t, op)[p] = EditItem(u, op)[p]
           /\ p = op.file => (EditApplies(t, op) <=> EditApplies(u, op))
<1>1. DOMAIN t = Path /\ DOMAIN u = Path
  BY DEF Tree
<1>2. EnsureMonthFile(t, m)[p] = EnsureMonthFile(u, m)[p]
  BY <1>1 DEF EnsureMonthFile
<1>3. EnsureInclude(t, m)[p] = EnsureInclude(u, m)[p]
  <2>1. CASE p = MainFile
    BY <1>1, <2>1 DEF EnsureInclude
  <2>2. CASE p # MainFile
    BY <1>1, <2>2 DEF EnsureInclude
  <2>3. QED
    BY <2>1, <2>2
<1>4. WriteItem(t, op, into)[p] = WriteItem(u, op, into)[p]
  <2> DEFINE q == IF op.kind = "open" THEN MainFile ELSE into
  <2>1. /\ WriteItem(t, op, into) = [t EXCEPT ![q] = Put(@, op.item)]
        /\ WriteItem(u, op, into) = [u EXCEPT ![q] = Put(@, op.item)]
    BY DEF WriteItem
  <2> HIDE DEF q
  <2>2. QED
    BY <1>1, <2>1
<1>5. EditItem(t, op)[p] = EditItem(u, op)[p]
  <2>1. CASE p = op.file
    BY <1>1, <2>1 DEF EditItem
  <2>2. CASE p # op.file
    BY <1>1, <2>2 DEF EditItem
  <2>3. QED
    BY <2>1, <2>2
<1>6. p = op.file => (EditApplies(t, op) <=> EditApplies(u, op))
  BY DEF EditApplies, Holds
<1>q. QED
  BY <1>2, <1>3, <1>4, <1>5, <1>6

\* A dry run's operation makes a tree of a tree.
LEMMA ApplyOperationTree ==
    ASSUME NEW t \in Tree, NEW op \in Operation, NEW m \in Month
    PROVE  ApplyOperation(t, op, m) \in Tree
<1>1. CASE Creates(op)
  <2> DEFINE one == EnsureMonthFile(t, m)
             two == EnsureInclude(one, m)
  <2>1. one \in Tree /\ one[MonthFile(m)] # NoFile
    BY EnsureMonthFileTree
  <2>2. /\ two \in Tree /\ two[MainFile] # NoFile
        /\ \A p \in Path \ {MainFile} : two[p] = one[p]
    <3> HIDE DEF one
    <3>1. QED
      BY <2>1, EnsureIncludeTree
  <2>3. two[MonthFile(m)] # NoFile /\ MonthFile(m) \in Sidecar
    BY <2>1, <2>2, PathFacts
  <2>4. WriteItem(two, op, MonthFile(m)) \in Tree
    <3> HIDE DEF two
    <3>1. QED
      BY <2>2, <2>3, WriteItemTree
  <2>5. QED
    BY <1>1, <2>4 DEF ApplyOperation
<1>2. CASE ~Creates(op)
  BY <1>2, EditItemTree DEF ApplyOperation
<1>q. QED
  BY <1>1, <1>2

\* The trees of a dry run.
LEMMA RehearsalIs ==
    ASSUME NEW tree \in Tree, NEW plan \in Seq(Operation), NEW m \in Month
    PROVE  /\ Rehearsal(tree, plan, m) \in [0 .. Len(plan) -> Tree]
           /\ Rehearsal(tree, plan, m)[0] = tree
           /\ \A k \in 1 .. Len(plan) :
                 Rehearsal(tree, plan, m)[k]
                    = ApplyOperation(Rehearsal(tree, plan, m)[k - 1], plan[k], m)
<1> DEFINE n == Len(plan)
           apply == [k \in 1 .. n |-> [t \in Tree |-> ApplyOperation(t, plan[k], m)]]
           next(f, k) == IF k = 0 THEN tree ELSE ApplyOperation(f[k - 1], plan[k], m)
<1>1. n \in Nat /\ \A k \in 1 .. n : plan[k] \in Operation
  OBVIOUS
<1>2. Steps(apply, n, Tree)
  BY <1>1, ApplyOperationTree DEF Steps
<1>3. PICK g : Iterated(g, n, Tree, tree, apply)
  <2> HIDE DEF apply, n
  <2>1. QED
    BY <1>1, <1>2, Iterates
<1>4. g \in [0 .. n -> Tree] /\ g[0] = tree /\ \A k \in 1 .. n : g[k] = apply[k][g[k - 1]]
  BY <1>3 DEF Iterated
<1>5. ASSUME NEW k \in 1 .. n PROVE g[k] = ApplyOperation(g[k - 1], plan[k], m)
  <2>1. k - 1 \in 0 .. n /\ g[k - 1] \in Tree
    BY <1>1, <1>4
  <2>2. apply[k][g[k - 1]] = ApplyOperation(g[k - 1], plan[k], m)
    BY <2>1
  <2>3. QED
    BY <1>4, <2>2
<1>6. g = [k \in 0 .. n |-> next(g, k)]
  <2>1. ASSUME NEW k \in 0 .. n PROVE g[k] = next(g, k)
    BY <1>1, <1>4, <1>5
  <2>2. g = [k \in 0 .. n |-> g[k]]
    BY <1>4
  <2>3. QED
    BY <2>1, <2>2
<1> DEFINE f == Rehearsal(tree, plan, m)
<1>7. f = [k \in 0 .. n |-> next(f, k)]
  <2>1. f = CHOOSE h : h = [k \in 0 .. n |-> next(h, k)]
    BY DEF Rehearsal
  <2>2. QED
    BY <1>6, <2>1
<1>8. f[0] = tree /\ \A k \in 1 .. n : f[k] = ApplyOperation(f[k - 1], plan[k], m)
  <2> HIDE DEF f
  <2>1. 0 \in 0 .. n /\ \A k \in 1 .. n : k \in 0 .. n /\ k # 0
    BY <1>1
  <2>2. QED
    BY <1>7, <2>1
<1>9. f \in [0 .. n -> Tree]
  <2> DEFINE T == {k \in 0 .. n : f[k] \in Tree}
  <2> HIDE DEF f
  <2>1. 0 \in T
    BY <1>1, <1>8
  <2>2. ASSUME NEW k \in 0 .. n - 1, k \in T PROVE k + 1 \in T
    <3>1. k + 1 \in 1 .. n /\ (k + 1) - 1 = k /\ k + 1 \in 0 .. n
      BY <1>1
    <3>2. f[k + 1] = ApplyOperation(f[k], plan[k + 1], m)
      BY <1>8, <3>1
    <3>3. f[k + 1] \in Tree
      BY <1>1, <2>2, <3>1, <3>2, ApplyOperationTree
    <3>4. QED
      BY <3>1, <3>3
  <2>3. 0 .. n \subseteq T
    <3> HIDE DEF T
    <3>1. QED
      BY <1>1, <2>1, <2>2, Induction
  <2>4. QED
    BY <1>7, <2>3
<1>q. QED
  BY <1>8, <1>9

\* The trees of the dry run of a sealed action, on the revision it was sealed on.
DryRun(s) == Rehearsal(TreeAt(s.base), s.plan, s.month)

\* A sealed action was sealed on a revision of the branch, with its contents.
SealOK(a) ==
    pending[a] # NoAction =>
        /\ pending[a].base \in 1 .. Tip
        /\ pending[a].pre = Snapshot(TreeAt(pending[a].base), DOMAIN pending[a].pre)

\* On the sealed files the workspace of a request is what a dry run had made.
AsIn(w, tree) == \A p \in SealedFiles(w) : ws[w][p] = tree[p]

\* How far a calm request has followed the dry run of its action.
ReviewOK(w) ==
    LET s == pending[act[w]] IN
    pc[w] \in Checked /\ steady[w] /\ PathsTellMonth(s) =>
        /\ pc[w] = "replay" => AsIn(w, DryRun(s)[step[w] - 1])
        /\ pc[w] = "include" =>
              /\ AsIn(w, EnsureMonthFile(DryRun(s)[step[w] - 1], s.month))
              /\ target[w] = MonthFile(s.month)
        /\ pc[w] \in {"check", "commit", "push"} => AsIn(w, DryRun(s)[Len(s.plan)])

\* A commit published in the calm holds what the dry run of its action left.
Reviewed(i) ==
    ByAgent(i) /\ branch[i].calm /\ PathsTellMonth(SealOf(i)) =>
        \A p \in Path :
            TreeAt(i)[p] = IF p \in DOMAIN SealOf(i).pre
                           THEN Replayed(TreeAt(SealOf(i).base), SealOf(i))[p]
                           ELSE TreeAt(i - 1)[p]

ReviewInv ==
    /\ \A a \in Action : SealOK(a)
    /\ \A w \in Worker : ReviewOK(w)
    /\ \A i \in 2 .. Tip : Reviewed(i)

LEMMA ReviewInit == Init => ReviewInv
<1> SUFFICES ASSUME Init PROVE ReviewInv
  OBVIOUS
<1>1. Tip = 1 /\ \A w \in Worker : pc[w] = "idle"
  BY DEF Init, Tip
<1>2. \A a \in Action : SealOK(a)
  BY DEF Init, SealOK
<1>q. QED
  BY <1>1, <1>2 DEF ReviewInv, ReviewOK, Checked

\* Seals keep the revision they were made on.
LEMMA SealsStay ==
    ASSUME PublicationInv, ReviewInv, HistoryKept, [Next]_vars
    PROVE  \A a \in Action : SealOK(a)'
<1>1. Tip \in Nat /\ Tip' \in Nat /\ Tip' >= Tip
  BY BranchFacts DEF PublicationInv, TypeInv, HistoryKept
<1>2. ASSUME NEW a \in Action, pending[a] # NoAction PROVE SealOK(a)'
  <2>1. pending'[a] = pending[a] /\ SealOK(a)
    BY <1>2 DEF HistoryKept, ReviewInv
  <2>2. pending[a].base \in 1 .. Tip /\ pending[a].base \in 1 .. Tip'
    BY <1>1, <1>2, <2>1 DEF SealOK
  <2>3. (TreeAt(pending[a].base))' = TreeAt(pending[a].base)
    BY <2>1, <2>2 DEF HistoryKept, TreeAt
  <2>4. QED
    BY <1>2, <2>1, <2>2, <2>3 DEF SealOK
<1>3. ASSUME NEW a \in Action, Prepare(a) PROVE SealOK(a)'
  <2>1. PICK plan \in Plan, i \in 1 .. Tip, bound \in BOOLEAN :
           pending' = [pending EXCEPT ![a] = Seal(TreeAt(i), plan, month, i, bound)]
    BY <1>3 DEF Prepare
  <2>2. pending'[a] = Seal(TreeAt(i), plan, month, i, bound) /\ branch' = branch
    BY <1>3, <2>1 DEF Prepare, PublicationInv, TypeInv, TypeOK
  <2>3. pending'[a].base = i /\ pending'[a].pre = Snapshot(TreeAt(i), DOMAIN pending'[a].pre)
    BY <2>2 DEF Seal, Snapshot
  <2>4. QED
    BY <1>1, <2>2, <2>3 DEF SealOK, TreeAt, Tip
<1>4. ASSUME NEW a \in Action, pending[a] = NoAction PROVE SealOK(a)'
  <2>1. CASE Prepare(a)
    BY <1>3, <2>1
  <2>2. CASE pending'[a] = pending[a]
    BY <1>4, <2>2 DEF SealOK
  <2>3. ASSUME NEW b \in Action, Prepare(b), b # a PROVE pending'[a] = pending[a]
    BY <2>3 DEF Prepare
  <2>4. UserPush \/ (\E w \in Worker : Pushes(w)) => UNCHANGED pending
    BY DEF UserPush, Pushes
  <2>5. QED
    BY <2>1, <2>2, <2>3, <2>4, StepKinds
<1>q. QED
  BY <1>2, <1>4

\* The dry run of an action that is sealed does not change.
LEMMA DryRunStays ==
    ASSUME PublicationInv, ReviewInv, HistoryKept, NEW a \in Action, pending[a] # NoAction
    PROVE  /\ pending'[a] = pending[a]
           /\ (DryRun(pending[a]))' = DryRun(pending[a])
<1>1. pending'[a] = pending[a] /\ pending[a].base \in 1 .. Tip
  BY DEF HistoryKept, ReviewInv, SealOK
<1>2. (TreeAt(pending[a].base))' = TreeAt(pending[a].base)
  BY <1>1 DEF HistoryKept, TreeAt
<1>q. QED
  BY <1>1, <1>2 DEF DryRun

\* What the steps of the dry run are.
LEMMA DryRunIs ==
    ASSUME PublicationInv, ReviewInv, NEW a \in Action, pending[a] # NoAction
    PROVE  LET s == pending[a] IN
           /\ s.plan \in Seq(Operation) /\ Len(s.plan) \in Nat /\ s.month \in Month
           /\ DryRun(s) \in [0 .. Len(s.plan) -> Tree]
           /\ DryRun(s)[0] = TreeAt(s.base)
           /\ \A k \in 1 .. Len(s.plan) :
                 DryRun(s)[k] = ApplyOperation(DryRun(s)[k - 1], s.plan[k], s.month)
<1> DEFINE s == pending[a]
<1>1. IsSealed(s) /\ TypeOK
  BY DEF PublicationInv, TypeInv, TypeOK
<1>2. s.plan \in Seq(Operation) /\ s.month \in Month
  BY <1>1, PlanFacts DEF IsSealed
<1>3. TreeAt(s.base) \in Tree
  BY <1>1, BranchFacts DEF ReviewInv, SealOK
<1>4. Len(s.plan) \in Nat
  BY <1>2
<1> HIDE DEF s
<1>5. /\ DryRun(s) \in [0 .. Len(s.plan) -> Tree]
      /\ DryRun(s)[0] = TreeAt(s.base)
      /\ \A k \in 1 .. Len(s.plan) :
            DryRun(s)[k] = ApplyOperation(DryRun(s)[k - 1], s.plan[k], s.month)
  BY <1>2, <1>3, RehearsalIs DEF DryRun
<1>q. QED
  BY <1>2, <1>4, <1>5 DEF s

LEMMA ReviewStays ==
    ASSUME PublicationInv, ReviewInv, HistoryKept, NEW w \in Worker,
           pc'[w] = pc[w], act'[w] = act[w], ws'[w] = ws[w], step'[w] = step[w],
           target'[w] = target[w], steady'[w] = steady[w]
    PROVE  ReviewOK(w)'
<1>1. CASE pc[w] \notin Checked
  BY <1>1 DEF ReviewOK
<1>2. CASE pc[w] \in Checked
  <2>1. act[w] \in Action /\ pending[act[w]] # NoAction
    BY <1>2 DEF PublicationInv, TypeInv, ControlOK, Checked
  <2>2. ASSUME NEW a \in Action, a = act[w] PROVE ReviewOK(w)'
    <3>1. pending'[a] = pending[a] /\ (DryRun(pending[a]))' = DryRun(pending[a])
      BY <2>1, <2>2, DryRunStays
    <3>2. ReviewOK(w)
      BY DEF ReviewInv
    <3>3. SealedFiles(w)' = SealedFiles(w) /\ pending'[act'[w]] = pending[act[w]]
      BY <2>2, <3>1 DEF SealedFiles
    <3>4. (DryRun(pending[act[w]]))' = DryRun(pending[act[w]])
      BY <2>2, <3>1
    <3>5. QED
      BY <3>2, <3>3, <3>4 DEF ReviewOK, AsIn, PathsTellMonth
  <2>3. QED
    BY <2>1, <2>2
<1>q. QED
  BY <1>1, <1>2

\* In the calm, what appends does so in the month that was sealed.
LEMMA SealedMonth ==
    ASSUME TypeInv, NEW w \in Worker, pc[w] \in {"replay", "include"},
           Creates(PlanOf(w)[step[w]]), WriteSetMatches(w), PathsTellMonth(pending[act[w]])
    PROVE  month = pending[act[w]].month
<1>1. step[w] \in DOMAIN PlanOf(w) /\ month \in Month
  BY PlanOfFacts DEF TypeInv, TypeOK
<1>2. QED
  BY <1>1 DEF PathsTellMonth, WriteSetMatches, PlanOf

\* A request at work, its plan and the dry run it follows.
LEMMA AtWork ==
    ASSUME PublicationInv, ReviewInv, NEW w \in Worker, pc[w] \in {"replay", "include"}
    PROVE  LET s == pending[act[w]]
               k == step[w]
           IN  /\ k \in 1 .. Len(s.plan) /\ k \in Nat /\ k - 1 \in 0 .. Len(s.plan)
               /\ s.plan[k] \in Operation /\ s.month \in Month /\ PlanOf(w) = s.plan
               /\ DryRun(s)[k - 1] \in Tree /\ DryRun(s)[k] \in Tree
               /\ DryRun(s)[k] = ApplyOperation(DryRun(s)[k - 1], s.plan[k], s.month)
               /\ SealedFiles(w) \subseteq Path
               /\ ws[w] \in Tree
<1> DEFINE s == pending[act[w]]
           k == step[w]
<1>1. act[w] \in Action /\ s # NoAction /\ PlanOf(w) = s.plan /\ IsSealed(s)
  BY DEF PublicationInv, TypeInv, TypeOK, ControlOK, PlanOf
<1>2. k \in DOMAIN s.plan /\ s.plan[k] \in Operation /\ ws[w] \in Tree
  BY <1>1, PlanOfFacts DEF PublicationInv, TypeInv, TypeOK
<1>3. /\ s.plan \in Seq(Operation) /\ Len(s.plan) \in Nat /\ s.month \in Month
      /\ DryRun(s) \in [0 .. Len(s.plan) -> Tree]
      /\ \A j \in 1 .. Len(s.plan) :
            DryRun(s)[j] = ApplyOperation(DryRun(s)[j - 1], s.plan[j], s.month)
  BY <1>1, DryRunIs
<1>4. k \in 1 .. Len(s.plan) /\ k \in Nat /\ k - 1 \in 0 .. Len(s.plan) /\ k \in 0 .. Len(s.plan)
  <2> HIDE DEF s, k
  <2>1. k \in 1 .. Len(s.plan)
    BY <1>2, <1>3
  <2>2. QED
    BY <1>3, <2>1
<1>5. SealedFiles(w) \subseteq Path
  BY <1>1, PathFacts DEF IsSealed, IsCapture, SealedFiles
<1>q. QED
  BY <1>1, <1>2, <1>3, <1>4, <1>5

\* Having done what the dry run did at this step, a request moves on with it.
LEMMA ReviewNext ==
    ASSUME PublicationInv, ReviewInv, NEW w \in Worker, pc[w] \in {"replay", "include"},
           NextOperation(w), UNCHANGED <<branch, pending, act>>,
           steady'[w] /\ PathsTellMonth(pending[act[w]]) =>
               \A p \in SealedFiles(w) : ws'[w][p] = DryRun(pending[act[w]])[step[w]][p]
    PROVE  ReviewOK(w)'
<1>1. /\ step[w] \in 1 .. Len(pending[act[w]].plan) /\ step[w] \in Nat
      /\ PlanOf(w) = pending[act[w]].plan
  BY AtWork
<1>2. /\ step'[w] = step[w] + 1
      /\ pc'[w] = IF step[w] = Len(PlanOf(w)) THEN "check" ELSE "replay"
  BY DEF NextOperation, Goto, PublicationInv, TypeInv, TypeOK
<1>3. step'[w] - 1 = step[w]
  BY <1>1, <1>2
<1>4. /\ SealedFiles(w)' = SealedFiles(w) /\ pending'[act'[w]] = pending[act[w]]
      /\ (DryRun(pending[act[w]]))' = DryRun(pending[act[w]])
  BY DEF SealedFiles, DryRun, TreeAt
<1>5. CASE pc'[w] = "check"
  BY <1>1, <1>2, <1>4, <1>5 DEF ReviewOK, AsIn, PathsTellMonth
<1>6. CASE pc'[w] = "replay"
  BY <1>2, <1>3, <1>4, <1>6 DEF ReviewOK, AsIn, PathsTellMonth
<1>q. QED
  BY <1>2, <1>5, <1>6

LEMMA ReviewCreate ==
    ASSUME PublicationInv, ReviewInv, NEW w \in Worker, ReplayCreate(w)
    PROVE  ReviewOK(w)'
<1> DEFINE s == pending[act[w]]
           before == DryRun(s)[step[w] - 1]
<1>1. /\ UNCHANGED <<branch, pending, act, step>>
      /\ pc[w] = "replay" /\ pc'[w] = "include" /\ Creates(PlanOf(w)[step[w]])
      /\ ws'[w] = EnsureMonthFile(ws[w], month) /\ target'[w] = MonthFile(month)
      /\ steady'[w] => steady[w] /\ WriteSetMatches(w)
  BY DEF ReplayCreate, Goto, PublicationInv, TypeInv, TypeOK
<1>2. /\ SealedFiles(w)' = SealedFiles(w) /\ pending'[act'[w]] = pending[act[w]]
      /\ (DryRun(s))' = DryRun(s)
  BY <1>1 DEF SealedFiles, DryRun, TreeAt
<1>3. ASSUME steady'[w], PathsTellMonth(s)
      PROVE  /\ \A p \in SealedFiles(w) : ws'[w][p] = EnsureMonthFile(before, s.month)[p]
             /\ target'[w] = MonthFile(s.month)
  <2>1. month = s.month
    BY <1>1, <1>3, SealedMonth DEF PublicationInv
  <2>2. /\ before \in Tree /\ s.month \in Month /\ SealedFiles(w) \subseteq Path
        /\ ws[w] \in Tree /\ s.plan[step[w]] \in Operation
    BY <1>1, AtWork
  <2>3. \A p \in SealedFiles(w) : ws[w][p] = before[p]
    BY <1>1, <1>3 DEF ReviewInv, ReviewOK, AsIn, Checked
  <2> HIDE DEF before, s
  <2>4. ASSUME NEW p \in SealedFiles(w)
        PROVE  EnsureMonthFile(ws[w], s.month)[p] = EnsureMonthFile(before, s.month)[p]
    <3>1. p \in Path /\ MainFile \in Sidecar
      BY <2>2, PathFacts
    <3>2. QED
      BY <2>2, <2>3, <3>1, EachFileByItself
  <2>5. QED
    BY <1>1, <2>1, <2>4
<1>q. QED
  BY <1>1, <1>2, <1>3 DEF ReviewOK, AsIn, PathsTellMonth

LEMMA ReviewInclude ==
    ASSUME PublicationInv, CalmInv, ReviewInv, NEW w \in Worker, ReplayInclude(w)
    PROVE  ReviewOK(w)'
<1> DEFINE s == pending[act[w]]
           op == s.plan[step[w]]
           before == DryRun(s)[step[w] - 1]
           made == EnsureMonthFile(before, s.month)
           into == MonthFile(s.month)
<1>1. /\ UNCHANGED <<branch, pending, act>>
      /\ pc[w] = "include" /\ NextOperation(w)
      /\ ws'[w] = WriteItem(EnsureInclude(ws[w], month), PlanOf(w)[step[w]], target[w])
      /\ steady'[w] => steady[w] /\ WriteSetMatches(w)
  BY DEF ReplayInclude, PublicationInv, TypeInv, TypeOK
<1>2. /\ before \in Tree /\ s.month \in Month /\ SealedFiles(w) \subseteq Path
      /\ ws[w] \in Tree /\ op \in Operation /\ PlanOf(w) = s.plan
      /\ DryRun(s)[step[w]] = ApplyOperation(before, op, s.month)
  BY <1>1, AtWork
<1>3. Creates(op)
  BY <1>1, <1>2 DEF CalmInv, CalmOK
<1>4. DryRun(s)[step[w]] = WriteItem(EnsureInclude(made, s.month), op, into)
  BY <1>2, <1>3 DEF ApplyOperation
<1>5. ASSUME steady'[w], PathsTellMonth(s)
      PROVE  \A p \in SealedFiles(w) : ws'[w][p] = DryRun(s)[step[w]][p]
  <2>1. month = s.month
    BY <1>1, <1>2, <1>3, <1>5, SealedMonth DEF PublicationInv
  <2>2. target[w] = into /\ \A p \in SealedFiles(w) : ws[w][p] = made[p]
    BY <1>1, <1>5 DEF ReviewInv, ReviewOK, AsIn, Checked
  <2>3. ws'[w] = WriteItem(EnsureInclude(ws[w], s.month), op, into)
    BY <1>1, <1>2, <2>1, <2>2
  <2>4. into \in Sidecar /\ made \in Tree
    BY <1>2, PathFacts, EnsureMonthFileTree
  <2>5. EnsureInclude(made, s.month) \in Tree /\ EnsureInclude(ws[w], s.month) \in Tree
    <3> HIDE DEF made
    <3>1. QED
      BY <1>2, <2>4, EnsureIncludeTree
  <2> HIDE DEF made, into, op, s
  <2>6. ASSUME NEW p \in SealedFiles(w)
        PROVE  WriteItem(EnsureInclude(ws[w], s.month), op, into)[p]
                  = WriteItem(EnsureInclude(made, s.month), op, into)[p]
    <3>1. p \in Path
      BY <1>2
    <3>2. EnsureInclude(ws[w], s.month)[p] = EnsureInclude(made, s.month)[p]
      BY <1>2, <2>2, <2>4, <3>1, EachFileByItself
    <3>3. QED
      BY <1>2, <2>4, <2>5, <3>1, <3>2, EachFileByItself
  <2>7. QED
    BY <1>4, <2>3, <2>6 DEF made, into, op, s
<1>q. QED
  BY <1>1, <1>5, ReviewNext

LEMMA ReviewEdit ==
    ASSUME PublicationInv, CalmInv, ReviewInv, NEW w \in Worker, ReplayEdit(w)
    PROVE  ReviewOK(w)'
<1> DEFINE s == pending[act[w]]
           op == s.plan[step[w]]
           before == DryRun(s)[step[w] - 1]
<1>1. /\ UNCHANGED <<branch, pending, act, steady>>
      /\ pc[w] = "replay" /\ ~Creates(PlanOf(w)[step[w]])
  BY DEF ReplayEdit, PublicationInv, TypeInv, TypeOK
<1>2. /\ before \in Tree /\ s.month \in Month /\ SealedFiles(w) \subseteq Path
      /\ ws[w] \in Tree /\ op \in Operation /\ PlanOf(w) = s.plan
      /\ DryRun(s)[step[w]] = ApplyOperation(before, op, s.month)
  BY <1>1, AtWork
<1>3. CASE ~EditApplies(ws[w], op)
  <2>1. pc'[w] = "done"
    BY <1>2, <1>3 DEF ReplayEdit, Finish, PublicationInv, TypeInv, TypeOK
  <2>2. QED
    BY <2>1 DEF ReviewOK, Checked
<1>4. CASE EditApplies(ws[w], op)
  <2>1. NextOperation(w) /\ ws'[w] = EditItem(ws[w], op)
    BY <1>2, <1>4 DEF ReplayEdit, PublicationInv, TypeInv, TypeOK
  <2>2. ASSUME steady'[w], PathsTellMonth(s)
        PROVE  \A p \in SealedFiles(w) : ws'[w][p] = DryRun(s)[step[w]][p]
    <3>1. \A p \in SealedFiles(w) : ws[w][p] = before[p]
      BY <1>1, <2>2 DEF ReviewInv, ReviewOK, AsIn, Checked
    <3>2. op.file \in SealedFiles(w) /\ op.file \in Path
      BY <1>1, <1>2, EditedFileIsSealed DEF PublicationInv
    <3>3. MainFile \in Sidecar
      BY PathFacts
    <3> HIDE DEF before, op, s
    <3>4. EditApplies(before, op)
      BY <1>2, <1>4, <3>1, <3>2, <3>3, EachFileByItself
    <3>5. DryRun(s)[step[w]] = EditItem(before, op)
      BY <1>1, <1>2, <3>4 DEF ApplyOperation, op, s
    <3>6. ASSUME NEW p \in SealedFiles(w) PROVE EditItem(ws[w], op)[p] = EditItem(before, op)[p]
      BY <1>2, <3>1, <3>3, EachFileByItself
    <3>7. QED
      BY <2>1, <3>5, <3>6
  <2>3. QED
    BY <1>1, <2>1, <2>2, ReviewNext
<1>q. QED
  BY <1>3, <1>4

\* The preconditions make the workspace agree with the revision that was sealed.
LEMMA ReviewStarts ==
    ASSUME PublicationInv, ReviewInv, NEW w \in Worker, CheckPreconditions(w)
    PROVE  ReviewOK(w)'
<1> DEFINE s == pending[act[w]]
<1>1. /\ UNCHANGED <<branch, pending, act, ws>> /\ pc[w] = "preconditions" /\ step'[w] = 1
      /\ act[w] \in Action /\ s # NoAction
  BY DEF CheckPreconditions, PublicationInv, TypeInv, TypeOK, ControlOK
<1>2. CASE ~PreconditionsHold(ws[w], s)
  <2>1. pc'[w] = "done"
    BY <1>2 DEF CheckPreconditions, Finish, PublicationInv, TypeInv, TypeOK
  <2>2. QED
    BY <2>1 DEF ReviewOK, Checked
<1>3. CASE PreconditionsHold(ws[w], s)
  <2>1. pc'[w] = "replay"
    BY <1>3 DEF CheckPreconditions, Goto, PublicationInv, TypeInv, TypeOK
  <2>2. Snapshot(ws[w], DOMAIN s.pre) = Snapshot(TreeAt(s.base), DOMAIN s.pre)
    BY <1>1, <1>3 DEF PreconditionsHold, ReviewInv, SealOK
  <2>3. ASSUME NEW p \in DOMAIN s.pre PROVE ws[w][p] = TreeAt(s.base)[p]
    <3>1. /\ Snapshot(ws[w], DOMAIN s.pre)[p] = ws[w][p]
          /\ Snapshot(TreeAt(s.base), DOMAIN s.pre)[p] = TreeAt(s.base)[p]
      BY DEF Snapshot
    <3>2. QED
      BY <2>2, <3>1
  <2>4. DryRun(s)[0] = TreeAt(s.base)
    BY <1>1, DryRunIs
  <2>5. /\ SealedFiles(w)' = SealedFiles(w) /\ pending'[act'[w]] = pending[act[w]]
        /\ (DryRun(s))' = DryRun(s) /\ step'[w] - 1 = 0 /\ SealedFiles(w) = DOMAIN s.pre
    BY <1>1 DEF SealedFiles, DryRun, TreeAt
  <2>6. \A p \in SealedFiles(w) : ws'[w][p] = DryRun(s)[step'[w] - 1][p]
    BY <1>1, <2>3, <2>4, <2>5
  <2>7. QED
    BY <2>1, <2>5, <2>6 DEF ReviewOK, AsIn
<1>q. QED
  BY <1>2, <1>3

LEMMA ReviewRequest ==
    ASSUME PublicationInv, CalmInv, ReviewInv, NEW w \in Worker,
           (\E a \in Action : Open(w, a)) \/ Apply(w) \/ Fault(w) \/ Crash(w)
    PROVE  ReviewOK(w)'
<1>1. pc \in [Worker -> Phase]
  BY DEF PublicationInv, TypeInv, TypeOK
<1>2. CASE pc'[w] \notin Checked
  BY <1>2 DEF ReviewOK
<1>3. ASSUME NEW a \in Action, Open(w, a) PROVE pc'[w] \notin Checked
  BY <1>1, <1>3 DEF Open, Finish, Checked
<1>4. CASE Verify(w) \/ CheckWriteSet(w) \/ CaptureOriginals(w)
  <2>1. pc'[w] \notin Checked
    BY <1>1, <1>4 DEF Verify, CheckWriteSet, CaptureOriginals, Goto, Finish, Checked
  <2>2. QED
    BY <1>2, <2>1
<1>5. CASE Push(w) \/ Fault(w) \/ Close(w) \/ Crash(w)
  <2>1. pc'[w] \notin Checked
    BY <1>1, <1>5 DEF Push, Fault, Close, Crash, Forget, Finish, Checked
  <2>2. QED
    BY <1>2, <2>1
<1>6. CASE Validate(w) \/ CommitLocally(w)
  <2>1. pc'[w] = "done"
          \/ /\ pc[w] \in {"check", "commit"} /\ pc'[w] \in {"commit", "push"}
             /\ ws'[w] = ws[w]
    BY <1>1, <1>6 DEF Validate, CommitLocally, Goto, Finish
  <2>2. UNCHANGED <<branch, pending, act, steady>>
    BY <1>6 DEF Validate, CommitLocally
  <2>3. /\ SealedFiles(w)' = SealedFiles(w) /\ pending'[act'[w]] = pending[act[w]]
        /\ (DryRun(pending[act[w]]))' = DryRun(pending[act[w]])
    BY <2>2 DEF SealedFiles, DryRun, TreeAt
  <2>4. ReviewOK(w)
    BY DEF ReviewInv
  <2>5. QED
    BY <2>1, <2>2, <2>3, <2>4 DEF ReviewOK, AsIn, Checked, PathsTellMonth
<1>q. QED
  BY <1>2, <1>3, <1>4, <1>5, <1>6, ReviewStarts, ReviewCreate, ReviewInclude, ReviewEdit
     DEF Apply

\* A published commit stays as it was reviewed.
LEMMA ReviewedStay ==
    ASSUME PublicationInv, ReviewInv, HistoryKept
    PROVE  \A i \in 2 .. Tip : Reviewed(i)'
<1>1. Tip \in Nat
  BY BranchFacts DEF PublicationInv, TypeInv
<1>2. ASSUME NEW i \in 2 .. Tip PROVE Reviewed(i)'
  <2>1. branch'[i] = branch[i] /\ branch'[i - 1] = branch[i - 1]
    BY <1>1 DEF HistoryKept
  <2>2. CASE ~ByAgent(i)
    BY <2>1, <2>2 DEF Reviewed, ByAgent
  <2>3. CASE ByAgent(i)
    <3>1. pending[branch[i].by] # NoAction /\ branch[i].by \in Action
      BY <1>1, <2>3, BranchFacts DEF PublicationInv, CommitOK, ByAgent, TypeInv, Commit
    <3>2. /\ SealOf(i)' = SealOf(i) /\ TreeAt(i)' = TreeAt(i)
          /\ TreeAt(i - 1)' = TreeAt(i - 1) /\ SealOf(i).base \in 1 .. Tip
      BY <2>1, <3>1 DEF HistoryKept, SealOf, TreeAt, ReviewInv, SealOK
    <3>3. (TreeAt(SealOf(i).base))' = TreeAt(SealOf(i).base)
      BY <3>2 DEF HistoryKept, TreeAt
    <3>4. Reviewed(i)
      BY DEF ReviewInv
    <3>5. QED
      BY <2>1, <2>3, <3>2, <3>3, <3>4 DEF Reviewed, PathsTellMonth, Replayed
  <2>4. QED
    BY <2>2, <2>3
<1>q. QED
  BY <1>2

\* The commit that lands is the dry run's last tree on the sealed files.
LEMMA ReviewLands ==
    ASSUME PublicationInv, CalmInv, ReviewInv, NEW w \in Worker, Pushes(w)
    PROVE  /\ HistoryKept /\ Tip' = Tip + 1 /\ Tip \in Nat
           /\ \A k \in Nat : k = Tip + 1 => Reviewed(k)'
<1> DEFINE c == [tree |-> CommitTree(w), by |-> act[w], calm |-> steady[w]]
           s == pending[act[w]]
<1>1. branch' = Append(branch, c) /\ base[w] = Tip /\ UNCHANGED pending /\ pc[w] = "push"
  BY DEF Pushes, Lands
<1>2. /\ HistoryKept /\ branch'[Tip + 1] = c
      /\ Tip' = Tip + 1 /\ Tip \in Nat /\ Tip \in 1 .. Tip
  BY <1>1, AppendGrows
<1>3. /\ act[w] \in Action /\ s # NoAction
      /\ s.base \in 1 .. Tip /\ SealedFiles(w) = DOMAIN s.pre /\ DOMAIN s.pre \subseteq Path
  BY <1>1, PathFacts DEF PublicationInv, TypeInv, TypeOK, ControlOK, ReviewInv, SealOK,
                         SealedFiles, IsSealed, IsCapture
<1>4. ASSUME steady[w], PathsTellMonth(s), NEW p \in Path
      PROVE  CommitTree(w)[p] = IF p \in DOMAIN s.pre
                                THEN Replayed(TreeAt(s.base), s)[p] ELSE TreeAt(Tip)[p]
  <2>1. /\ originals[w] = Snapshot(TreeAt(Tip), DOMAIN s.pre)
        /\ \A q \in Path \ DOMAIN s.pre : ws[w][q] = TreeAt(Tip)[q]
    BY <1>1, <1>3, <1>4 DEF CalmInv, CalmOK, Checked
  <2>2. \A q \in DOMAIN s.pre : ws[w][q] = Replayed(TreeAt(s.base), s)[q]
    BY <1>1, <1>3, <1>4 DEF ReviewInv, ReviewOK, AsIn, DryRun, Replayed, Checked
  <2>3. CommitTree(w)[p] = ws[w][p]
    BY <1>1, <2>1 DEF CommitTree, ChangedPaths, Snapshot
  <2>4. QED
    BY <2>1, <2>2, <2>3
<1>5. ASSUME NEW k \in Nat, k = Tip + 1 PROVE Reviewed(k)'
  <2>1. k - 1 = Tip /\ branch'[k] = c /\ branch'[Tip] = branch[Tip]
    BY <1>2, <1>5 DEF HistoryKept
  <2>2. /\ branch'[k].tree = CommitTree(w) /\ branch'[k].by = act[w]
        /\ branch'[k].calm = steady[w]
    BY <2>1
  <2>3. /\ (TreeAt(k))' = CommitTree(w) /\ (SealOf(k))' = s
        /\ (TreeAt(k - 1))' = TreeAt(Tip)
    BY <1>1, <2>1, <2>2 DEF TreeAt, SealOf
  <2>4. (TreeAt(SealOf(k).base))' = TreeAt(s.base)
    <3>1. \A b \in 1 .. Tip : branch'[b] = branch[b]
      BY <1>2 DEF HistoryKept
    <3>2. branch'[s.base] = branch[s.base]
      BY <1>3, <3>1
    <3>3. QED
      BY <2>3, <3>2 DEF TreeAt
  <2> HIDE DEF s
  <2>5. QED
    BY <1>4, <2>2, <2>3, <2>4 DEF Reviewed, PathsTellMonth, Replayed
<1>q. QED
  BY <1>2, <1>5

LEMMA ReviewStep == PublicationInv /\ CalmInv /\ ReviewInv /\ [Next]_vars => ReviewInv'
<1> SUFFICES ASSUME PublicationInv, CalmInv, ReviewInv, [Next]_vars PROVE ReviewInv'
  OBVIOUS
<1>1. HistoryKept
  BY StepIsApproved
<1>2. \A a \in Action : SealOK(a)'
  BY <1>1, SealsStay
<1>3. \A w \in Worker : ReviewOK(w)'
  <2>1. CASE UNCHANGED worker
    BY <1>1, <2>1, ReviewStays DEF worker
  <2>2. ASSUME NEW w \in Worker,
               (\E a \in Action : Open(w, a)) \/ Apply(w) \/ Fault(w) \/ Crash(w)
        PROVE  \A v \in Worker : ReviewOK(v)'
    <3>1. ReviewOK(w)'
      BY <2>2, ReviewRequest
    <3>2. ASSUME NEW v \in Worker \ {w} PROVE ReviewOK(v)'
      <4>1. /\ pc'[v] = pc[v] /\ act'[v] = act[v] /\ ws'[v] = ws[v] /\ step'[v] = step[v]
            /\ target'[v] = target[v] /\ steady'[v] = steady[v]
        BY <2>2, OthersDoNotMove DEF PublicationInv
      <4>2. QED
        BY <1>1, <4>1, ReviewStays
    <3>3. QED
      BY <3>1, <3>2
  <2>3. CASE Tick \/ UserPush \/ \E a \in Action : Prepare(a)
    BY <2>1, <2>3 DEF Tick, UserPush, Prepare
  <2>4. CASE UNCHANGED vars
    BY <2>1, <2>4 DEF vars
  <2>5. QED
    BY <2>2, <2>3, <2>4 DEF Next
<1>4. \A i \in 2 .. Tip : Reviewed(i)'
  BY <1>1, ReviewedStay
<1>5. CASE Tip' = Tip
  BY <1>2, <1>3, <1>4, <1>5 DEF ReviewInv
<1>6. ASSUME Tip' = Tip + 1, Tip \in Nat, \A k \in Nat : k = Tip + 1 => Reviewed(k)'
      PROVE  ReviewInv'
  <2>1. \A i \in 2 .. Tip' : i \in 2 .. Tip \/ (i \in Nat /\ i = Tip + 1)
    BY <1>6
  <2>2. QED
    BY <1>2, <1>3, <1>4, <1>6, <2>1 DEF ReviewInv
<1>7. CASE UserPush
  <2>1. PICK t \in UserEdits(TreeAt(Tip)) :
           branch' = Append(branch, [tree |-> t, by |-> User, calm |-> TRUE])
    BY <1>7 DEF UserPush
  <2>2. UNCHANGED pending
    BY <1>7 DEF UserPush
  <2>3. /\ Tip' = Tip + 1 /\ Tip \in Nat
        /\ branch'[Tip + 1] = [tree |-> t, by |-> User, calm |-> TRUE]
    BY <2>1, <2>2, AppendGrows
  <2>4. \A k \in Nat : k = Tip + 1 => Reviewed(k)'
    BY <2>3 DEF Reviewed, ByAgent
  <2>5. QED
    BY <1>6, <2>3, <2>4
<1>8. ASSUME NEW w \in Worker, Pushes(w) PROVE ReviewInv'
  BY <1>6, <1>8, ReviewLands
<1>9. ASSUME NEW a \in Action, Prepare(a) PROVE Tip' = Tip
  BY <1>9 DEF Prepare, Tip
<1>10. UNCHANGED <<branch, pending>> => Tip' = Tip
  BY DEF Tip
<1>q. QED
  BY <1>5, <1>7, <1>8, <1>9, <1>10, StepKinds

\* With the calendar steady, what reaches the branch is what the dry run showed
\* when the action was prepared, however old the revision it was prepared on and
\* however many operations the plan has (executor.py apply_plan and
\* preparation.py, which replay one plan through one applier).
THEOREM WhatIsReviewedIsPublished == Spec => []PublishedAsReviewed
<1>1. ReviewInv => PublishedAsReviewed
  BY DEF ReviewInv, Reviewed, PublishedAsReviewed
<1>2. QED
  BY <1>1, InvInit, InvStep, CalmInit, CalmStep, ReviewInit, ReviewStep, PTL DEF Spec

=============================================================================
