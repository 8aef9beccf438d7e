------------------------------ MODULE Onboarding ------------------------------
(***************************************************************************)
(* Setting a repository up for the service.  A client previews a setup and *)
(* confirms it against the head it was shown; the service works on a copy  *)
(* of the branch, checks it, commits everything in it and pushes.  Other   *)
(* people push to the same branch, several clients set it up at once, the  *)
(* process may be killed and the answer to a push may be lost.             *)
(***************************************************************************)
EXTENDS LedgerRepository

CONSTANTS
    Client,         \* who sets the repository up
    Request,        \* the setups they may ask for
    FirstTrees,     \* the repositories they may find
    ForeignEdits,   \* <<path, file or Absent>>: what others may push
    MaxForeign      \* bound: no foreign push once the branch is this long

ASSUME OnboardingAssumption ==
    /\ Request \subseteq [operation : {"initialize_ledger", "install_sidecar"},
                          entry : Path \cup {Absent, Outside},
                          sidecar : Path \cup {Absent, Outside}, matching : BOOLEAN]
    /\ \A tree \in FirstTrees : tree \in Tree
    /\ ForeignEdits \subseteq Path \X (File \cup {Absent})
    /\ MaxForeign \in Nat

VARIABLES
    branch,   \* the trees of the remote branch, oldest first
    pc,       \* pc[c]: how far c's confirmation has come
    shown,    \* shown[c]: the last preview c was shown
    base,     \* base[c]: the revision its confirmation works on
    work,     \* work[c]: the working copy
    answer,   \* answer[c]: the answer to a confirmation of that preview
    setups    \* history: what each setup that reached the branch came from

vars == <<branch, pc, shown, base, work, answer, setups>>

Phase == {"idle", "copied", "applied", "checked", "committed"}
Top == Len(branch)
Tip == branch[Top]
NoAnswer == [code |-> "none", head |-> 0]
NoWork == [p \in Path |-> Absent]
NoPaths == [error |-> "none", entry |-> Absent, sidecar |-> Absent]
NoPreview == [code |-> "nothing", head |-> 0, request |-> CHOOSE r \in Request : TRUE,
              paths |-> NoPaths, changes |-> {}]

\* What preview_setup shows of a tree; a refusal leaves nothing to confirm.
PreviewOf(tree, head, r) ==
    LET paths == SetupPaths(tree, r) IN
    IF PreviewError(tree, r) # "none" THEN NoPreview
    ELSE [code |-> "none", head |-> head, request |-> r, paths |-> paths,
          changes |-> Planned(tree, r, paths)]

-----------------------------------------------------------------------------

\* Somebody else pushes.
Foreign ==
    /\ Top < MaxForeign
    /\ \E edit \in ForeignEdits :
          /\ Tip[edit[1]] # edit[2]
          /\ branch' = Append(branch, [Tip EXCEPT ![edit[1]] = edit[2]])
    /\ UNCHANGED <<pc, shown, base, work, answer, setups>>

\* run_setup_preview: nothing is written.  A repository the plugin policy
\* rejects is not answered with a preview.
Preview(c, r) ==
    /\ pc[c] = "idle"
    /\ shown' = [shown EXCEPT ![c] = IF Accepted(Tip, DefaultEntry)
                                     THEN PreviewOf(Tip, Top, r) ELSE NoPreview]
    /\ answer' = [answer EXCEPT ![c] = NoAnswer]
    /\ UNCHANGED <<branch, pc, base, work, setups>>

\* What the client is told; "none" when the connection breaks.
Tell(c, code) == answer' = [answer EXCEPT ![c] = [code |-> code, head |-> shown[c].head]]

\* The request is over: the copy it worked on is destroyed.
Close(c) ==
    /\ pc' = [pc EXCEPT ![c] = "idle"]
    /\ work' = [work EXCEPT ![c] = NoWork]
    /\ base' = [base EXCEPT ![c] = 0]

\* The variant that leaves its copy behind when it refuses.
AnswerOnly(c, code) ==
    /\ Tell(c, code)
    /\ pc' = [pc EXCEPT ![c] = "idle"]
    /\ UNCHANGED <<branch, shown, setups, work, base>>

Answer(c, code) == Tell(c, code) /\ Close(c) /\ UNCHANGED <<branch, shown, setups>>

\* The cache is busy, the remote refuses or the policy rejects: no working copy.
Unopened(c) ==
    /\ pc[c] = "idle" /\ shown[c].code = "none"
    /\ Answer(c, "UNAVAILABLE")

\* The variant that works on whatever the branch holds now.
ConfirmAnyHead(c) ==
    LET again == PreviewOf(Tip, Top, shown[c].request) IN
    /\ pc[c] = "idle" /\ shown[c].code = "none"
    /\ Accepted(Tip, DefaultEntry)
    /\ IF again.code # "none" THEN Answer(c, again.code)
       ELSE /\ base' = [base EXCEPT ![c] = Top]
            /\ work' = [work EXCEPT ![c] = Tip]
            /\ pc' = [pc EXCEPT ![c] = "copied"]
            /\ UNCHANGED <<branch, shown, answer, setups>>

\* The confirmation opens its copy, of one revision and whole (WorkspaceCache
\* models how it is taken), and compares its head with the one it was given; then
\* it asks for the preview once more.
Confirm(c) ==
    LET again == PreviewOf(Tip, Top, shown[c].request)
    IN  /\ pc[c] = "idle" /\ shown[c].code = "none"
        /\ Accepted(Tip, DefaultEntry)
        /\ IF shown[c].head # Top THEN Answer(c, "STALE_REPOSITORY")
           ELSE IF again.code # "none" THEN Answer(c, again.code)
           ELSE /\ base' = [base EXCEPT ![c] = Top]
                /\ work' = [work EXCEPT ![c] = Tip]
                /\ pc' = [pc EXCEPT ![c] = "copied"]
                /\ UNCHANGED <<branch, shown, answer, setups>>

\* apply_initialize or apply_install_sidecar.
Apply(c) ==
    /\ pc[c] = "copied"
    /\ work' = [work EXCEPT ![c] = Applied(@, shown[c].request, shown[c].paths)]
    /\ pc' = [pc EXCEPT ![c] = "applied"]
    /\ UNCHANGED <<branch, shown, base, answer, setups>>

\* The variant that formats and goes on whatever bean-check says.
CheckNothing(c) ==
    /\ pc[c] = "applied"
    /\ work' = [work EXCEPT ![c] = Formatted(@, shown[c].paths)]
    /\ pc' = [pc EXCEPT ![c] = "checked"]
    /\ UNCHANGED <<branch, shown, base, answer, setups>>

\* A setup bean-check rejects is answered as reverted, others are formatted.
Check(c) ==
    /\ pc[c] = "applied"
    /\ IF Valid(work[c], shown[c].paths.entry)
       THEN /\ work' = [work EXCEPT ![c] = Formatted(@, shown[c].paths)]
            /\ pc' = [pc EXCEPT ![c] = "checked"]
            /\ UNCHANGED <<branch, shown, base, answer, setups>>
       ELSE Answer(c, "BEANCOUNT_CHECK_FAILED")

\* git add -A and git commit, which fails when there is nothing to commit.
Commit(c) ==
    /\ pc[c] = "checked"
    /\ IF work[c] = branch[base[c]] THEN Answer(c, "GIT_COMMIT_FAILED")
       ELSE /\ pc' = [pc EXCEPT ![c] = "committed"]
            /\ UNCHANGED <<branch, shown, base, work, answer, setups>>

Reaches(c) ==
    /\ branch' = Append(branch, work[c])
    /\ setups' = setups \cup {[by |-> c, revision |-> Top + 1, shown |-> shown[c]]}

\* The push is accepted if nothing was pushed since the copy was made, and its
\* answer comes back or does not.
Push(c) ==
    /\ pc[c] = "committed" /\ Top = base[c]
    /\ \E code \in {"success", "GIT_PUSH_FAILED"} : Tell(c, code)
    /\ Reaches(c) /\ Close(c)
    /\ UNCHANGED shown

\* The variant that answers a refused push as if the push had been made.
PushFailsQuietly(c) ==
    /\ pc[c] = "committed"
    /\ Answer(c, "success")

\* The remote refuses the push or cannot be reached.
PushFails(c) ==
    /\ pc[c] = "committed"
    /\ Answer(c, "GIT_PUSH_FAILED")

\* The process is killed, or a step raises: no answer, and the copy is lost.
Crash(c) ==
    /\ pc[c] # "idle"
    /\ Answer(c, "none")

-----------------------------------------------------------------------------

Init ==
    /\ \E tree \in FirstTrees : branch = <<tree>>
    /\ pc = [c \in Client |-> "idle"]
    /\ shown = [c \in Client |-> NoPreview]
    /\ base = [c \in Client |-> 0]
    /\ work = [c \in Client |-> NoWork]
    /\ answer = [c \in Client |-> NoAnswer]
    /\ setups = {}

Confirming(c) == Confirm(c) \/ Apply(c) \/ Check(c) \/ Commit(c)

Next ==
    \/ Foreign
    \/ \E c \in Client :
          \/ \E r \in Request : Preview(c, r)
          \/ Unopened(c) \/ Confirming(c) \/ Push(c) \/ PushFails(c) \/ Crash(c)

Spec == Init /\ [][Next]_vars

-----------------------------------------------------------------------------
(* Properties.                                                             *)

\* What is said of the branch alone is looked at between confirmations.
Quiet == \A c \in Client : pc[c] = "idle"

TypeOK ==
    /\ branch \in Seq(Tree)
    /\ pc \in [Client -> Phase]
    /\ \A c \in Client :
          /\ base[c] \in 0 .. Top
          /\ (base[c] = 0) <=> (pc[c] = "idle")
          /\ work[c] \in Tree
          /\ pc[c] = "idle" => work[c] = NoWork
          /\ shown[c].head \in 0 .. Top
    /\ \A s \in setups : s.revision \in 2 .. Top /\ s.by \in Client

\* Leaving layout aside.
Text(tree, p) ==
    IF Exists(tree, p) THEN [tree[p] EXCEPT !.marks = @ \ {"ragged"}] ELSE Absent

\* A setup that reaches the branch is exactly what its client was shown: it
\* follows the revision the preview was made of, creates the files listed as
\* created, adds to the file listed as modified, and touches no other text.
PublishedAsPreviewed ==
    \A s \in setups :
        LET old == branch[s.revision - 1]
            new == branch[s.revision]
        IN  /\ s.shown.head = s.revision - 1
            /\ \A p \in Path : Text(old, p) # Text(new, p) =>
                  \/ <<"create", p>> \in s.shown.changes /\ ~Exists(old, p)
                  \/ /\ <<"modify", p>> \in s.shown.changes /\ Exists(old, p)
                     /\ old[p].includes \subseteq new[p].includes

\* Discovery looks for entries among ledger files, and prefers those outside the
\* directories of sidecars.
Discoverable(paths) ==
    /\ paths.entry \in Ledger
    /\ paths.entry \in InSidecar => paths.sidecar \in InSidecar

\* A setup makes the ledger ready: the entry checks out, names the sidecar, and
\* discovery recognizes it when the sidecar is where it looks; an initialized
\* ledger is the one discovery picks, if its entry can be picked at all.
SetupIsReady ==
    \A s \in setups :
        LET new == branch[s.revision]
            paths == s.shown.paths
        IN  /\ Valid(new, paths.entry) /\ Exists(new, paths.sidecar)
            /\ Mentions(new[paths.entry], paths.sidecar)
            /\ paths.sidecar = SidecarOf[paths.entry] => Configured(new, paths.entry)
            /\ s.shown.request.operation = "initialize_ledger" /\ Discoverable(paths) =>
                  Discovered(new) = Found("one_candidate", paths.entry)

\* What a client is told is so: a success is on the branch, right after the
\* revision its preview showed; a setup that failed its check or left nothing to
\* commit is nowhere on it.
AnswersAreTrue ==
    \A c \in Client :
        LET mine == {s \in setups : s.by = c /\ s.shown.head = answer[c].head} IN
        /\ answer[c].code = "success" => \E s \in mine : s.revision = answer[c].head + 1
        /\ answer[c].code \in {"BEANCOUNT_CHECK_FAILED", "GIT_COMMIT_FAILED"} => mine = {}

\* The files the policy means to look at, and the lines it overlooks.
Walked(tree, p) == From([q \in Path |-> Followed(tree, q)], p)
Overlooks(tree, p) == \E line \in Lines(tree, p) : line[2] = "spread"

\* The walk of the include graph is exact: it accepts a ledger only if it may
\* accept every file it follows the includes to, stopping nowhere early, and
\* accepts every such ledger that stays below its bounds.  It is sound for the
\* loader, whose includes are not its own: a plugin bean-check meets in a ledger
\* that was accepted lies in one with a wildcard in a directory part.
PolicyIsExact ==
    Quiet =>
    \A p \in Ledger : Exists(Tip, p) =>
        LET files == Walked(Tip, p)
            clear == \A q \in files : ~Rejected(Tip, q)
        IN  /\ Accepted(Tip, p) =>
                  /\ clear /\ Cardinality(files) <= MaxFiles /\ ~TooMuch(Tip, files)
                  /\ \A q \in Reach(Tip, p) : Exists(Tip, q) /\ "plugin" \in Tip[q].marks =>
                        \E x \in Reach(Tip, p) : Overlooks(Tip, x)
            /\ clear /\ Cardinality(files) < MaxFiles /\ ~TooMuch(Tip, files) =>
                  Accepted(Tip, p)

\* What discovery proposes is a valid ledger and beats every other one it
\* checked; it calls a repository clean only when a setup may initialize it.
DiscoveryIsSound ==
    Quiet =>
    LET found == Discovered(Tip) IN
    /\ found.status = "one_candidate" =>
          /\ DiscoveredAt(Tip, found.entry) = found
          /\ \A p \in ValidOnes(Tip) \ {found.entry} :
                Confidence(Tip, p) < Confidence(Tip, found.entry)
    /\ found.status = "clean_repo" =>
          PreviewError(Tip, [operation |-> "initialize_ledger", entry |-> Absent,
                             sidecar |-> Absent, matching |-> TRUE]) = "none"

=============================================================================
