--------------------------- MODULE LedgerRepository ---------------------------
(***************************************************************************)
(* What the service reads in a repository before it trusts it: the plugin  *)
(* policy that walks the include graph, the checker's verdict, the ranking *)
(* by which discovery picks the ledger's entry file, and the preview of a  *)
(* setup.  A revision is a tree: a file, or nothing, at every path.  Of a  *)
(* file's text only what these decisions look at is kept.                  *)
(***************************************************************************)
EXTENDS Integers, FiniteSets, Sequences, SequencesExt

CONSTANTS
    Path,             \* the paths that matter, repository-relative
    Ledger,           \* those that end in .beancount
    Hinted,           \* those called main, root or ledger.beancount
    InSidecar,        \* those under a directory called agent_inc
    DefaultEntry,     \* data/main.beancount
    DefaultSidecar,   \* data/agent_inc/main.beancount
    SidecarOf,        \* SidecarOf[p]: agent_inc/main.beancount beside p
    Rank,             \* Rank[p]: the place of p in alphabetical order
    MaxValidations,   \* OnboardingDiscoveryService.MAX_DISCOVERY_VALIDATIONS
    MaxFiles,         \* plugin_policy._MAX_FILES
    MaxBulky,         \* how many bulky files make up _MAX_TOTAL_BYTES
    Absent,           \* no file at this path; in a request: not given
    Outside           \* a path that leaves the repository

ASSUME RepositoryAssumption ==
    /\ IsFiniteSet(Path)
    /\ Ledger \subseteq Path /\ Hinted \subseteq Ledger /\ InSidecar \subseteq Ledger
    /\ DefaultEntry \in Ledger /\ DefaultSidecar \in Ledger
    /\ DefaultEntry # DefaultSidecar
    /\ SidecarOf \in [Path -> Ledger]
    /\ Rank \in [Path -> Nat]
    /\ MaxValidations \in Nat \ {0} /\ MaxFiles \in Nat /\ MaxBulky \in Nat
    /\ Absent \notin Path /\ Outside \notin Path

\* Marks of a file: it sets an option, opens an account, does not parse, names a
\* plugin, is not laid out as bean-format would, is as large as one file may be
\* (others weigh nothing), is one the plugin policy does not read at all: larger
\* than that, a link, or not UTF-8.
Mark == {"option", "open", "broken", "plugin", "ragged", "bulky", "unread"}

\* An include can be spelt as include_line spells it, be the same path spelt
\* another way, have a wildcard in its last part or in a directory part, have a
\* path the policy bars (absolute, through "..", .git or a link), or be the text
\* of include_line inside a comment.  A wildcard can match one path here.
Spelling == {"plain", "other", "wild", "spread", "barred", "comment"}
File == [marks : SUBSET Mark, includes : SUBSET (Path \X Spelling)]
Tree == [Path -> File \cup {Absent}]

ASSUME FileAssumption == Absent \notin File

Exists(tree, p) == tree[p] # Absent
Mentions(file, p) == \E way \in {"plain", "comment"} : <<p, way>> \in file.includes
Directives(file) == {line \in file.includes : line[2] # "comment"}
Lines(tree, p) == IF Exists(tree, p) THEN Directives(tree[p]) ELSE {}

\* What the loader opens for a file: it expands every wildcard.
Included(tree, p) == {line[1] : line \in Lines(tree, p)}

\* What the policy goes on to: it expands the last part of a path only, so that
\* a wildcard before it finds nothing; barred paths are no longer there.
Seen(tree, line) ==
    line[2] \in {"plain", "other"} \/ (line[2] = "wild" /\ Exists(tree, line[1]))
Followed(tree, p) == {line[1] : line \in {l \in Lines(tree, p) : Seen(tree, l)}}

\* The least set with p that holds what its members lead to.
From(next, p) ==
    LET closed == {S \in SUBSET Path : p \in S /\ \A q \in S : next[q] \subseteq S}
    IN  {q \in Path : \A S \in closed : q \in S}

\* Every path the loader opens when it is given p.
Reach(tree, p) == From([q \in Path |-> Included(tree, q)], p)

\* bean-check: every file is there and parses, and none is loaded twice (the
\* loader reports a file it has already seen as an error).
Valid(tree, p) ==
    LET files == Reach(tree, p)
        lines == UNION {{<<q, line>> : line \in Directives(tree[q])} :
                           q \in {f \in files : Exists(tree, f)}}
    IN  /\ \A q \in files : Exists(tree, q) /\ "broken" \notin tree[q].marks
        /\ Cardinality(lines) = Cardinality(files) - 1

-----------------------------------------------------------------------------
(* The plugin policy.                                                      *)

\* A file that ends the walk with an error.
Rejected(tree, p) ==
    \/ ~Exists(tree, p)
    \/ {"plugin", "unread"} \cap tree[p].marks # {}
    \/ \E line \in Lines(tree, p) : line[2] = "barred"
    \/ \E q \in Followed(tree, p) : ~Exists(tree, q)

\* Files that are more, together, than the policy reads.
TooMuch(tree, files) ==
    Cardinality({q \in files : Exists(tree, q) /\ "bulky" \in tree[q].marks}) > MaxBulky

\* One round of the loop.  The queue is popped from the left; the bound is
\* looked at before the pop; a round that raises leaves the queue as it is, and
\* so does every later one.
Popped(tree, walk) ==
    LET p == Head(walk.pending) IN
    IF walk.pending = <<>> \/ Cardinality(walk.visited) >= MaxFiles THEN walk
    ELSE IF p \in walk.visited THEN [walk EXCEPT !.pending = Tail(@)]
    ELSE IF Rejected(tree, p) \/ TooMuch(tree, walk.visited \cup {p}) THEN walk
    ELSE [pending |-> Tail(walk.pending) \o SetToSeq(Followed(tree, p)),
          visited |-> walk.visited \cup {p}]

\* Every path is queued once for each file that includes it, so that a loop of
\* this many rounds is over.
Rounds == (Cardinality(Path) + 1) * Cardinality(Path) + 1

\* The loop ends, with nothing raised, when the queue is empty.
Scan(tree, first) ==
    LET walk[n \in 0 .. Rounds] == IF n = 0 THEN [pending |-> <<first>>, visited |-> {}]
                                    ELSE Popped(tree, walk[n - 1])
    IN  walk[Rounds].pending = <<>>

\* The variant that reads the entry and what it includes, and no further.
AcceptedNearby(tree, p) ==
    Exists(tree, p) => \A q \in {p} \cup Followed(tree, p) : ~Rejected(tree, q)

\* A repository without the entry file has nothing to execute yet.
Accepted(tree, p) == Exists(tree, p) => Scan(tree, p)

-----------------------------------------------------------------------------
(* Discovery.                                                              *)

Clamp(n) == IF n < 0 THEN 0 ELSE IF n > 100 THEN 100 ELSE n

\* _cheap_candidate_for_path.
Likelihood(tree, p) ==
    LET If(condition, points) == IF condition THEN points ELSE 0 IN
    Clamp(If(p \in Hinted, 35) + If("option" \in tree[p].marks, 25)
          + If(Lines(tree, p) # {}, 20) + If("open" \in tree[p].marks, 15)
          - If(p \in InSidecar, 25))

Candidates(tree) ==
    {p \in Ledger : /\ Exists(tree, p)
                    /\ \/ p \in Hinted \/ Lines(tree, p) # {}
                       \/ {"option", "open"} \cap tree[p].marks # {}}

\* The most likely ones are given to bean-check: by likelihood, then the default
\* entry before the others, then by name.
Checked(tree) ==
    LET all == {[path |-> p, likelihood |-> Likelihood(tree, p)] : p \in Candidates(tree)}
        key(c) == 2 * c.likelihood + (IF c.path = DefaultEntry THEN 1 ELSE 0)
        before(c, d) == key(c) > key(d) \/ (key(c) = key(d) /\ Rank[c.path] < Rank[d.path])
    IN  {c.path : c \in {d \in all : Cardinality({e \in all : before(e, d)}) < MaxValidations}}

Confidence(tree, p) == Clamp(Likelihood(tree, p) + (IF Valid(tree, p) THEN 25 ELSE 0))
ValidOnes(tree) == {p \in Checked(tree) : Valid(tree, p)}
BestOnes(tree) ==
    LET scores == {[path |-> p, score |-> Confidence(tree, p)] : p \in ValidOnes(tree)}
    IN  {c.path : c \in {d \in scores : \A e \in scores : d.score >= e.score}}

\* repo_appears_clean: no file of any kind.
Clean(tree) == \A p \in Path : ~Exists(tree, p)

\* sidecar_status looks for the sidecar beside the entry, nowhere else.
Configured(tree, p) == Exists(tree, p) /\ Mentions(tree[p], SidecarOf[p])

Found(status, p) == [status |-> status, entry |-> p]

\* The variant that settles a tie instead of asking.
DiscoveredFirst(tree) ==
    LET best == BestOnes(tree) IN
    IF best # {} THEN Found("one_candidate", CHOOSE p \in best : TRUE)
    ELSE IF Clean(tree) THEN Found("clean_repo", Absent) ELSE Found("no_candidate", Absent)

\* discover with no entry path.
Discovered(tree) ==
    LET best == BestOnes(tree) IN
    IF Cardinality(best) = 1 THEN Found("one_candidate", CHOOSE p \in best : TRUE)
    ELSE IF best # {} THEN Found("multiple_candidates", Absent)
    ELSE IF Clean(tree) THEN Found("clean_repo", Absent)
    ELSE Found("no_candidate", Absent)

\* discover with an entry path.
DiscoveredAt(tree, p) ==
    IF p \in Path /\ Exists(tree, p) /\ Valid(tree, p)
    THEN Found("one_candidate", p) ELSE Found("invalid_request", Absent)

-----------------------------------------------------------------------------
(* Setup paths and the preview.                                            *)

\* A request names an operation, an entry, a sidecar (either may be left to
\* its default) and whether the write directory it gives is the sidecar's.
SetupPaths(tree, r) ==
    LET entry == IF r.entry = Absent THEN DefaultEntry ELSE r.entry
        sidecar == IF r.sidecar # Absent THEN r.sidecar
                   ELSE IF r.operation = "initialize_ledger" THEN DefaultSidecar
                   ELSE SidecarOf[entry]
        wrong(code) == [error |-> code, entry |-> Absent, sidecar |-> Absent]
    IN  IF entry = Outside THEN wrong("PATH_TRAVERSAL")
        ELSE IF r.operation = "install_sidecar" /\ ~Exists(tree, entry)
             THEN wrong("ENTRY_FILE_NOT_FOUND")
        ELSE IF sidecar = Outside THEN wrong("PATH_TRAVERSAL")
        ELSE IF entry = sidecar THEN wrong("SETUP_PATH_ALIAS")
        ELSE IF ~r.matching THEN wrong("SIDECAR_PATH_MISMATCH")
        ELSE [error |-> "none", entry |-> entry, sidecar |-> sidecar]

\* planned_changes: what the preview shows.
Planned(tree, r, paths) ==
    IF r.operation = "initialize_ledger"
    THEN {<<"create", paths.entry>>, <<"create", paths.sidecar>>}
    ELSE {<<"modify", paths.entry>>}
         \cup {<<"create", p>> : p \in {q \in {paths.sidecar} : ~Exists(tree, q)}}

PreviewError(tree, r) ==
    LET paths == SetupPaths(tree, r) IN
    IF paths.error # "none" THEN paths.error
    ELSE IF r.operation = "install_sidecar" THEN "none"
    ELSE IF ~Clean(tree) THEN "REPO_NOT_CLEAN"
    ELSE IF Exists(tree, paths.entry) \/ Exists(tree, paths.sidecar)
         THEN "TARGET_ALREADY_EXISTS"
    ELSE "none"

-----------------------------------------------------------------------------
(* Applying a setup to a working copy.                                     *)

Blank == [marks |-> {}, includes |-> {}]

Initialized(tree, paths) ==
    [tree EXCEPT ![paths.entry] = [marks |-> {"option"},
                                   includes |-> {<<paths.sidecar, "plain">>}],
                 ![paths.sidecar] = Blank]

Installed(tree, paths) ==
    [p \in Path |->
        IF p = paths.sidecar /\ ~Exists(tree, p) THEN Blank
        ELSE IF p = paths.entry /\ ~Mentions(tree[p], paths.sidecar)
             THEN [tree[p] EXCEPT !.includes = @ \cup {<<paths.sidecar, "plain">>}]
        ELSE tree[p]]

Applied(tree, r, paths) ==
    IF r.operation = "initialize_ledger"
    THEN Initialized(tree, paths) ELSE Installed(tree, paths)

\* bean-format rewrites the entry, and the sidecar whoever wrote it.
Formatted(tree, paths) ==
    [p \in Path |-> IF p \in {paths.entry, paths.sidecar} /\ Exists(tree, p)
                    THEN [tree[p] EXCEPT !.marks = @ \ {"ragged"}] ELSE tree[p]]

=============================================================================
