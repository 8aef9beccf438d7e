--------------------------- MODULE OnboardingProofs ---------------------------
(***************************************************************************)
(* For every repository, every setup, any number of clients and of foreign *)
(* pushes: a setup that lands is the one that was shown and leaves a ready *)
(* ledger, the answers the clients get are true, the plugin policy is      *)
(* exact and discovery picks the best ledger.                              *)
(***************************************************************************)
EXTENDS Onboarding, DataLemmas

-----------------------------------------------------------------------------
(* The plugin policy.                                                      *)

Walk == [pending : Seq(Path), visited : SUBSET Path]
Begun(p) == [pending |-> <<p>>, visited |-> {}]

\* A file of a tree includes paths, for the loader and for the policy.
LEMMA IncludedPaths ==
    ASSUME NEW tree \in Tree, NEW p \in Path
    PROVE  /\ Lines(tree, p) \subseteq Path \X Spelling
           /\ Included(tree, p) \in SUBSET Path /\ Followed(tree, p) \in SUBSET Path
<1>1. Lines(tree, p) \subseteq Path \X Spelling
  <2>1. CASE ~Exists(tree, p)  BY <2>1 DEF Lines
  <2>2. CASE Exists(tree, p)
    <3>1. tree[p] \in File  BY <2>2 DEF Tree, Exists
    <3>q. QED BY <2>2, <3>1 DEF Lines, File, Directives
  <2>q. QED BY <2>1, <2>2
<1>2. \A line \in Lines(tree, p) : line[1] \in Path  BY <1>1
<1>3. Included(tree, p) \in SUBSET Path  BY <1>2 DEF Included
<1>4. Followed(tree, p) \in SUBSET Path  BY <1>2 DEF Followed
<1>q. QED BY <1>1, <1>3, <1>4

\* What can be reached from p: p, what each member leads to, and no more.
LEMMA FromIs ==
    ASSUME NEW next \in [Path -> SUBSET Path], NEW p \in Path
    PROVE  /\ p \in From(next, p) /\ From(next, p) \in SUBSET Path
           /\ \A q \in From(next, p) : next[q] \subseteq From(next, p)
           /\ \A S \in SUBSET Path :
                 p \in S /\ (\A q \in S : next[q] \subseteq S) => From(next, p) \subseteq S
<1> DEFINE closed == {S \in SUBSET Path : p \in S /\ \A q \in S : next[q] \subseteq S}
<1>1. From(next, p) = {q \in Path : \A S \in closed : q \in S}  BY DEF From
<1>2. ASSUME NEW q \in From(next, p), NEW x \in next[q] PROVE x \in From(next, p)
  <2>1. q \in Path /\ \A S \in closed : q \in S  BY <1>1, <1>2
  <2>2. x \in Path  BY <2>1, <1>2
  <2>3. \A S \in closed : x \in S  BY <2>1, <1>2
  <2> HIDE DEF closed
  <2>q. QED BY <1>1, <2>2, <2>3
<1>3. ASSUME NEW S \in SUBSET Path, p \in S, \A q \in S : next[q] \subseteq S
      PROVE  From(next, p) \subseteq S
  <2>1. S \in closed  BY <1>3
  <2> HIDE DEF closed
  <2>q. QED BY <1>1, <2>1
<1>4. p \in From(next, p)  BY <1>1
<1>5. From(next, p) \in SUBSET Path  BY <1>1
<1>q. QED BY <1>2, <1>3, <1>4, <1>5

\* The files the loader opens.
LEMMA ReachIs ==
    ASSUME NEW tree \in Tree, NEW p \in Path
    PROVE  /\ p \in Reach(tree, p) /\ Reach(tree, p) \in SUBSET Path
           /\ \A q \in Reach(tree, p) : Included(tree, q) \subseteq Reach(tree, p)
           /\ \A S \in SUBSET Path :
                 p \in S /\ (\A q \in S : Included(tree, q) \subseteq S) => Reach(tree, p) \subseteq S
<1> DEFINE next == [q \in Path |-> Included(tree, q)]
<1>1. next \in [Path -> SUBSET Path] /\ \A q \in Path : next[q] = Included(tree, q)
  BY IncludedPaths
<1>2. Reach(tree, p) = From(next, p)  BY DEF Reach
<1> HIDE DEF next
<1>q. QED BY <1>1, <1>2, FromIs

\* The files the policy is led to.
LEMMA WalkedIs ==
    ASSUME NEW tree \in Tree, NEW p \in Path
    PROVE  /\ p \in Walked(tree, p) /\ Walked(tree, p) \in SUBSET Path
           /\ \A q \in Walked(tree, p) : Followed(tree, q) \subseteq Walked(tree, p)
           /\ \A S \in SUBSET Path :
                 p \in S /\ (\A q \in S : Followed(tree, q) \subseteq S) => Walked(tree, p) \subseteq S
<1> DEFINE next == [q \in Path |-> Followed(tree, q)]
<1>1. next \in [Path -> SUBSET Path] /\ \A q \in Path : next[q] = Followed(tree, q)
  BY IncludedPaths
<1>2. Walked(tree, p) = From(next, p)  BY DEF Walked
<1> HIDE DEF next
<1>q. QED BY <1>1, <1>2, FromIs

\* Fewer files are not more than the policy reads.
LEMMA LessIsNotTooMuch ==
    ASSUME NEW tree, NEW files \in SUBSET Path, NEW some, some \subseteq files,
           ~TooMuch(tree, files)
    PROVE  ~TooMuch(tree, some)
<1> DEFINE bulky(S) == {q \in S : Exists(tree, q) /\ "bulky" \in tree[q].marks}
<1>1. bulky(some) \subseteq bulky(files) /\ bulky(files) \subseteq Path  OBVIOUS
<1>2. /\ TooMuch(tree, files) <=> Cardinality(bulky(files)) > MaxBulky
      /\ TooMuch(tree, some) <=> Cardinality(bulky(some)) > MaxBulky
  BY DEF TooMuch
<1> HIDE DEF bulky
<1>3. IsFiniteSet(bulky(files))  BY <1>1, RepositoryAssumption, FS_Subset
<1>4. IsFiniteSet(bulky(some)) /\ Cardinality(bulky(some)) <= Cardinality(bulky(files))
  BY <1>1, <1>3, FS_Subset
<1>5. Cardinality(bulky(some)) \in Nat /\ Cardinality(bulky(files)) \in Nat
  BY <1>3, <1>4, FS_CardinalityType
<1>q. QED BY <1>2, <1>4, <1>5, RepositoryAssumption

\* The includes of a file, in a row.
LEMMA Queued ==
    ASSUME NEW tree \in Tree, NEW p \in Path
    PROVE  /\ SetToSeq(Followed(tree, p)) \in Seq(Path)
           /\ Range(SetToSeq(Followed(tree, p))) = Followed(tree, p)
           /\ Len(SetToSeq(Followed(tree, p))) \in Nat
           /\ Len(SetToSeq(Followed(tree, p))) <= Cardinality(Path)
<1> DEFINE S == Followed(tree, p)
           n == Cardinality(S)
           list == SetToSeq(S)
<1>1. S \in SUBSET Path  BY IncludedPaths
<1>2. IsFiniteSet(Path)  BY RepositoryAssumption
<1>3. IsFiniteSet(S) /\ n <= Cardinality(Path)
  <2> HIDE DEF S
  <2>q. QED BY <1>1, <1>2, FS_Subset
<1>4. /\ n \in Nat /\ list \in [1 .. n -> S]
      /\ \A x \in S : \E i \in 1 .. n : list[i] = x
  <2> HIDE DEF S
  <2>q. QED BY <1>3, Listed
<1> HIDE DEF n, list
<1>5. list \in Seq(S) /\ Len(list) = n  BY <1>4
<1>6. list \in Seq(Path)  BY <1>1, <1>5
<1>7. Range(list) = {list[i] : i \in 1 .. n}  BY <1>5, Elements
<1>8. Range(list) = S  BY <1>4, <1>7
<1>q. QED BY <1>3, <1>4, <1>5, <1>6, <1>8 DEF list, S

\* What a round does to the walk.
Skips(tree, walk, next) ==
    /\ Head(walk.pending) \in walk.visited
    /\ next = [pending |-> Tail(walk.pending), visited |-> walk.visited]

Reads(tree, walk, next) ==
    LET p == Head(walk.pending) IN
    /\ p \notin walk.visited /\ ~Rejected(tree, p) /\ ~TooMuch(tree, walk.visited \cup {p})
    /\ next = [pending |-> Tail(walk.pending) \o SetToSeq(Followed(tree, p)),
               visited |-> walk.visited \cup {p}]

LEMMA RoundIs ==
    ASSUME NEW tree \in Tree, NEW walk \in Walk
    PROVE  /\ Popped(tree, walk) \in Walk
           /\ \/ Popped(tree, walk) = walk
              \/ /\ walk.pending # <<>> /\ ~(Cardinality(walk.visited) >= MaxFiles)
                 /\ \/ Skips(tree, walk, Popped(tree, walk))
                    \/ Reads(tree, walk, Popped(tree, walk))
           /\ walk.pending # <<>> /\ Cardinality(walk.visited) < MaxFiles
                 /\ ~Rejected(tree, Head(walk.pending))
                 /\ ~TooMuch(tree, walk.visited \cup {Head(walk.pending)}) =>
                    \/ Skips(tree, walk, Popped(tree, walk))
                    \/ Reads(tree, walk, Popped(tree, walk))
<1>0. walk = [pending |-> walk.pending, visited |-> walk.visited]
      /\ walk.pending \in Seq(Path) /\ walk.visited \in SUBSET Path
  BY DEF Walk
<1>1. CASE walk.pending = <<>> \/ Cardinality(walk.visited) >= MaxFiles
  <2>1. Popped(tree, walk) = walk  BY <1>1 DEF Popped
  <2>2. ~(walk.pending # <<>> /\ Cardinality(walk.visited) < MaxFiles)
    <3>1. IsFiniteSet(Path)  BY RepositoryAssumption
    <3>2. IsFiniteSet(walk.visited)  BY <1>0, <3>1, FS_Subset
    <3>3. Cardinality(walk.visited) \in Nat /\ MaxFiles \in Nat
      BY <3>2, FS_CardinalityType, RepositoryAssumption
    <3>q. QED BY <1>1, <3>3
  <2>q. QED BY <2>1, <2>2
<1>2. CASE ~(walk.pending = <<>> \/ Cardinality(walk.visited) >= MaxFiles)
  <2> DEFINE p == Head(walk.pending)
             rest == Tail(walk.pending)
  <2>1. p \in Path /\ rest \in Seq(Path)  BY <1>0, <1>2, Consumed
  <2>2. CASE p \in walk.visited
    <3>1. Popped(tree, walk) = [pending |-> rest, visited |-> walk.visited]
      BY <1>0, <1>2, <2>2 DEF Popped
    <3>2. [pending |-> rest, visited |-> walk.visited] \in Walk  BY <1>0, <2>1 DEF Walk
    <3>q. QED BY <1>2, <2>2, <3>1, <3>2 DEF Skips
  <2>3. CASE p \notin walk.visited /\ (Rejected(tree, p) \/ TooMuch(tree, walk.visited \cup {p}))
    <3>1. Popped(tree, walk) = walk  BY <1>2, <2>3 DEF Popped
    <3>q. QED BY <2>3, <3>1
  <2>4. CASE p \notin walk.visited /\ ~(Rejected(tree, p) \/ TooMuch(tree, walk.visited \cup {p}))
    <3> DEFINE list == SetToSeq(Followed(tree, p))
               next == [pending |-> rest \o list, visited |-> walk.visited \cup {p}]
    <3>1. Popped(tree, walk) = next  BY <1>2, <2>4 DEF Popped
    <3>2. list \in Seq(Path)  BY <2>1, Queued
    <3>3. rest \o list \in Seq(Path)
      <4> HIDE DEF list, rest
      <4>q. QED BY <2>1, <3>2, Concatenated
    <3>4. next \in Walk  BY <1>0, <2>1, <3>3 DEF Walk
    <3>5. Reads(tree, walk, next)  BY <2>4 DEF Reads
    <3>q. QED BY <1>2, <3>1, <3>4, <3>5
  <2>q. QED BY <2>2, <2>3, <2>4
<1>q. QED BY <1>1, <1>2

\* A scan is Rounds rounds.
LEMMA ScanIs ==
    ASSUME NEW tree \in Tree, NEW p \in Path
    PROVE  /\ Rounds \in Nat
           /\ \E walk \in [0 .. Rounds -> Walk] :
                 /\ walk[0] = Begun(p)
                 /\ \A k \in 1 .. Rounds : walk[k] = Popped(tree, walk[k - 1])
                 /\ Scan(tree, p) <=> walk[Rounds].pending = <<>>
<1> DEFINE n == Rounds
           round == [k \in 1 .. n |-> [w \in Walk |-> Popped(tree, w)]]
           next(f, k) == IF k = 0 THEN [pending |-> <<p>>, visited |-> {}] ELSE Popped(tree, f[k - 1])
<1>1. n \in Nat
  <2>1. IsFiniteSet(Path)  BY RepositoryAssumption
  <2>2. Cardinality(Path) \in Nat  BY <2>1, FS_CardinalityType
  <2>3. \A c \in Nat : (c + 1) * c + 1 \in Nat  OBVIOUS
  <2>q. QED BY <2>2, <2>3 DEF Rounds
<1>2. Begun(p) \in Walk
  <2>1. <<p>> \in Seq(Path)  OBVIOUS
  <2>q. QED BY <2>1 DEF Begun, Walk
<1>3. Steps(round, n, Walk)  BY RoundIs DEF Steps
<1>4. PICK g : Iterated(g, n, Walk, Begun(p), round)
  <2> HIDE DEF round, n
  <2>q. QED BY <1>1, <1>2, <1>3, Iterates
<1>5. g \in [0 .. n -> Walk] /\ g[0] = Begun(p) /\ \A k \in 1 .. n : g[k] = round[k][g[k - 1]]
  BY <1>4 DEF Iterated
<1>6. ASSUME NEW k \in 1 .. n PROVE g[k] = Popped(tree, g[k - 1])
  <2>1. k - 1 \in 0 .. n
    <3> HIDE DEF n
    <3>q. QED BY <1>1
  <2>2. g[k - 1] \in Walk  BY <1>5, <2>1
  <2>3. round[k][g[k - 1]] = Popped(tree, g[k - 1])  BY <2>2
  <2>q. QED BY <1>5, <2>3
<1> HIDE DEF n, round
<1>7. g = [k \in 0 .. n |-> next(g, k)]
  <2>1. ASSUME NEW k \in 0 .. n PROVE g[k] = next(g, k)
    BY <1>1, <1>5, <1>6 DEF Begun
  <2>2. g = [k \in 0 .. n |-> g[k]]  BY <1>5
  <2>q. QED BY <2>1, <2>2
<1> DEFINE f == CHOOSE h : h = [k \in 0 .. n |-> next(h, k)]
<1>8. f = [k \in 0 .. n |-> next(f, k)]  BY <1>7
<1>9. Scan(tree, p) <=> f[n].pending = <<>>  BY DEF Scan, n
<1> HIDE DEF f
<1>10. f[0] = Begun(p) /\ \A k \in 1 .. n : f[k] = Popped(tree, f[k - 1])
  <2>1. 0 \in 0 .. n /\ \A k \in 1 .. n : k \in 0 .. n /\ k # 0  BY <1>1
  <2>q. QED BY <1>8, <2>1 DEF Begun
<1>11. f \in [0 .. n -> Walk]
  <2> DEFINE T == {k \in 0 .. n : f[k] \in Walk}
  <2>1. 0 \in T  BY <1>1, <1>2, <1>10
  <2>2. ASSUME NEW k \in 0 .. n - 1, k \in T PROVE k + 1 \in T
    <3>1. k + 1 \in 1 .. n /\ (k + 1) - 1 = k /\ k + 1 \in 0 .. n  BY <1>1
    <3>2. f[k + 1] = Popped(tree, f[k])  BY <1>10, <3>1
    <3>q. QED BY <2>2, <3>1, <3>2, RoundIs
  <2>3. 0 .. n \subseteq T
    <3> HIDE DEF T
    <3>q. QED BY <1>1, <2>1, <2>2, Induction
  <2>q. QED BY <1>8, <2>3
<1>q. QED BY <1>1, <1>9, <1>10, <1>11 DEF n

\* What the walk has queued and read: the graph from p on, each file in it read
\* and not rejected, and what it includes queued.
WalkOK(tree, p, walk) ==
    LET known == walk.visited \cup Range(walk.pending) IN
    /\ p \in known /\ known \subseteq Walked(tree, p)
    /\ \A q \in walk.visited : ~Rejected(tree, q) /\ Followed(tree, q) \subseteq known
    /\ Cardinality(walk.visited) <= MaxFiles /\ ~TooMuch(tree, walk.visited)

LEMMA WalkBegins ==
    ASSUME NEW tree \in Tree, NEW p \in Path
    PROVE  Begun(p) \in Walk /\ WalkOK(tree, p, Begun(p))
<1>1. Begun(p) \in Walk
  <2>1. <<p>> \in Seq(Path)  OBVIOUS
  <2>q. QED BY <2>1 DEF Begun, Walk
<1>2. Range(Begun(p).pending) = {p} /\ Begun(p).visited = {}
  BY Tuple1 DEF Begun
<1>3. Cardinality({}) <= MaxFiles  BY FS_EmptySet, RepositoryAssumption
<1>4. p \in Walked(tree, p)  BY WalkedIs
<1>5. ~TooMuch(tree, {})
  <2>1. {q \in {} : Exists(tree, q) /\ "bulky" \in tree[q].marks} = {}  OBVIOUS
  <2>2. Cardinality({}) = 0  BY FS_EmptySet
  <2>3. ~(0 > MaxBulky)  BY RepositoryAssumption
  <2>q. QED BY <2>1, <2>2, <2>3 DEF TooMuch
<1>q. QED BY <1>1, <1>2, <1>3, <1>4, <1>5 DEF WalkOK

LEMMA WalkGoesOn ==
    ASSUME NEW tree \in Tree, NEW p \in Path, NEW walk \in Walk, WalkOK(tree, p, walk),
           NEW next, next = Popped(tree, walk)
    PROVE  WalkOK(tree, p, next)
<1> DEFINE q == Head(walk.pending)
<1>0. walk.pending \in Seq(Path) /\ walk.visited \in SUBSET Path  BY DEF Walk
<1>1. CASE next = walk  BY <1>1
<1>2. CASE walk.pending # <<>> /\ Skips(tree, walk, next)
  <2>1. Range(walk.pending) = {q} \cup Range(Tail(walk.pending)) /\ q \in walk.visited
    BY <1>0, <1>2, Consumed DEF Skips
  <2>2. next.visited = walk.visited /\ next.pending = Tail(walk.pending)
    BY <1>2 DEF Skips
  <2> HIDE DEF q
  <2>q. QED BY <2>1, <2>2 DEF WalkOK
<1>3. CASE /\ walk.pending # <<>> /\ ~(Cardinality(walk.visited) >= MaxFiles)
           /\ Reads(tree, walk, next)
  <2> DEFINE rest == Tail(walk.pending)
             list == SetToSeq(Followed(tree, q))
  <2>1. /\ q \in Path /\ rest \in Seq(Path)
        /\ Range(walk.pending) = {q} \cup Range(rest)
    BY <1>0, <1>3, Consumed
  <2>2. list \in Seq(Path) /\ Range(list) = Followed(tree, q)  BY <2>1, Queued
  <2>3. Range(rest \o list) = Range(rest) \cup Followed(tree, q)
    <3> HIDE DEF rest, list
    <3>q. QED BY <2>1, <2>2, Concatenated
  <2>4. /\ next.visited = walk.visited \cup {q} /\ next.pending = rest \o list
        /\ q \notin walk.visited /\ ~Rejected(tree, q) /\ ~TooMuch(tree, next.visited)
    <3>1. /\ q \notin walk.visited /\ ~Rejected(tree, q)
          /\ ~TooMuch(tree, walk.visited \cup {q})
          /\ next = [pending |-> rest \o list, visited |-> walk.visited \cup {q}]
      BY <1>3, Zenon DEF Reads
    <3> HIDE DEF rest, list, q
    <3>2. next.visited = walk.visited \cup {q} /\ next.pending = rest \o list  BY <3>1
    <3>q. QED BY <3>1, <3>2
  <2>5. Followed(tree, q) \subseteq Walked(tree, p)
    BY <2>1, WalkedIs DEF WalkOK
  <2>6. Cardinality(next.visited) <= MaxFiles
    <3>1. IsFiniteSet(Path)  BY RepositoryAssumption
    <3>2. IsFiniteSet(walk.visited)  BY <1>0, <3>1, FS_Subset
    <3>3. /\ Cardinality(walk.visited) \in Nat
          /\ Cardinality(walk.visited \cup {q}) = Cardinality(walk.visited) + 1
      BY <3>2, <2>4, FS_CardinalityType, FS_AddElement
    <3>4. MaxFiles \in Nat  BY RepositoryAssumption
    <3> DEFINE c == Cardinality(walk.visited)
    <3>5. c \in Nat /\ ~(c >= MaxFiles) /\ Cardinality(next.visited) = c + 1
      BY <1>3, <2>4, <3>3
    <3> HIDE DEF c
    <3>q. QED BY <3>4, <3>5
  <2> HIDE DEF q, rest, list
  <2>q. QED BY <2>1, <2>3, <2>4, <2>5, <2>6 DEF WalkOK
<1>q. QED BY <1>1, <1>2, <1>3, RoundIs

\* What the policy accepts can be loaded, and is not larger than its bound.
LEMMA ScanIsSound ==
    ASSUME NEW tree \in Tree, NEW p \in Path, Scan(tree, p)
    PROVE  /\ \A q \in Walked(tree, p) : ~Rejected(tree, q)
           /\ Cardinality(Walked(tree, p)) <= MaxFiles
           /\ ~TooMuch(tree, Walked(tree, p))
<1>1. PICK walk \in [0 .. Rounds -> Walk] :
          /\ walk[0] = Begun(p)
          /\ \A k \in 1 .. Rounds : walk[k] = Popped(tree, walk[k - 1])
          /\ Scan(tree, p) <=> walk[Rounds].pending = <<>>
  BY ScanIs
<1> DEFINE T == {k \in 0 .. Rounds : WalkOK(tree, p, walk[k])}
<1>2. Rounds \in Nat  BY ScanIs
<1>3. 0 \in T  BY <1>1, <1>2, WalkBegins
<1>4. ASSUME NEW k \in 0 .. Rounds - 1, k \in T PROVE k + 1 \in T
  <2>1. k + 1 \in 1 .. Rounds /\ (k + 1) - 1 = k /\ k + 1 \in 0 .. Rounds /\ k \in 0 .. Rounds
    BY <1>2
  <2>2. walk[k + 1] = Popped(tree, walk[k]) /\ walk[k] \in Walk  BY <1>1, <2>1
  <2>q. QED BY <1>4, <2>1, <2>2, WalkGoesOn
<1>5. 0 .. Rounds \subseteq T
  <2> HIDE DEF T
  <2>q. QED BY <1>2, <1>3, <1>4, Induction
<1> DEFINE last == walk[Rounds]
<1>6. last \in Walk /\ WalkOK(tree, p, last) /\ last.pending = <<>>
  <2>1. Rounds \in 0 .. Rounds  BY <1>2
  <2>q. QED BY <1>1, <1>5, <2>1
<1> HIDE DEF last
<1>7. Range(last.pending) = {}  BY <1>6, Tuple0
<1>8. /\ last.visited \in SUBSET Path /\ p \in last.visited
      /\ \A q \in last.visited : Followed(tree, q) \subseteq last.visited
  BY <1>6, <1>7 DEF WalkOK, Walk
<1>9. Walked(tree, p) \subseteq last.visited  BY <1>8, WalkedIs
<1>10. Cardinality(Walked(tree, p)) <= Cardinality(last.visited)
  <2>1. IsFiniteSet(Path)  BY RepositoryAssumption
  <2>2. IsFiniteSet(last.visited)  BY <1>8, <2>1, FS_Subset
  <2>q. QED BY <1>9, <2>2, FS_Subset
<1>11. Cardinality(Walked(tree, p)) <= MaxFiles
  <2>1. IsFiniteSet(Path)  BY RepositoryAssumption
  <2>2. IsFiniteSet(last.visited) /\ IsFiniteSet(Walked(tree, p))
    BY <1>8, <1>9, <2>1, FS_Subset
  <2>3. Cardinality(last.visited) \in Nat /\ Cardinality(Walked(tree, p)) \in Nat
    BY <2>2, FS_CardinalityType
  <2>4. Cardinality(last.visited) <= MaxFiles /\ MaxFiles \in Nat
    BY <1>6, RepositoryAssumption DEF WalkOK
  <2>q. QED BY <1>10, <2>3, <2>4
<1>12. ~TooMuch(tree, Walked(tree, p))
  BY <1>6, <1>8, <1>9, LessIsNotTooMuch DEF WalkOK
<1>q. QED BY <1>6, <1>9, <1>11, <1>12 DEF WalkOK

\* What is left of a walk: the files to read, and the queue.
Left(walk) == (Cardinality(Path) + 1) * Cardinality(Path \ walk.visited) + Len(walk.pending)

LEMMA LeftIs ==
    ASSUME NEW walk \in Walk
    PROVE  Left(walk) \in Nat /\ Cardinality(Path \ walk.visited) \in Nat /\ Len(walk.pending) \in Nat
           /\ Cardinality(Path) \in Nat
<1>1. IsFiniteSet(Path)  BY RepositoryAssumption
<1>2. IsFiniteSet(Path \ walk.visited)  BY <1>1, FS_Subset
<1>3. Cardinality(Path \ walk.visited) \in Nat /\ Cardinality(Path) \in Nat
  BY <1>1, <1>2, FS_CardinalityType
<1>4. walk.pending \in Seq(Path)  BY DEF Walk
<1>5. Len(walk.pending) \in Nat  BY <1>4, LenProperties
<1> DEFINE c == Cardinality(Path)
           d == Cardinality(Path \ walk.visited)
           l == Len(walk.pending)
<1>6. c \in Nat /\ d \in Nat /\ l \in Nat /\ Left(walk) = (c + 1) * d + l
  BY <1>3, <1>5 DEF Left
<1> HIDE DEF c, d, l
<1>7. (c + 1) * d \in Nat  BY <1>6
<1>q. QED BY <1>3, <1>5, <1>6, <1>7

\* A round that does not raise leaves less.
LEMMA LessIsLeft ==
    ASSUME NEW tree \in Tree, NEW walk \in Walk, walk.pending # <<>>,
           NEW next \in Walk, Skips(tree, walk, next) \/ Reads(tree, walk, next)
    PROVE  Left(next) <= Left(walk) - 1
<1> DEFINE c == Cardinality(Path)
           d == Cardinality(Path \ walk.visited)
           l == Len(walk.pending)
           q == Head(walk.pending)
           rest == Tail(walk.pending)
<1>1. walk.pending \in Seq(Path) /\ walk.visited \in SUBSET Path  BY DEF Walk
<1>2. /\ l \in Nat /\ c \in Nat /\ d \in Nat
      /\ Left(walk) = (c + 1) * d + l
      /\ Left(next) \in Nat
  BY LeftIs DEF Left
<1>3. q \in Path /\ rest \in Seq(Path) /\ Len(rest) = l - 1
  BY <1>1, Consumed
<1>4. CASE Skips(tree, walk, next)
  <2>1. Left(next) = (c + 1) * d + (l - 1)  BY <1>3, <1>4 DEF Left, Skips
  <2> DEFINE m == (c + 1) * d
  <2>2. m \in Nat
    <3> HIDE DEF c, d
    <3>q. QED BY <1>2
  <2>3. Left(walk) = m + l /\ Left(next) = m + (l - 1)  BY <1>2, <2>1
  <2> HIDE DEF m, l
  <2>q. QED BY <1>2, <2>2, <2>3
<1>5. CASE Reads(tree, walk, next)
  <2> DEFINE list == SetToSeq(Followed(tree, q))
             k == Len(list)
  <2>1. list \in Seq(Path) /\ k \in Nat /\ k <= c  BY <1>3, Queued
  <2>2. Len(rest \o list) = (l - 1) + k
    <3>1. Len(rest \o list) = Len(rest) + Len(list)
      <4> HIDE DEF rest, list
      <4>q. QED BY <1>3, <2>1, Concatenated
    <3>q. QED BY <1>3, <3>1
  <2>3. /\ next.visited = walk.visited \cup {q} /\ next.pending = rest \o list
        /\ q \notin walk.visited
    BY <1>5 DEF Reads
  <2>4. Cardinality(Path \ next.visited) = d - 1
    <3>1. IsFiniteSet(Path)  BY RepositoryAssumption
    <3>2. IsFiniteSet(Path \ walk.visited)  BY <3>1, FS_Subset
    <3>3. Path \ next.visited = (Path \ walk.visited) \ {q} /\ q \in Path \ walk.visited
      BY <1>3, <2>3
    <3>q. QED BY <3>2, <3>3, FS_RemoveElement
  <2>5. Left(next) = (c + 1) * (d - 1) + ((l - 1) + k)
    BY <2>2, <2>3, <2>4 DEF Left
  <2> HIDE DEF c, d, l, k, list
  <2>6. (c + 1) * (d - 1) = (c + 1) * d - (c + 1)  BY <1>2
  <2> DEFINE m == (c + 1) * d
  <2>7. m \in Nat  BY <1>2
  <2>8. Left(next) = (m - (c + 1)) + ((l - 1) + k) /\ Left(walk) = m + l
    BY <1>2, <2>5, <2>6
  <2> HIDE DEF m
  <2>q. QED BY <1>2, <2>1, <2>7, <2>8
<1>q. QED BY <1>4, <1>5

\* The policy accepts every ledger with nothing to reject that is below its bounds.
LEMMA ScanIsComplete ==
    ASSUME NEW tree \in Tree, NEW p \in Path,
           \A q \in Walked(tree, p) : ~Rejected(tree, q),
           Cardinality(Walked(tree, p)) < MaxFiles, ~TooMuch(tree, Walked(tree, p))
    PROVE  Scan(tree, p)
<1>1. PICK walk \in [0 .. Rounds -> Walk] :
          /\ walk[0] = Begun(p)
          /\ \A k \in 1 .. Rounds : walk[k] = Popped(tree, walk[k - 1])
          /\ Scan(tree, p) <=> walk[Rounds].pending = <<>>
  BY ScanIs
<1>2. Rounds \in Nat  BY ScanIs
<1>3. \A q \in Walked(tree, p) : ~Rejected(tree, q)  OBVIOUS
<1> DEFINE Going(k) == WalkOK(tree, p, walk[k]) /\ (walk[k].pending = <<>> \/ Left(walk[k]) <= Rounds - k)
           T == {k \in 0 .. Rounds : Going(k)}
<1>4. 0 \in T
  <2>1. WalkOK(tree, p, walk[0]) /\ Begun(p) \in Walk  BY <1>1, WalkBegins
  <2>2. Left(Begun(p)) = Rounds
    <3>1. Path \ Begun(p).visited = Path  BY DEF Begun
    <3>2. Len(Begun(p).pending) = 1  BY DEF Begun
    <3>q. QED BY <3>1, <3>2 DEF Left, Rounds
  <2>3. Left(walk[0]) <= Rounds - 0  BY <1>1, <1>2, <2>2
  <2>q. QED BY <1>2, <2>1, <2>3
<1>5. ASSUME NEW k \in 0 .. Rounds - 1, k \in T PROVE k + 1 \in T
  <2>1. k + 1 \in 1 .. Rounds /\ (k + 1) - 1 = k /\ k + 1 \in 0 .. Rounds /\ k \in 0 .. Rounds
    BY <1>2
  <2>2. walk[k + 1] = Popped(tree, walk[k]) /\ walk[k] \in Walk /\ walk[k + 1] \in Walk
    BY <1>1, <2>1
  <2>3. WalkOK(tree, p, walk[k]) /\ WalkOK(tree, p, walk[k + 1])
    BY <1>5, <2>2, WalkGoesOn
  <2>4. CASE walk[k].pending = <<>>
    <3>1. walk[k + 1] = walk[k]  BY <2>2, <2>4 DEF Popped
    <3>q. QED BY <2>1, <2>3, <2>4, <3>1
  <2>5. CASE walk[k].pending # <<>>
    <3> DEFINE w == walk[k]
    <3>1. w.pending \in Seq(Path) /\ w.visited \in SUBSET Path  BY <2>2 DEF Walk
    <3>2. Head(w.pending) \in Range(w.pending)  BY <2>5, <3>1, Consumed
    <3>3. Head(w.pending) \in Walked(tree, p) /\ w.visited \subseteq Walked(tree, p)
      BY <2>3, <3>2 DEF WalkOK
    <3>4. Cardinality(w.visited) < MaxFiles
      <4>1. IsFiniteSet(Path) /\ MaxFiles \in Nat  BY RepositoryAssumption
      <4>2. Walked(tree, p) \in SUBSET Path  BY WalkedIs
      <4>3. IsFiniteSet(Walked(tree, p))  BY <4>1, <4>2, FS_Subset
      <4>4. IsFiniteSet(w.visited) /\ Cardinality(w.visited) <= Cardinality(Walked(tree, p))
        <5> HIDE DEF w
        <5>q. QED BY <3>3, <4>3, FS_Subset
      <4>5. Cardinality(w.visited) \in Nat /\ Cardinality(Walked(tree, p)) \in Nat
        BY <4>3, <4>4, FS_CardinalityType
      <4>q. QED BY <4>1, <4>4, <4>5
    <3> DEFINE read == w.visited \cup {Head(w.pending)}
    <3>o. ~TooMuch(tree, read)
      <4>1. read \subseteq Walked(tree, p)  BY <3>3
      <4>2. Walked(tree, p) \in SUBSET Path  BY WalkedIs
      <4> HIDE DEF read
      <4>q. QED BY <4>1, <4>2, LessIsNotTooMuch
    <3>5. Skips(tree, w, Popped(tree, w)) \/ Reads(tree, w, Popped(tree, w))
      BY <1>3, <2>2, <2>5, <3>3, <3>4, <3>o, RoundIs
    <3>6. Left(walk[k + 1]) <= Left(w) - 1  BY <2>2, <2>5, <3>5, LessIsLeft
    <3>7. Left(w) <= Rounds - k /\ Left(w) \in Nat /\ Left(walk[k + 1]) \in Nat
      BY <1>5, <2>2, <2>5, LeftIs
    <3>8. Left(walk[k + 1]) <= Rounds - (k + 1)  BY <1>2, <3>6, <3>7
    <3>q. QED BY <2>1, <2>3, <3>8
  <2>q. QED BY <2>4, <2>5
<1>6. 0 .. Rounds \subseteq T
  <2> HIDE DEF T
  <2>q. QED BY <1>2, <1>4, <1>5, Induction
<1> DEFINE last == walk[Rounds]
<1>7. last \in Walk /\ (last.pending = <<>> \/ Left(last) <= Rounds - Rounds)
  <2>1. Rounds \in 0 .. Rounds  BY <1>2
  <2>q. QED BY <1>1, <1>6, <2>1
<1> HIDE DEF last
<1>8. last.pending = <<>>
  <2> SUFFICES ASSUME last.pending # <<>> PROVE FALSE  OBVIOUS
  <2>1. Left(last) <= 0  BY <1>2, <1>7
  <2>2. last.pending \in Seq(Path)  BY <1>7 DEF Walk
  <2>3. Len(last.pending) \in Nat \ {0}  BY <2>2, Consumed
  <2> DEFINE c == Cardinality(Path)
             d == Cardinality(Path \ last.visited)
             l == Len(last.pending)
  <2>4. c \in Nat /\ d \in Nat /\ l \in Nat \ {0} /\ Left(last) = (c + 1) * d + l
    BY <1>7, <2>3, LeftIs DEF Left
  <2> HIDE DEF c, d, l
  <2>5. (c + 1) * d \in Nat  BY <2>4
  <2>q. QED BY <2>1, <2>4, <2>5
<1>q. QED BY <1>1, <1>8 DEF last

\* What the loader finds of a ledger was walked, unless a line was overlooked.
LEMMA LoadedIsWalked ==
    ASSUME NEW tree \in Tree, NEW p \in Path, Exists(tree, p),
           \A q \in Walked(tree, p) : ~Rejected(tree, q),
           \A x \in Reach(tree, p) : ~Overlooks(tree, x)
    PROVE  \A q \in Reach(tree, p) : Exists(tree, q) => q \in Walked(tree, p)
<1> DEFINE S == {q \in Path : Exists(tree, q) => q \in Walked(tree, p) /\ q \in Reach(tree, p)}
<1>1. p \in S  BY ReachIs, WalkedIs
<1>2. ASSUME NEW q \in S, NEW x \in Included(tree, q) PROVE x \in S
  <2>1. PICK line \in Lines(tree, q) : x = line[1]  BY <1>2 DEF Included
  <2>2. Exists(tree, q)  BY <2>1 DEF Lines
  <2>3. q \in Path /\ q \in Walked(tree, p) /\ q \in Reach(tree, p)  BY <2>2
  <2>4. x \in Path  BY <2>3, <1>2, IncludedPaths
  <2>5. ASSUME Exists(tree, x) PROVE x \in Walked(tree, p)
    <3>1. line \in Path \X Spelling /\ line[2] # "comment"
      BY <2>1, <2>3, IncludedPaths DEF Lines, Directives
    <3>2. line[2] # "spread"  BY <2>1, <2>3 DEF Overlooks
    <3>3. line[2] # "barred"  BY <2>1, <2>3 DEF Rejected
    <3>4. Seen(tree, line)  BY <2>1, <2>5, <3>1, <3>2, <3>3 DEF Seen, Spelling
    <3>5. x \in Followed(tree, q)  BY <2>1, <3>4 DEF Followed
    <3>q. QED BY <2>3, <3>5, WalkedIs
  <2>6. x \in Reach(tree, p)  BY <2>3, <1>2, ReachIs
  <2>q. QED BY <2>4, <2>5, <2>6
<1>3. S \in SUBSET Path  OBVIOUS
<1> HIDE DEF S
<1>4. Reach(tree, p) \subseteq S  BY <1>1, <1>2, <1>3, ReachIs
<1>q. QED BY <1>4 DEF S

\* The plugin policy is exact for every tree and every entry that is there.
LEMMA PolicyExact ==
    ASSUME NEW tree \in Tree, NEW p \in Path, Exists(tree, p)
    PROVE  LET files == Walked(tree, p)
               clear == \A q \in files : ~Rejected(tree, q)
           IN  /\ Accepted(tree, p) =>
                     /\ clear /\ Cardinality(files) <= MaxFiles /\ ~TooMuch(tree, files)
                     /\ \A q \in Reach(tree, p) : Exists(tree, q) /\ "plugin" \in tree[q].marks =>
                           \E x \in Reach(tree, p) : Overlooks(tree, x)
               /\ clear /\ Cardinality(files) < MaxFiles /\ ~TooMuch(tree, files) =>
                     Accepted(tree, p)
<1> DEFINE files == Walked(tree, p)
           clear == \A q \in files : ~Rejected(tree, q)
<1>1. Accepted(tree, p) <=> Scan(tree, p)  BY DEF Accepted
<1>2. Scan(tree, p) => clear /\ Cardinality(files) <= MaxFiles /\ ~TooMuch(tree, files)
  BY ScanIsSound
<1>3. clear /\ Cardinality(files) < MaxFiles /\ ~TooMuch(tree, files) => Scan(tree, p)
  BY ScanIsComplete
<1>4. ASSUME clear, NEW q \in Reach(tree, p), Exists(tree, q), "plugin" \in tree[q].marks
      PROVE  \E x \in Reach(tree, p) : Overlooks(tree, x)
  <2>1. q \notin files  BY <1>4 DEF Rejected
  <2>q. QED BY <1>4, <2>1, LoadedIsWalked
<1> HIDE DEF files, clear
<1>q. QED BY <1>1, <1>2, <1>3, <1>4 DEF files, clear

-----------------------------------------------------------------------------
(* Discovery.                                                              *)

LEMMA ScoresAreNumbers ==
    ASSUME NEW tree, NEW p
    PROVE  Likelihood(tree, p) \in 0 .. 100 /\ Confidence(tree, p) \in 0 .. 100
<1>1. \A n \in Int : Clamp(n) \in 0 .. 100  BY DEF Clamp
<1> DEFINE points(condition, n) == IF condition THEN n ELSE 0
<1>2. Likelihood(tree, p) = Clamp(points(p \in Hinted, 35) + points("option" \in tree[p].marks, 25)
          + points(Lines(tree, p) # {}, 20) + points("open" \in tree[p].marks, 15)
          - points(p \in InSidecar, 25))
  BY DEF Likelihood
<1>3. Likelihood(tree, p) \in 0 .. 100  BY <1>1, <1>2
<1>4. Likelihood(tree, p) + (IF Valid(tree, p) THEN 25 ELSE 0) \in Int
  <2>1. \A n \in 0 .. 100 : n + 25 \in Int /\ n + 0 \in Int  OBVIOUS
  <2>q. QED BY <1>3, <2>1
<1>q. QED BY <1>1, <1>3, <1>4 DEF Confidence

\* What is checked is among the candidates, and the candidates are ledger files.
LEMMA CheckedAreThere ==
    ASSUME NEW tree
    PROVE  \A p \in Checked(tree) : p \in Candidates(tree) /\ p \in Ledger /\ p \in Path /\ Exists(tree, p)
<1> DEFINE all == {[path |-> p, likelihood |-> Likelihood(tree, p)] : p \in Candidates(tree)}
<1>1. \A c \in all : c.path \in Candidates(tree)  OBVIOUS
<1>2. \A p \in Checked(tree) : \E c \in all : p = c.path
  <2> HIDE DEF all
  <2>q. QED BY DEF Checked, all
<1>3. \A p \in Checked(tree) : p \in Candidates(tree)  BY <1>1, <1>2
<1>q. QED BY <1>3, RepositoryAssumption DEF Candidates

LEMMA BestAre ==
    ASSUME NEW tree
    PROVE  \A p : p \in BestOnes(tree) <=>
                 /\ p \in ValidOnes(tree)
                 /\ \A q \in ValidOnes(tree) : Confidence(tree, p) >= Confidence(tree, q)
<1> DEFINE scores == {[path |-> p, score |-> Confidence(tree, p)] : p \in ValidOnes(tree)}
           best == {d \in scores : \A e \in scores : d.score >= e.score}
<1>1. BestOnes(tree) = {c.path : c \in best}  BY DEF BestOnes
<1>2. \A p : p \in BestOnes(tree) <=> \E c \in best : p = c.path
  <2> HIDE DEF best
  <2>q. QED BY <1>1
<1>3. \A c \in scores : c.path \in ValidOnes(tree) /\ c.score = Confidence(tree, c.path)
  OBVIOUS
<1>4. \A p \in ValidOnes(tree) : \E c \in scores : c.path = p /\ c.score = Confidence(tree, p)
  <2>1. ASSUME NEW p \in ValidOnes(tree) PROVE \E c \in scores : c.path = p /\ c.score = Confidence(tree, p)
    <3>1. [path |-> p, score |-> Confidence(tree, p)] \in scores  OBVIOUS
    <3> HIDE DEF scores
    <3>q. QED BY <3>1
  <2>q. QED BY <2>1
<1> HIDE DEF scores
<1>q. QED BY <1>2, <1>3, <1>4

LEMMA OneBest ==
    ASSUME NEW tree
    PROVE  Cardinality(BestOnes(tree)) = 1 <=> \E p : BestOnes(tree) = {p}
<1>1. BestOnes(tree) \in SUBSET Path
  BY BestAre, CheckedAreThere DEF ValidOnes
<1>2. IsFiniteSet(BestOnes(tree))  BY <1>1, RepositoryAssumption, FS_Subset
<1>q. QED BY <1>2, FS_Singleton

\* What discovery picks is valid and is ahead of every other valid ledger.
LEMMA PickIsBest ==
    ASSUME NEW tree \in Tree, Discovered(tree).status = "one_candidate"
    PROVE  LET p == Discovered(tree).entry IN
           /\ DiscoveredAt(tree, p) = Discovered(tree)
           /\ \A q \in ValidOnes(tree) \ {p} : Confidence(tree, q) < Confidence(tree, p)
<1>1. Cardinality(BestOnes(tree)) = 1
      /\ Discovered(tree) = Found("one_candidate", CHOOSE x \in BestOnes(tree) : TRUE)
  BY DEF Discovered, Found
<1>2. PICK p : BestOnes(tree) = {p}  BY <1>1, OneBest
<1>3. Discovered(tree) = Found("one_candidate", p)  BY <1>1, <1>2
<1>4. p \in ValidOnes(tree) /\ \A q \in ValidOnes(tree) : Confidence(tree, p) >= Confidence(tree, q)
  BY <1>2, BestAre
<1>5. p \in Path /\ Exists(tree, p) /\ Valid(tree, p)
  BY <1>4, CheckedAreThere DEF ValidOnes
<1>6. DiscoveredAt(tree, p) = Found("one_candidate", p)  BY <1>5 DEF DiscoveredAt
<1>7. ASSUME NEW q \in ValidOnes(tree) \ {p} PROVE Confidence(tree, q) < Confidence(tree, p)
  <2> SUFFICES ASSUME ~(Confidence(tree, q) < Confidence(tree, p)) PROVE FALSE  OBVIOUS
  <2>1. Confidence(tree, q) \in 0 .. 100 /\ Confidence(tree, p) \in 0 .. 100  BY ScoresAreNumbers
  <2>2. Confidence(tree, q) = Confidence(tree, p)  BY <1>4, <2>1
  <2>3. q \in BestOnes(tree)  BY <1>4, <2>2, BestAre
  <2>q. QED BY <1>2, <2>3
<1>8. Discovered(tree).entry = p  BY <1>3 DEF Found
<1>q. QED BY <1>3, <1>6, <1>7, <1>8

\* A repository that discovery calls clean may be initialized.
LEMMA CleanMayBeInitialized ==
    ASSUME NEW tree \in Tree, Discovered(tree).status = "clean_repo"
    PROVE  PreviewError(tree, [operation |-> "initialize_ledger", entry |-> Absent,
                               sidecar |-> Absent, matching |-> TRUE]) = "none"
<1> DEFINE r == [operation |-> "initialize_ledger", entry |-> Absent,
                 sidecar |-> Absent, matching |-> TRUE]
<1>1. Clean(tree)  BY DEF Discovered, Found
<1>2. /\ DefaultEntry \in Path /\ DefaultSidecar \in Path /\ DefaultEntry # DefaultSidecar
      /\ DefaultEntry # Outside /\ DefaultSidecar # Outside
  BY RepositoryAssumption
<1>3. r.operation = "initialize_ledger" /\ r.entry = Absent /\ r.sidecar = Absent /\ r.matching = TRUE
  OBVIOUS
<1> HIDE DEF r
<1>4. SetupPaths(tree, r) = [error |-> "none", entry |-> DefaultEntry, sidecar |-> DefaultSidecar]
  BY <1>2, <1>3 DEF SetupPaths
<1>5. PreviewError(tree, r) = "none"
  BY <1>1, <1>2, <1>3, <1>4 DEF PreviewError, Clean
<1>q. QED BY <1>5 DEF r

\* A ledger that has just been initialized is the one discovery picks.
LEMMA InitializedIsFound ==
    ASSUME NEW tree \in Tree, Clean(tree), NEW paths, NEW new \in Tree,
           paths.entry \in Path, paths.sidecar \in Path, paths.entry # paths.sidecar,
           Discoverable(paths), Valid(new, paths.entry),
           \A p \in Path : Exists(new, p) => p \in {paths.entry, paths.sidecar},
           Exists(new, paths.entry), Exists(new, paths.sidecar),
           Lines(new, paths.entry) # {}, Lines(new, paths.sidecar) = {},
           new[paths.entry].marks = {"option"}, new[paths.sidecar].marks = {}
    PROVE  Discovered(new) = Found("one_candidate", paths.entry)
<1> DEFINE e == paths.entry
           s == paths.sidecar
           points(condition, n) == IF condition THEN n ELSE 0
<1>1. e \in Ledger /\ (e \in InSidecar => s \in InSidecar)  BY DEF Discoverable
<1>2. Candidates(new) \subseteq {e, s} /\ e \in Candidates(new)
      /\ (s \in Candidates(new) => s \in Hinted)
  <2>1. \A p \in Candidates(new) : p \in Path /\ Exists(new, p)
    BY RepositoryAssumption DEF Candidates
  <2>2. e \in Candidates(new)  BY <1>1 DEF Candidates
  <2>3. s \in Candidates(new) => s \in Hinted  BY DEF Candidates
  <2>q. QED BY <2>1, <2>2, <2>3
<1>3. /\ Likelihood(new, e) = Clamp(points(e \in Hinted, 35) + 25 + 20 + 0 - points(e \in InSidecar, 25))
      /\ Likelihood(new, s) = Clamp(points(s \in Hinted, 35) + 0 + 0 + 0 - points(s \in InSidecar, 25))
  <2>1. /\ "option" \in new[e].marks /\ "open" \notin new[e].marks
        /\ "option" \notin new[s].marks /\ "open" \notin new[s].marks
        /\ Lines(new, e) # {} /\ Lines(new, s) = {}
    OBVIOUS
  <2>q. QED BY <2>1 DEF Likelihood
<1>4. /\ Likelihood(new, e) \in 20 .. 80
      /\ s \in Hinted => Likelihood(new, s) \in {10, 35}
      /\ s \in Hinted => Likelihood(new, s) < Likelihood(new, e)
      /\ s \in Hinted => Likelihood(new, s) + 25 < Likelihood(new, e) + 25
      /\ s \in Hinted => Clamp(Likelihood(new, s) + 25) < Clamp(Likelihood(new, e) + 25)
      /\ s \in Hinted => Clamp(Likelihood(new, s)) < Clamp(Likelihood(new, e) + 25)
  BY <1>1, <1>3 DEF Clamp
<1>5. s \in Hinted => Confidence(new, s) < Confidence(new, e)
  BY <1>4 DEF Confidence
<1>6. e \in Checked(new)
  <2> DEFINE all == {[path |-> p, likelihood |-> Likelihood(new, p)] : p \in Candidates(new)}
             key(c) == 2 * c.likelihood + (IF c.path = DefaultEntry THEN 1 ELSE 0)
             before(c, d) == key(c) > key(d) \/ (key(c) = key(d) /\ Rank[c.path] < Rank[d.path])
             mine == [path |-> e, likelihood |-> Likelihood(new, e)]
  <2>1. mine \in all  BY <1>2
  <2>2. ASSUME NEW c \in all PROVE ~before(c, mine)
    <3>1. PICK p \in Candidates(new) : c = [path |-> p, likelihood |-> Likelihood(new, p)]
      OBVIOUS
    <3>2. c.path = p /\ c.likelihood = Likelihood(new, p)  BY <3>1
    <3>3. CASE p = e
      <4>1. c = mine  BY <3>1, <3>3
      <4>2. key(mine) \in Int  BY <1>4
      <4>3. Rank[e] \in Nat  BY RepositoryAssumption
      <4>q. QED BY <4>1, <4>2, <4>3
    <3>4. CASE p # e
      <4>1. p = s /\ s \in Hinted  BY <1>2, <3>4
      <4>2. c.likelihood \in {10, 35} /\ c.likelihood < mine.likelihood /\ mine.likelihood \in 20 .. 80
        BY <1>4, <3>2, <4>1
      <4> DEFINE x == c.likelihood
                 y == mine.likelihood
      <4>3. x \in Int /\ y \in Int /\ x < y  BY <4>2
      <4>4. key(c) \in {2 * x, 2 * x + 1} /\ key(mine) \in {2 * y, 2 * y + 1}
        BY <4>3
      <4> HIDE DEF x, y, mine
      <4>5. key(c) < key(mine) /\ key(c) \in Int /\ key(mine) \in Int
        <5> HIDE DEF key
        <5>q. QED BY <4>3, <4>4
      <4>6. ~(key(c) > key(mine)) /\ key(c) # key(mine)
        <5> HIDE DEF key
        <5>q. QED BY <4>5
      <4> HIDE DEF key
      <4>q. QED BY <4>6
    <3>q. QED BY <3>3, <3>4
  <2>3. {c \in all : before(c, mine)} = {}
    <3> HIDE DEF all, before, mine
    <3>q. QED BY <2>2
  <2>4. Cardinality({c \in all : before(c, mine)}) < MaxValidations
    <3>1. 0 < MaxValidations  BY RepositoryAssumption
    <3>2. Cardinality({}) = 0  BY FS_EmptySet
    <3> HIDE DEF all, before, mine
    <3>q. QED BY <2>3, <3>1, <3>2
  <2>5. mine \in {d \in all : Cardinality({c \in all : before(c, d)}) < MaxValidations}
    BY <2>1, <2>4
  <2>6. Checked(new) = {c.path : c \in {d \in all : Cardinality({x \in all : before(x, d)}) < MaxValidations}}
    BY DEF Checked
  <2>7. mine.path = e  OBVIOUS
  <2> HIDE DEF all, before, mine
  <2>q. QED BY <2>5, <2>6, <2>7
<1>7. e \in ValidOnes(new)  BY <1>6 DEF ValidOnes
<1>8. \A q \in ValidOnes(new) : q = e \/ (q = s /\ s \in Hinted)
  BY <1>2, CheckedAreThere DEF ValidOnes
<1>9. Confidence(new, e) \in 0 .. 100 /\ Confidence(new, s) \in 0 .. 100  BY ScoresAreNumbers
<1> HIDE DEF e, s
<1>10. e \in BestOnes(new)  BY <1>5, <1>7, <1>8, <1>9, BestAre
<1>11. \A q \in BestOnes(new) : q = e
  <2>1. \A q \in BestOnes(new) : q \in ValidOnes(new) /\ Confidence(new, q) >= Confidence(new, e)
    BY <1>7, BestAre
  <2>2. s \in Hinted => ~(Confidence(new, s) >= Confidence(new, e))  BY <1>5, <1>9
  <2>q. QED BY <1>8, <2>1, <2>2
<1>12. BestOnes(new) = {e}  BY <1>10, <1>11
<1>13. Cardinality(BestOnes(new)) = 1  BY <1>12, OneBest
<1>14. (CHOOSE p \in BestOnes(new) : TRUE) = e  BY <1>12
<1>q. QED BY <1>13, <1>14 DEF Discovered, e

-----------------------------------------------------------------------------
(* Setups.                                                                 *)

\* What a preview without an error says of its paths.
LEMMA PreviewedPaths ==
    ASSUME NEW tree \in Tree, NEW r \in Request, PreviewError(tree, r) = "none",
           NEW paths, paths = SetupPaths(tree, r)
    PROVE  /\ paths.entry \in Path /\ paths.sidecar \in Path
           /\ paths.entry # paths.sidecar
           /\ r.operation = "initialize_ledger" => \A p \in Path : ~Exists(tree, p)
           /\ r.operation # "initialize_ledger" => Exists(tree, paths.entry)
<1>1. /\ r.operation \in {"initialize_ledger", "install_sidecar"}
      /\ r.entry \in Path \cup {Absent, Outside}
      /\ r.sidecar \in Path \cup {Absent, Outside}
  BY OnboardingAssumption
<1>2. paths.error = "none"  BY DEF PreviewError
<1>3. r.operation = "initialize_ledger" => Clean(tree)  BY DEF PreviewError
<1> DEFINE entry == IF r.entry = Absent THEN DefaultEntry ELSE r.entry
           sidecar == IF r.sidecar # Absent THEN r.sidecar
                      ELSE IF r.operation = "initialize_ledger" THEN DefaultSidecar
                      ELSE SidecarOf[entry]
<1>4. /\ entry # Outside
      /\ r.operation = "install_sidecar" => Exists(tree, entry)
      /\ sidecar # Outside
      /\ entry # sidecar
      /\ paths.entry = entry /\ paths.sidecar = sidecar
  BY <1>2 DEF SetupPaths
<1>5. entry \in Path  BY <1>1, <1>4, RepositoryAssumption
<1>6. sidecar \in Path  BY <1>1, <1>4, <1>5, RepositoryAssumption
<1>q. QED BY <1>1, <1>3, <1>4, <1>5, <1>6 DEF Clean

LEMMA AppliedIsATree ==
    ASSUME NEW tree \in Tree, NEW r, NEW paths,
           paths.entry \in Path, paths.sidecar \in Path,
           r.operation # "initialize_ledger" => Exists(tree, paths.entry)
    PROVE  Applied(tree, r, paths) \in Tree
<1>1. Blank \in File
  BY DEF Blank, File
<1>2. [marks |-> {"option"}, includes |-> {<<paths.sidecar, "plain">>}] \in File
  BY DEF File, Mark, Spelling
<1>3. CASE r.operation = "initialize_ledger"
  BY <1>1, <1>2, <1>3 DEF Applied, Initialized, Tree
<1>4. CASE r.operation # "initialize_ledger"
  <2>1. tree[paths.entry] \in File  BY <1>4 DEF Tree, Exists
  <2>2. [tree[paths.entry] EXCEPT !.includes = @ \cup {<<paths.sidecar, "plain">>}] \in File
    BY <2>1 DEF File, Spelling
  <2>3. Installed(tree, paths) \in Tree
    BY <1>1, <2>2 DEF Installed, Tree
  <2>q. QED BY <1>4, <2>3 DEF Applied
<1>q. QED BY <1>3, <1>4

LEMMA FormattedIsATree ==
    ASSUME NEW tree \in Tree, NEW paths
    PROVE  Formatted(tree, paths) \in Tree
<1>1. ASSUME NEW p \in Path, Exists(tree, p)
      PROVE  [tree[p] EXCEPT !.marks = @ \ {"ragged"}] \in File
  BY <1>1 DEF Tree, Exists, File
<1>q. QED BY <1>1 DEF Formatted, Tree

LEMMA FormattedText ==
    ASSUME NEW tree \in Tree, NEW paths, NEW p \in Path
    PROVE  /\ Text(Formatted(tree, paths), p) = Text(tree, p)
           /\ Exists(Formatted(tree, paths), p) <=> Exists(tree, p)
           /\ Exists(tree, p) => Formatted(tree, paths)[p].includes = tree[p].includes
<1> DEFINE plain == [tree[p] EXCEPT !.marks = @ \ {"ragged"}]
<1>1. Formatted(tree, paths)[p] = IF p \in {paths.entry, paths.sidecar} /\ Exists(tree, p)
                                  THEN plain ELSE tree[p]
  BY DEF Formatted
<1>2. ASSUME Exists(tree, p)
      PROVE  /\ plain # Absent
             /\ plain.includes = tree[p].includes
             /\ [plain EXCEPT !.marks = @ \ {"ragged"}] = plain
  <2>1. tree[p] \in File  BY <1>2 DEF Tree, Exists
  <2>2. plain \in File  BY <2>1 DEF File
  <2>3. plain.marks = tree[p].marks \ {"ragged"}  BY <2>1 DEF File
  <2>4. [plain EXCEPT !.marks = @ \ {"ragged"}].marks = plain.marks  BY <2>2, <2>3 DEF File
  <2>q. QED BY <2>1, <2>2, <2>3, <2>4, FileAssumption DEF File
<1> HIDE DEF plain
<1>3. CASE p \in {paths.entry, paths.sidecar} /\ Exists(tree, p)
  <2>1. Formatted(tree, paths)[p] = plain  BY <1>1, <1>3
  <2>2. Text(Formatted(tree, paths), p) = plain  BY <1>2, <1>3, <2>1 DEF Text, Exists
  <2>3. Text(tree, p) = plain  BY <1>3 DEF Text, plain
  <2>q. QED BY <1>2, <1>3, <2>1, <2>2, <2>3 DEF Exists
<1>4. CASE ~(p \in {paths.entry, paths.sidecar} /\ Exists(tree, p))
  BY <1>1, <1>4 DEF Text, Exists
<1>q. QED BY <1>3, <1>4

\* Between two revisions a set of changes lists all that became different.
OnlyListed(old, new, changes) ==
    \A p \in Path : Text(old, p) # Text(new, p) =>
        \/ <<"create", p>> \in changes /\ ~Exists(old, p)
        \/ /\ <<"modify", p>> \in changes /\ Exists(old, p)
           /\ old[p].includes \subseteq new[p].includes

\* A setup makes the changes its preview lists.
LEMMA AppliedAsListed ==
    ASSUME NEW tree \in Tree, NEW r \in Request, PreviewError(tree, r) = "none",
           NEW paths, paths = SetupPaths(tree, r)
    PROVE  OnlyListed(tree, Formatted(Applied(tree, r, paths), paths), Planned(tree, r, paths))
<1> DEFINE new == Applied(tree, r, paths)
<1>1. /\ paths.entry \in Path /\ paths.sidecar \in Path
      /\ paths.entry # paths.sidecar
      /\ r.operation = "initialize_ledger" => \A p \in Path : ~Exists(tree, p)
      /\ r.operation # "initialize_ledger" => Exists(tree, paths.entry)
  BY PreviewedPaths
<1>2. new \in Tree  BY <1>1, AppliedIsATree
<1>3. ASSUME NEW p \in Path, new[p] # tree[p]
      PROVE  \/ <<"create", p>> \in Planned(tree, r, paths) /\ ~Exists(tree, p)
             \/ /\ <<"modify", p>> \in Planned(tree, r, paths) /\ Exists(tree, p)
                /\ Exists(new, p) /\ tree[p].includes \subseteq new[p].includes
  <2>1. CASE r.operation = "initialize_ledger"
    <3>1. p \in {paths.entry, paths.sidecar}
      BY <2>1, <1>1, <1>3 DEF Applied, Initialized, Tree
    <3>q. QED BY <2>1, <3>1, <1>1 DEF Planned
  <2>2. CASE r.operation # "initialize_ledger"
    <3>1. new[p] = IF p = paths.sidecar /\ ~Exists(tree, p) THEN Blank
                   ELSE IF p = paths.entry /\ ~Mentions(tree[p], paths.sidecar)
                   THEN [tree[p] EXCEPT !.includes = @ \cup {<<paths.sidecar, "plain">>}]
                   ELSE tree[p]
      BY <2>2 DEF Applied, Installed
    <3>2. CASE p = paths.sidecar /\ ~Exists(tree, p)  BY <2>2, <3>2 DEF Planned
    <3>3. CASE p = paths.entry /\ new[p] = [tree[p] EXCEPT !.includes = @ \cup {<<paths.sidecar, "plain">>}]
      <4>1. tree[p] \in File  BY <1>1, <2>2, <3>3 DEF Tree, Exists
      <4>2. new[p] \in File  BY <4>1, <3>3, <1>1 DEF File, Spelling
      <4>3. tree[p].includes \subseteq new[p].includes  BY <4>1, <3>3 DEF File
      <4>q. QED BY <1>1, <2>2, <3>3, <4>2, <4>3, FileAssumption DEF Planned, Exists
    <3>q. QED BY <1>3, <3>1, <3>2, <3>3
  <2>q. QED BY <2>1, <2>2
<1> HIDE DEF new
<1>4. ASSUME NEW p \in Path, Text(tree, p) # Text(Formatted(new, paths), p)
      PROVE  \/ <<"create", p>> \in Planned(tree, r, paths) /\ ~Exists(tree, p)
             \/ /\ <<"modify", p>> \in Planned(tree, r, paths) /\ Exists(tree, p)
                /\ tree[p].includes \subseteq Formatted(new, paths)[p].includes
  <2>1. Text(new, p) # Text(tree, p)  BY <1>2, <1>4, FormattedText
  <2>2. new[p] # tree[p]  BY <2>1 DEF Text, Exists
  <2>q. QED BY <1>2, <1>3, <2>2, FormattedText
<1>q. QED BY <1>4 DEF OnlyListed, new

-----------------------------------------------------------------------------
(* The branch.                                                             *)

\* A push leaves the revisions there were.
LEMMA BranchGrows ==
    ASSUME branch \in Seq(Tree), NEW tree \in Tree, branch' = Append(branch, tree)
    PROVE  /\ branch' \in Seq(Tree)
           /\ Top' = Top + 1 /\ Top \in Nat
           /\ \A h \in 1 .. Top : branch'[h] = branch[h]
           /\ branch'[Top + 1] = tree
  BY AppendProperties, LenProperties DEF Top

-----------------------------------------------------------------------------
(* The invariant.                                                          *)

\* A preview that was shown is the preview of a revision.
IsPreview(s) ==
    /\ s.head \in 1 .. Top
    /\ s.request \in Request
    /\ PreviewError(branch[s.head], s.request) = "none"
    /\ s.paths = SetupPaths(branch[s.head], s.request)
    /\ s.changes = Planned(branch[s.head], s.request, s.paths)

ShownOK ==
    /\ Top >= 1
    /\ shown = [c \in Client |-> shown[c]]
    /\ \A c \in Client : shown[c].head \in Nat
    /\ \A c \in Client : shown[c].code = "none" => IsPreview(shown[c])

Made(c) == Applied(branch[base[c]], shown[c].request, shown[c].paths)

\* The setup made in the revision the preview showed.
Ready(c) == Applied(branch[shown[c].head], shown[c].request, shown[c].paths)

\* A confirmation works on the revision its preview showed, and its copy is as
\* far as its phase says.
WorkOK ==
    /\ base \in [Client -> Nat]
    /\ work \in [Client -> Tree]
    /\ \A c \in Client : pc[c] # "idle" =>
          /\ shown[c].code = "none"
          /\ base[c] = shown[c].head
          /\ pc[c] = "copied" => work[c] = branch[base[c]]
          /\ pc[c] = "applied" => work[c] = Made(c)
          /\ pc[c] \in {"checked", "committed"} => work[c] = Formatted(Made(c), shown[c].paths)

\* A client that is confirming has landed nothing since its copy was made.
LateOK ==
    \A c \in Client : pc[c] # "idle" =>
        \A s \in setups : s.by = c => s.revision <= base[c]

AnswerOK == answer = [c \in Client |-> answer[c]]

Inv == TypeOK /\ ShownOK /\ WorkOK /\ LateOK /\ AnswerOK /\ PublishedAsPreviewed /\ AnswersAreTrue

\* The copy of a confirmation is typed, and a push of it makes what was listed.
LEMMA CopyIsMade ==
    ASSUME Inv, NEW c \in Client, pc[c] # "idle"
    PROVE  /\ base[c] \in 1 .. Top
           /\ branch[base[c]] \in Tree
           /\ IsPreview(shown[c]) /\ base[c] = shown[c].head /\ shown[c].code = "none"
           /\ Made(c) \in Tree
           /\ Formatted(Made(c), shown[c].paths) \in Tree
           /\ OnlyListed(branch[base[c]], Formatted(Made(c), shown[c].paths), shown[c].changes)
<1>1. shown[c].code = "none" /\ base[c] = shown[c].head  BY DEF Inv, WorkOK
<1>2. IsPreview(shown[c])  BY <1>1 DEF Inv, ShownOK
<1>3. base[c] \in 1 .. Top  BY <1>1, <1>2 DEF IsPreview
<1>4. branch[base[c]] \in Tree  BY <1>3, ElementOfSeq DEF Inv, TypeOK, Top
<1> DEFINE tree == branch[base[c]]
           r == shown[c].request
           paths == shown[c].paths
<1>5. /\ tree \in Tree /\ r \in Request /\ PreviewError(tree, r) = "none"
      /\ paths = SetupPaths(tree, r) /\ shown[c].changes = Planned(tree, r, paths)
      /\ Made(c) = Applied(tree, r, paths)
  BY <1>1, <1>2, <1>4 DEF IsPreview, Made
<1> HIDE DEF tree, r, paths
<1>6. Made(c) \in Tree  BY <1>5, PreviewedPaths, AppliedIsATree
<1>7. Formatted(Made(c), paths) \in Tree  BY <1>6, FormattedIsATree
<1>8. OnlyListed(tree, Formatted(Made(c), paths), shown[c].changes)  BY <1>5, AppliedAsListed
<1>q. QED BY <1>1, <1>2, <1>3, <1>4, <1>6, <1>7, <1>8 DEF tree, paths

\* The initial states.
LEMMA InitInv == Init => Inv
<1> SUFFICES ASSUME Init PROVE Inv  OBVIOUS
<1>1. PICK tree \in Tree : branch = <<tree>>  BY OnboardingAssumption DEF Init
<1>2. branch \in Seq(Tree) /\ Top = 1  BY <1>1 DEF Top
<1>3. NoWork \in Tree  BY DEF NoWork, Tree
<1>4. NoPreview.head = 0 /\ NoPreview.code = "nothing"  BY DEF NoPreview
<1>5. TypeOK  BY <1>2, <1>3, <1>4 DEF Init, TypeOK, Phase, Top
<1>6. ShownOK  BY <1>2, <1>4 DEF Init, ShownOK
<1>7. WorkOK /\ LateOK  BY <1>3 DEF Init, WorkOK, LateOK
<1>8. AnswerOK  BY DEF Init, AnswerOK, NoAnswer
<1>8a. \A c \in Client : answer[c].code = "none"  BY DEF Init, NoAnswer
<1>8b. AnswersAreTrue  BY <1>8a DEF AnswersAreTrue
<1>9. PublishedAsPreviewed  BY DEF Init, PublishedAsPreviewed
<1>q. QED BY <1>5, <1>6, <1>7, <1>8, <1>8b, <1>9 DEF Inv

\* Whatever was listed stays listed while the branch grows.
LEMMA PreviewsStay ==
    ASSUME Inv, NEW tree \in Tree, branch' = Append(branch, tree)
    PROVE  /\ \A s : IsPreview(s) => IsPreview(s)'
           /\ \A s \in setups : /\ branch'[s.revision - 1] = branch[s.revision - 1]
                               /\ branch'[s.revision] = branch[s.revision]
<1>1. /\ branch' \in Seq(Tree)
      /\ Top' = Top + 1 /\ Top \in Nat
      /\ \A h \in 1 .. Top : branch'[h] = branch[h]
  BY BranchGrows DEF Inv, TypeOK
<1>2. ASSUME NEW s, IsPreview(s)  PROVE IsPreview(s)'
  <2>1. s.head \in 1 .. Top  BY <1>2 DEF IsPreview
  <2>2. \A h \in 1 .. Top : h \in 1 .. Top'  BY <1>1
  <2>3. branch'[s.head] = branch[s.head]  BY <1>1, <2>1
  <2>4. s.head \in 1 .. Top'  BY <2>1, <2>2
  <2>q. QED BY <1>2, <2>3, <2>4 DEF IsPreview
<1>3. ASSUME NEW s \in setups
      PROVE  s.revision \in 1 .. Top /\ s.revision - 1 \in 1 .. Top
  BY <1>1, <1>3 DEF Inv, TypeOK
<1>q. QED BY <1>1, <1>2, <1>3

\* A refusal, a failure or a kill.
LEMMA AnswerKeeps ==
    ASSUME Inv, NEW c \in Client, NEW code, Answer(c, code), code # "success",
           code \in {"BEANCOUNT_CHECK_FAILED", "GIT_COMMIT_FAILED"} =>
               \A s \in setups : s.by = c => s.shown.head # shown[c].head
    PROVE  Inv'
<1>1. /\ pc' = [pc EXCEPT ![c] = "idle"]
      /\ work' = [work EXCEPT ![c] = NoWork]
      /\ base' = [base EXCEPT ![c] = 0]
      /\ answer' = [answer EXCEPT ![c] = [code |-> code, head |-> shown[c].head]]
      /\ UNCHANGED <<branch, shown, setups>>
  BY DEF Answer, Tell, Close
<1>2. NoWork \in Tree  BY DEF NoWork, Tree
<1>3. TypeOK'  BY <1>1, <1>2 DEF Inv, TypeOK, WorkOK, Phase, Top
<1>4. ShownOK'  BY <1>1 DEF Inv, ShownOK, IsPreview, Top
<1>5. WorkOK'  BY <1>1, <1>2 DEF Inv, TypeOK, WorkOK, Made
<1>6. LateOK'  BY <1>1 DEF Inv, TypeOK, WorkOK, LateOK
<1>7. AnswerOK'  BY <1>1 DEF Inv, AnswerOK, ShownOK
<1>8. PublishedAsPreviewed'  BY <1>1 DEF Inv, PublishedAsPreviewed, Text, Exists
<1>9. AnswersAreTrue'
  <2> SUFFICES ASSUME NEW d \in Client
               PROVE  /\ answer'[d].code = "success" =>
                            \E s \in setups : /\ s.by = d /\ s.shown.head = answer'[d].head
                                            /\ s.revision = answer'[d].head + 1
                      /\ answer'[d].code \in {"BEANCOUNT_CHECK_FAILED", "GIT_COMMIT_FAILED"} =>
                            {s \in setups : s.by = d /\ s.shown.head = answer'[d].head} = {}
    BY <1>1 DEF AnswersAreTrue
  <2>1. CASE d = c
    <3>1. answer'[d] = [code |-> code, head |-> shown[c].head]  BY <2>1, <1>1 DEF Inv, AnswerOK
    <3>q. QED BY <3>1, <2>1
  <2>2. CASE d # c
    <3>1. answer'[d] = answer[d]  BY <2>2, <1>1 DEF Inv, AnswerOK
    <3>q. QED BY <3>1 DEF Inv, AnswersAreTrue
  <2>q. QED BY <2>1, <2>2
<1>q. QED BY <1>3, <1>4, <1>5, <1>6, <1>7, <1>8, <1>9 DEF Inv

\* A confirmation goes on.
LEMMA WorkGoesOn ==
    ASSUME Inv, NEW c \in Client, NEW tree \in Tree, NEW phase \in Phase \ {"idle"},
           pc' = [pc EXCEPT ![c] = phase],
           base' = [base EXCEPT ![c] = shown[c].head],
           work' = [work EXCEPT ![c] = tree],
           UNCHANGED <<branch, shown, answer, setups>>,
           shown[c].code = "none",
           phase = "copied" => tree = branch[shown[c].head],
           phase = "applied" => tree = Ready(c),
           phase \in {"checked", "committed"} => tree = Formatted(Ready(c), shown[c].paths),
           \A s \in setups : s.by = c => s.revision <= shown[c].head
    PROVE  Inv'
<1>0. shown[c].head \in 1 .. Top  BY DEF Inv, ShownOK, IsPreview
<1>1. TypeOK'  BY <1>0 DEF Inv, TypeOK, WorkOK, Phase, Top
<1>2. ShownOK'  BY DEF Inv, ShownOK, IsPreview, Top
<1>3. WorkOK'
  <2>1. base' \in [Client -> Nat] /\ work' \in [Client -> Tree]  BY <1>0 DEF Inv, WorkOK, TypeOK
  <2>2. ASSUME NEW d \in Client, pc'[d] # "idle"
        PROVE  /\ shown[d].code = "none"
               /\ base'[d] = shown[d].head
               /\ pc'[d] = "copied" => work'[d] = branch[base'[d]]
               /\ pc'[d] = "applied" => work'[d] = Made(d)'
               /\ pc'[d] \in {"checked", "committed"} =>
                     work'[d] = Formatted(Made(d)', shown[d].paths)
    <3>1. CASE d = c
      BY <3>1, <2>2 DEF Inv, WorkOK, TypeOK, Made, Ready
    <3>2. CASE d # c
      BY <3>2, <2>2 DEF Inv, WorkOK, TypeOK, Made
    <3>q. QED BY <3>1, <3>2
  <2>q. QED BY <2>1, <2>2 DEF WorkOK
<1>4. LateOK'  BY <1>0 DEF Inv, TypeOK, WorkOK, LateOK
<1>5. AnswerOK' /\ AnswersAreTrue'  BY DEF Inv, AnswerOK, AnswersAreTrue
<1>6. PublishedAsPreviewed'  BY DEF Inv, PublishedAsPreviewed, Text, Exists
<1>q. QED BY <1>1, <1>2, <1>3, <1>4, <1>5, <1>6 DEF Inv

\* What the run checks of a setup, by the changes it lists.
LEMMA PublishedByList ==
    PublishedAsPreviewed <=>
        \A s \in setups : /\ s.shown.head = s.revision - 1
                         /\ OnlyListed(branch[s.revision - 1], branch[s.revision], s.shown.changes)
  BY DEF PublishedAsPreviewed, OnlyListed

\* Somebody else pushes.
LEMMA ForeignKeeps ==
    ASSUME Inv, NEW tree \in Tree, branch' = Append(branch, tree),
           UNCHANGED <<pc, shown, base, work, answer, setups>>
    PROVE  Inv'
<1>1. /\ branch' \in Seq(Tree)
      /\ Top' = Top + 1 /\ Top \in Nat
      /\ \A h \in 1 .. Top : branch'[h] = branch[h]
  BY BranchGrows DEF Inv, TypeOK
<1>2. /\ \A s : IsPreview(s) => IsPreview(s)'
      /\ \A s \in setups : /\ branch'[s.revision - 1] = branch[s.revision - 1]
                          /\ branch'[s.revision] = branch[s.revision]
  BY PreviewsStay
<1>3. TypeOK'  BY <1>1 DEF Inv, TypeOK
<1>4. ShownOK'  BY <1>1, <1>2 DEF Inv, ShownOK
<1>5. WorkOK'
  <2>1. \A c \in Client : pc[c] # "idle" => branch'[base[c]] = branch[base[c]]
    BY <1>1, CopyIsMade
  <2>q. QED BY <2>1 DEF Inv, WorkOK, Made
<1>6. LateOK'  BY DEF Inv, LateOK
<1>7. AnswerOK' /\ AnswersAreTrue'  BY DEF Inv, AnswerOK, AnswersAreTrue
<1>8. PublishedAsPreviewed'
  <2>1. \A s \in setups : /\ s.shown.head = s.revision - 1
                         /\ OnlyListed(branch[s.revision - 1], branch[s.revision], s.shown.changes)
    BY PublishedByList DEF Inv
  <2>2. \A s \in setups' : /\ s.shown.head = s.revision - 1
                          /\ OnlyListed(branch'[s.revision - 1], branch'[s.revision], s.shown.changes)
    BY <2>1, <1>2
  <2>q. QED BY <2>2 DEF PublishedAsPreviewed, OnlyListed
<1>q. QED BY <1>3, <1>4, <1>5, <1>6, <1>7, <1>8 DEF Inv

LEMMA PreviewKeeps ==
    ASSUME Inv, NEW c \in Client, NEW r \in Request, Preview(c, r)
    PROVE  Inv'
<1> DEFINE s == IF Accepted(Tip, DefaultEntry) THEN PreviewOf(Tip, Top, r) ELSE NoPreview
<1>1. /\ pc[c] = "idle"
      /\ shown' = [shown EXCEPT ![c] = s]
      /\ answer' = [answer EXCEPT ![c] = NoAnswer]
      /\ UNCHANGED <<branch, pc, base, work, setups>>
  BY DEF Preview
<1>2. Top \in Nat  BY LenProperties DEF Inv, TypeOK, Top
<1>3. /\ s.head \in 0 .. Top
      /\ s.code = "none" => s.head = Top /\ IsPreview(s)
  <2>1. CASE s = NoPreview  BY <2>1, <1>2 DEF NoPreview
  <2>2. CASE s # NoPreview
    <3>1. /\ PreviewError(Tip, r) = "none"
          /\ s = [code |-> "none", head |-> Top, request |-> r, paths |-> SetupPaths(Tip, r),
                  changes |-> Planned(Tip, r, SetupPaths(Tip, r))]
      BY <2>2 DEF PreviewOf
    <3>2. Top >= 1  BY DEF Inv, ShownOK
    <3>q. QED BY <3>1, <3>2, <1>2 DEF IsPreview, Tip
  <2>q. QED BY <2>1, <2>2
<1> HIDE DEF s
<1>4. TypeOK'  BY <1>1, <1>3 DEF Inv, TypeOK, ShownOK, Top
<1>5. ShownOK'
  <2>1. \A x : IsPreview(x)' <=> IsPreview(x)  BY <1>1 DEF IsPreview, Top
  <2>2. Top' = Top  BY <1>1 DEF Top
  <2>q. QED BY <1>1, <1>2, <1>3, <2>1, <2>2 DEF Inv, ShownOK
<1>6. WorkOK'
  BY <1>1 DEF Inv, ShownOK, WorkOK, Made
<1>7. LateOK'  BY <1>1 DEF Inv, LateOK
<1>8. AnswerOK'  BY <1>1 DEF Inv, AnswerOK
<1>9. AnswersAreTrue'
  <2>1. answer'[c].code = "none"  BY <1>1 DEF Inv, AnswerOK, NoAnswer
  <2>2. \A d \in Client \ {c} : answer'[d] = answer[d]  BY <1>1 DEF Inv, AnswerOK
  <2>q. QED BY <1>1, <2>1, <2>2 DEF Inv, AnswersAreTrue
<1>10. PublishedAsPreviewed'  BY <1>1 DEF Inv, PublishedAsPreviewed, Text, Exists
<1>q. QED BY <1>4, <1>5, <1>6, <1>7, <1>8, <1>9, <1>10 DEF Inv

LEMMA PushKeeps ==
    ASSUME Inv, NEW c \in Client, Push(c)
    PROVE  Inv'
<1> DEFINE s == [by |-> c, revision |-> Top + 1, shown |-> shown[c]]
<1>1. PICK code \in {"success", "GIT_PUSH_FAILED"} :
            answer' = [answer EXCEPT ![c] = [code |-> code, head |-> shown[c].head]]
  BY DEF Push, Tell
<1>2. /\ pc[c] = "committed" /\ Top = base[c]
      /\ branch' = Append(branch, work[c])
      /\ setups' = setups \cup {s}
      /\ pc' = [pc EXCEPT ![c] = "idle"]
      /\ work' = [work EXCEPT ![c] = NoWork]
      /\ base' = [base EXCEPT ![c] = 0]
      /\ UNCHANGED shown
  BY DEF Push, Reaches, Close
<1>3. /\ work[c] \in Tree
      /\ work[c] = Formatted(Made(c), shown[c].paths)
      /\ OnlyListed(branch[base[c]], work[c], shown[c].changes)
      /\ shown[c].head = base[c] /\ shown[c].code = "none"
      /\ base[c] \in 1 .. Top
  BY <1>2, CopyIsMade DEF Inv, WorkOK
<1>4. /\ branch' \in Seq(Tree)
      /\ Top' = Top + 1 /\ Top \in Nat
      /\ \A h \in 1 .. Top : branch'[h] = branch[h]
      /\ branch'[Top + 1] = work[c]
  BY <1>2, <1>3, BranchGrows DEF Inv, TypeOK
<1>5. /\ \A x : IsPreview(x) => IsPreview(x)'
      /\ \A x \in setups : /\ branch'[x.revision - 1] = branch[x.revision - 1]
                          /\ branch'[x.revision] = branch[x.revision]
  BY <1>2, <1>3, PreviewsStay
<1>6. NoWork \in Tree  BY DEF NoWork, Tree
<1>7. TypeOK'  BY <1>2, <1>3, <1>4, <1>6 DEF Inv, TypeOK, WorkOK, Phase
<1>8. ShownOK'  BY <1>2, <1>4, <1>5 DEF Inv, ShownOK
<1>9. WorkOK'
  <2>1. \A d \in Client : pc[d] # "idle" => branch'[base[d]] = branch[base[d]]
    BY <1>4, CopyIsMade
  <2>q. QED BY <1>2, <1>6, <2>1 DEF Inv, TypeOK, WorkOK, Made
<1>10. LateOK'  BY <1>2 DEF Inv, TypeOK, WorkOK, LateOK
<1>11. AnswerOK'  BY <1>1 DEF Inv, AnswerOK
<1>12. PublishedAsPreviewed'
  <2>1. \A x \in setups : /\ x.shown.head = x.revision - 1
                         /\ OnlyListed(branch'[x.revision - 1], branch'[x.revision], x.shown.changes)
    BY <1>5, PublishedByList DEF Inv
  <2>2. /\ s.shown.head = s.revision - 1
        /\ OnlyListed(branch'[s.revision - 1], branch'[s.revision], s.shown.changes)
    <3>1. s.revision - 1 = Top /\ s.revision = Top + 1 /\ s.shown = shown[c]  BY <1>4
    <3>2. branch'[Top] = branch[base[c]]  BY <1>2, <1>3, <1>4
    <3>q. QED BY <1>2, <1>3, <1>4, <3>1, <3>2
  <2>q. QED BY <1>2, <2>1, <2>2 DEF PublishedAsPreviewed, OnlyListed
<1>13. AnswersAreTrue'
  <2> SUFFICES ASSUME NEW d \in Client
               PROVE  /\ answer'[d].code = "success" =>
                            \E x \in setups' : /\ x.by = d /\ x.shown.head = answer'[d].head
                                             /\ x.revision = answer'[d].head + 1
                      /\ answer'[d].code \in {"BEANCOUNT_CHECK_FAILED", "GIT_COMMIT_FAILED"} =>
                            {x \in setups' : x.by = d /\ x.shown.head = answer'[d].head} = {}
    BY DEF AnswersAreTrue
  <2>1. CASE d = c
    <3>1. answer'[d] = [code |-> code, head |-> base[c]]  BY <2>1, <1>1, <1>3 DEF Inv, AnswerOK
    <3>2. s \in setups' /\ s.by = d /\ s.shown.head = base[c] /\ s.revision = base[c] + 1
      BY <1>2, <1>3, <2>1
    <3>q. QED BY <3>1, <3>2
  <2>2. CASE d # c
    <3>1. answer'[d] = answer[d]  BY <2>2, <1>1 DEF Inv, AnswerOK
    <3>2. s.by # d  BY <2>2
    <3> HIDE DEF s
    <3>q. QED BY <1>2, <3>1, <3>2 DEF Inv, AnswersAreTrue
  <2>q. QED BY <2>1, <2>2
<1>q. QED BY <1>7, <1>8, <1>9, <1>10, <1>11, <1>12, <1>13 DEF Inv

LEMMA ConfirmKeeps ==
    ASSUME Inv, NEW c \in Client, Confirm(c)
    PROVE  Inv'
<1> DEFINE again == PreviewOf(Tip, Top, shown[c].request)
<1>1. again.code \in {"none", "nothing"}  BY DEF PreviewOf, NoPreview
<1>2. CASE Answer(c, "STALE_REPOSITORY")  BY <1>2, AnswerKeeps
<1>3. CASE Answer(c, again.code)
  <2> HIDE DEF again
  <2>q. QED BY <1>1, <1>3, AnswerKeeps
<1>4. CASE /\ shown[c].code = "none" /\ shown[c].head = Top
           /\ base' = [base EXCEPT ![c] = Top]
           /\ work' = [work EXCEPT ![c] = Tip]
           /\ pc' = [pc EXCEPT ![c] = "copied"]
           /\ UNCHANGED <<branch, shown, answer, setups>>
  <2>1. Top \in 1 .. Top  BY <1>4 DEF Inv, ShownOK, IsPreview
  <2>2. Tip \in Tree /\ Tip = branch[Top]  BY <2>1, ElementOfSeq DEF Inv, TypeOK, Tip, Top
  <2>3. \A s \in setups : s.revision <= Top  BY <2>1 DEF Inv, TypeOK
  <2>4. "copied" \in Phase \ {"idle"}  BY DEF Phase
  <2>5. base' = [base EXCEPT ![c] = shown[c].head] /\ Tip = branch[shown[c].head]  BY <1>4, <2>2
  <2>6. \A s \in setups : s.by = c => s.revision <= shown[c].head  BY <1>4, <2>3
  <2>q. QED BY <1>4, <2>2, <2>4, <2>5, <2>6, WorkGoesOn
<1>q. QED BY <1>2, <1>3, <1>4 DEF Confirm

\* A confirmation that has its copy goes on with it.
LEMMA Underway ==
    ASSUME Inv, NEW c \in Client, pc[c] # "idle"
    PROVE  \A s \in setups : s.by = c => s.revision <= base[c] /\ s.shown.head # shown[c].head
<1>1. \A s \in setups : s.by = c => s.revision <= base[c]  BY DEF Inv, LateOK
<1>2. \A s \in setups : s.shown.head = s.revision - 1 /\ s.revision \in 2 .. Top
  BY DEF Inv, TypeOK, PublishedAsPreviewed
<1>3. base[c] = shown[c].head /\ base[c] \in 1 .. Top  BY CopyIsMade
<1>q. QED BY <1>1, <1>2, <1>3

LEMMA CopyGoesOn ==
    ASSUME Inv, NEW c \in Client, pc[c] # "idle",
           NEW tree \in Tree, NEW phase \in Phase \ {"idle", "copied"},
           pc' = [pc EXCEPT ![c] = phase],
           work' = [work EXCEPT ![c] = tree],
           UNCHANGED <<branch, shown, base, answer, setups>>,
           phase = "applied" => tree = Made(c),
           phase # "applied" => tree = Formatted(Made(c), shown[c].paths)
    PROVE  Inv'
<1>1. base[c] = shown[c].head /\ shown[c].code = "none"  BY CopyIsMade
<1>2. base' = [base EXCEPT ![c] = shown[c].head]  BY <1>1 DEF Inv, WorkOK
<1>3. \A s \in setups : s.by = c => s.revision <= shown[c].head  BY <1>1, Underway
<1>4. Made(c) = Ready(c)  BY <1>1 DEF Made, Ready
<1>5. /\ phase = "copied" => tree = branch[shown[c].head]
      /\ phase = "applied" => tree = Ready(c)
      /\ phase \in {"checked", "committed"} => tree = Formatted(Ready(c), shown[c].paths)
  BY <1>4
<1>6. phase \in Phase \ {"idle"}  OBVIOUS
<1>7. UNCHANGED <<branch, shown, answer, setups>>  OBVIOUS
<1>q. QED BY <1>1, <1>2, <1>3, <1>5, <1>6, <1>7, WorkGoesOn

LEMMA ApplyKeeps ==
    ASSUME Inv, NEW c \in Client, Apply(c)
    PROVE  Inv'
<1>1. /\ pc[c] = "copied"
      /\ work' = [work EXCEPT ![c] = Applied(work[c], shown[c].request, shown[c].paths)]
      /\ pc' = [pc EXCEPT ![c] = "applied"]
      /\ UNCHANGED <<branch, shown, base, answer, setups>>
  BY DEF Apply, Inv, WorkOK
<1>2. work[c] = branch[base[c]]  BY <1>1 DEF Inv, WorkOK
<1>3. "applied" \in Phase \ {"idle", "copied"}  BY DEF Phase
<1>4. Made(c) \in Tree /\ Applied(work[c], shown[c].request, shown[c].paths) = Made(c)
  BY <1>1, <1>2, CopyIsMade DEF Made
<1>q. QED BY <1>1, <1>3, <1>4, CopyGoesOn

LEMMA CheckKeeps ==
    ASSUME Inv, NEW c \in Client, Check(c)
    PROVE  Inv'
<1>1. pc[c] = "applied"  BY DEF Check
<1>2. CASE Answer(c, "BEANCOUNT_CHECK_FAILED")
  BY <1>1, <1>2, Underway, AnswerKeeps
<1>3. CASE /\ work' = [work EXCEPT ![c] = Formatted(work[c], shown[c].paths)]
           /\ pc' = [pc EXCEPT ![c] = "checked"]
           /\ UNCHANGED <<branch, shown, base, answer, setups>>
  <2>1. work[c] = Made(c)  BY <1>1 DEF Inv, WorkOK
  <2>2. "checked" \in Phase \ {"idle", "copied"}  BY DEF Phase
  <2>3. Formatted(Made(c), shown[c].paths) \in Tree  BY <1>1, CopyIsMade
  <2>q. QED BY <1>1, <1>3, <2>1, <2>2, <2>3, CopyGoesOn
<1>q. QED BY <1>2, <1>3 DEF Check, Inv, WorkOK

LEMMA CommitKeeps ==
    ASSUME Inv, NEW c \in Client, Commit(c)
    PROVE  Inv'
<1>1. pc[c] = "checked"  BY DEF Commit
<1>2. CASE Answer(c, "GIT_COMMIT_FAILED")
  BY <1>1, <1>2, Underway, AnswerKeeps
<1>3. CASE /\ pc' = [pc EXCEPT ![c] = "committed"]
           /\ UNCHANGED <<branch, shown, base, work, answer, setups>>
  <2>1. work[c] = Formatted(Made(c), shown[c].paths)  BY <1>1 DEF Inv, WorkOK
  <2>2. "committed" \in Phase \ {"idle", "copied"}  BY DEF Phase
  <2>3. Formatted(Made(c), shown[c].paths) \in Tree  BY <1>1, CopyIsMade
  <2>4. work' = [work EXCEPT ![c] = work[c]]  BY <1>3 DEF Inv, WorkOK
  <2>q. QED BY <1>1, <1>3, <2>1, <2>2, <2>3, <2>4, CopyGoesOn
<1>q. QED BY <1>2, <1>3 DEF Commit

LEMMA StepInv == Inv /\ [Next]_vars => Inv'
<1> SUFFICES ASSUME Inv, [Next]_vars PROVE Inv'  OBVIOUS
<1>1. CASE Foreign
  <2>1. PICK edit \in ForeignEdits : branch' = Append(branch, [Tip EXCEPT ![edit[1]] = edit[2]])
    BY <1>1 DEF Foreign
  <2>2. Tip \in Tree  BY ElementOfSeq DEF Inv, TypeOK, ShownOK, Tip, Top
  <2>3. [Tip EXCEPT ![edit[1]] = edit[2]] \in Tree  BY <2>2, OnboardingAssumption DEF Tree
  <2>4. UNCHANGED <<pc, shown, base, work, answer, setups>>  BY <1>1 DEF Foreign
  <2>q. QED BY <2>1, <2>3, <2>4, ForeignKeeps
<1>2. ASSUME NEW c \in Client, NEW r \in Request, Preview(c, r)  PROVE Inv'
  BY <1>2, PreviewKeeps
<1>3. ASSUME NEW c \in Client, Unopened(c)  PROVE Inv'
  BY <1>3, AnswerKeeps DEF Unopened
<1>4. ASSUME NEW c \in Client, Confirming(c)  PROVE Inv'
  BY <1>4, ConfirmKeeps, ApplyKeeps, CheckKeeps, CommitKeeps DEF Confirming
<1>5. ASSUME NEW c \in Client, Push(c)  PROVE Inv'
  BY <1>5, PushKeeps
<1>6. ASSUME NEW c \in Client, PushFails(c)  PROVE Inv'
  BY <1>6, AnswerKeeps DEF PushFails
<1>7. ASSUME NEW c \in Client, Crash(c)  PROVE Inv'
  BY <1>7, AnswerKeeps DEF Crash
<1>8. CASE UNCHANGED vars
  <2>1. TypeOK' /\ LateOK' /\ AnswerOK'  BY <1>8 DEF vars, Inv, TypeOK, LateOK, AnswerOK, Top
  <2>2. ShownOK' /\ WorkOK'  BY <1>8 DEF vars, Inv, ShownOK, IsPreview, WorkOK, Made, Top
  <2>3. PublishedAsPreviewed' /\ AnswersAreTrue'
    BY <1>8 DEF vars, Inv, PublishedAsPreviewed, AnswersAreTrue, Text, Exists
  <2>q. QED BY <2>1, <2>2, <2>3 DEF Inv
<1>q. QED BY <1>1, <1>2, <1>3, <1>4, <1>5, <1>6, <1>7, <1>8 DEF Next

-----------------------------------------------------------------------------
(* Ready ledgers.                                                          *)

\* Layout is nothing the loader, the checker or discovery looks at.
LEMMA FormattedReads ==
    ASSUME NEW tree \in Tree, NEW paths, NEW q
    PROVE  Valid(Formatted(tree, paths), q) <=> Valid(tree, q)
<1> DEFINE new == Formatted(tree, paths)
<1>1. \A p \in Path : /\ Exists(new, p) <=> Exists(tree, p)
                      /\ Exists(tree, p) => new[p].includes = tree[p].includes
  BY FormattedText
<1>2. ASSUME NEW p \in Path, Exists(tree, p)
      PROVE  "broken" \in new[p].marks <=> "broken" \in tree[p].marks
  <2>1. tree[p] \in File  BY <1>2 DEF Tree, Exists
  <2>2. new[p] = tree[p] \/ new[p] = [tree[p] EXCEPT !.marks = @ \ {"ragged"}]
    BY DEF Formatted
  <2>3. [tree[p] EXCEPT !.marks = @ \ {"ragged"}].marks = tree[p].marks \ {"ragged"}
    BY <2>1 DEF File
  <2>q. QED BY <2>2, <2>3
<1> HIDE DEF new
<1>3. \A p \in Path : Exists(tree, p) => Directives(new[p]) = Directives(tree[p])
  BY <1>1 DEF Directives
<1>4. \A p \in Path : Included(new, p) = Included(tree, p)
  BY <1>1, <1>3 DEF Included, Lines
<1>5. Reach(new, q) = Reach(tree, q)
  <2>1. [x \in Path |-> Included(new, x)] = [x \in Path |-> Included(tree, x)]  BY <1>4
  <2>q. QED BY <2>1 DEF Reach
<1> DEFINE files == Reach(tree, q)
           there == {f \in files : Exists(tree, f)}
           lines(t) == UNION {{<<x, line>> : line \in Directives(t[x])} : x \in there}
<1>6. files \subseteq Path  BY DEF Reach, From
<1>7. {f \in files : Exists(new, f)} = there  BY <1>1, <1>6
<1>8. lines(new) = lines(tree)
  <2>1. \A x \in there : Directives(new[x]) = Directives(tree[x])  BY <1>3, <1>6
  <2> HIDE DEF there
  <2>q. QED BY <2>1
<1>9. /\ Valid(tree, q) <=> /\ \A x \in files : Exists(tree, x) /\ "broken" \notin tree[x].marks
                           /\ Cardinality(lines(tree)) = Cardinality(files) - 1
      /\ Valid(new, q) <=> /\ \A x \in files : Exists(new, x) /\ "broken" \notin new[x].marks
                          /\ Cardinality(lines(new)) = Cardinality(files) - 1
  <2>1. /\ Valid(tree, q) <=> /\ \A x \in files : Exists(tree, x) /\ "broken" \notin tree[x].marks
                             /\ Cardinality(lines(tree)) = Cardinality(files) - 1
    BY DEF Valid
  <2>2. Valid(new, q) <=> /\ \A x \in files : Exists(new, x) /\ "broken" \notin new[x].marks
                          /\ Cardinality(lines(new)) = Cardinality(files) - 1
    <3> DEFINE news == Reach(new, q)
               theres == {f \in news : Exists(new, f)}
               all == UNION {{<<x, line>> : line \in Directives(new[x])} : x \in theres}
    <3>1. Valid(new, q) <=> /\ \A x \in news : Exists(new, x) /\ "broken" \notin new[x].marks
                            /\ Cardinality(all) = Cardinality(news) - 1
      BY DEF Valid
    <3>2. news = files  BY <1>5
    <3>3. theres = there  BY <3>2, <1>7
    <3>4. all = lines(new)
      <4> HIDE DEF theres, there
      <4>q. QED BY <3>3
    <3> HIDE DEF news, files, all, lines
    <3>q. QED BY <3>1, <3>2, <3>4
  <2>q. QED BY <2>1, <2>2
<1> HIDE DEF lines
<1>q. QED BY <1>1, <1>2, <1>6, <1>8, <1>9 DEF new

\* A setup that checks out makes the ledger ready, formatted or not.
LEMMA ReadyWhenMade ==
    ASSUME NEW tree \in Tree, NEW r \in Request, PreviewError(tree, r) = "none",
           NEW paths, paths = SetupPaths(tree, r),
           NEW made, made = Applied(tree, r, paths), Valid(made, paths.entry),
           NEW new, new = Formatted(made, paths)
    PROVE  /\ Valid(new, paths.entry) /\ Exists(new, paths.sidecar)
           /\ Mentions(new[paths.entry], paths.sidecar)
           /\ paths.sidecar = SidecarOf[paths.entry] => Configured(new, paths.entry)
           /\ r.operation = "initialize_ledger" /\ Discoverable(paths) =>
                 Discovered(new) = Found("one_candidate", paths.entry)
<1> DEFINE e == paths.entry
           s == paths.sidecar
<1>1. /\ e \in Path /\ s \in Path /\ e # s
      /\ r.operation = "initialize_ledger" => \A p \in Path : ~Exists(tree, p)
      /\ r.operation # "initialize_ledger" => Exists(tree, e)
  BY PreviewedPaths
<1>2. made \in Tree  BY <1>1, AppliedIsATree
<1>3. new \in Tree  BY <1>2, FormattedIsATree
<1>4. /\ \A p \in Path : /\ Exists(new, p) <=> Exists(made, p)
                         /\ Exists(made, p) => new[p].includes = made[p].includes
      /\ Valid(new, e)
  BY <1>2, FormattedText, FormattedReads
<1>5. /\ Exists(made, e) /\ Exists(made, s) /\ Mentions(made[e], s)
      /\ r.operation = "initialize_ledger" =>
            /\ \A p \in Path : Exists(made, p) => p \in {e, s}
            /\ made[e] = [marks |-> {"option"}, includes |-> {<<s, "plain">>}]
            /\ made[s] = Blank
  <2>1. CASE r.operation = "initialize_ledger"
    <3>1. /\ made[e] = [marks |-> {"option"}, includes |-> {<<s, "plain">>}]
          /\ made[s] = Blank
          /\ \A p \in Path \ {e, s} : made[p] = tree[p]
      BY <2>1, <1>1 DEF Applied, Initialized, Tree
    <3>2. made[e] \in File /\ made[s] \in File
      BY <3>1, <1>1 DEF File, Blank, Mark, Spelling
    <3>3. Exists(made, e) /\ Exists(made, s)  BY <3>2, FileAssumption DEF Exists
    <3>4. Mentions(made[e], s)  BY <3>1 DEF Mentions
    <3>5. \A p \in Path : Exists(made, p) => p \in {e, s}  BY <2>1, <1>1, <3>1 DEF Exists
    <3>q. QED BY <3>1, <3>3, <3>4, <3>5
  <2>2. CASE r.operation # "initialize_ledger"
    <3>1. made = Installed(tree, paths)  BY <2>2 DEF Applied
    <3>2. tree[e] \in File  BY <2>2, <1>1 DEF Tree, Exists
    <3>3. Blank \in File  BY DEF Blank, File
    <3>4. made[s] \in File
      <4>1. CASE ~Exists(tree, s)  BY <1>1, <3>1, <3>3, <4>1 DEF Installed
      <4>2. CASE Exists(tree, s)
        <5>1. made[s] = tree[s]  BY <1>1, <3>1, <4>2 DEF Installed
        <5>q. QED BY <5>1, <4>2, <1>1 DEF Tree, Exists
      <4>q. QED BY <4>1, <4>2
    <3>5. made[e] \in File /\ Mentions(made[e], s)
      <4>1. CASE Mentions(tree[e], s)
        <5>1. made[e] = tree[e]  BY <1>1, <3>1, <4>1 DEF Installed
        <5>q. QED BY <5>1, <4>1, <3>2
      <4>2. CASE ~Mentions(tree[e], s)
        <5>1. made[e] = [tree[e] EXCEPT !.includes = @ \cup {<<s, "plain">>}]
          BY <1>1, <3>1, <4>2 DEF Installed
        <5>2. <<s, "plain">> \in Path \X Spelling  BY <1>1 DEF Spelling
        <5>3. made[e] \in File /\ <<s, "plain">> \in made[e].includes
          BY <3>2, <5>1, <5>2 DEF File
        <5>q. QED BY <5>3 DEF Mentions
      <4>q. QED BY <4>1, <4>2
    <3>q. QED BY <2>2, <3>4, <3>5, FileAssumption DEF Exists
  <2>q. QED BY <2>1, <2>2
<1>6. Exists(new, e) /\ Exists(new, s) /\ Mentions(new[e], s)
  BY <1>1, <1>4, <1>5 DEF Mentions
<1>7. s = SidecarOf[e] => Configured(new, e)  BY <1>6 DEF Configured
<1>8. ASSUME r.operation = "initialize_ledger", Discoverable(paths)
      PROVE  Discovered(new) = Found("one_candidate", e)
  <2>1. Clean(tree)  BY <1>1, <1>8 DEF Clean
  <2>2. \A p \in Path : Exists(new, p) => p \in {e, s}  BY <1>4, <1>5, <1>8
  <2>3. new[e].includes = {<<s, "plain">>} /\ new[s].includes = {}
    BY <1>1, <1>4, <1>5, <1>8 DEF Blank
  <2>4. Lines(new, e) # {} /\ Lines(new, s) = {}
    <3>1. <<s, "plain">> \in Directives(new[e]) /\ Directives(new[s]) = {}
      BY <2>3 DEF Directives
    <3>q. QED BY <1>6, <3>1 DEF Lines
  <2>5. new[e].marks = {"option"} /\ new[s].marks = {}
    <3>1. /\ new[e] = [made[e] EXCEPT !.marks = @ \ {"ragged"}]
          /\ new[s] = [made[s] EXCEPT !.marks = @ \ {"ragged"}]
      BY <1>1, <1>5 DEF Formatted
    <3>q. QED BY <3>1, <1>5, <1>8 DEF Blank
  <2>q. QED BY <1>1, <1>3, <1>4, <1>6, <1>8, <2>1, <2>2, <2>4, <2>5, InitializedIsFound
<1>q. QED BY <1>4, <1>6, <1>7, <1>8

\* What a setup made of the revision it was previewed on.
Landing(s) == Applied(branch[s.shown.head], s.shown.request, s.shown.paths)

Landed(s) ==
    /\ IsPreview(s.shown)
    /\ s.revision = s.shown.head + 1 /\ s.revision \in 1 .. Top
    /\ Valid(Landing(s), s.shown.paths.entry)
    /\ branch[s.revision] = Formatted(Landing(s), s.shown.paths)

\* A copy that is past bean-check has passed it, and so has what was pushed.
ReadyInv ==
    /\ \A c \in Client : pc[c] \in {"checked", "committed"} => Valid(Made(c), shown[c].paths.entry)
    /\ \A s \in setups : Landed(s)

LEMMA ReadyStays ==
    ASSUME Inv, ReadyInv, NEW tree \in Tree, branch' = Append(branch, tree) \/ branch' = branch
    PROVE  /\ \A s \in setups : Landed(s)'
           /\ \A c \in Client : pc[c] # "idle" => branch'[base[c]] = branch[base[c]]
<1>1. /\ \A s : IsPreview(s) => IsPreview(s)'
      /\ \A s \in setups : branch'[s.revision] = branch[s.revision]
  <2>1. CASE branch' = Append(branch, tree)  BY <2>1, PreviewsStay
  <2>2. CASE branch' = branch  BY <2>2 DEF IsPreview, Top
  <2>q. QED BY <2>1, <2>2
<1>2. Top \in Nat /\ Top' \in Nat /\ Top <= Top' /\ \A h \in 1 .. Top : branch'[h] = branch[h]
  <2>1. CASE branch' = Append(branch, tree)
    <3>1. /\ Top' = Top + 1 /\ Top \in Nat
          /\ \A h \in 1 .. Top : branch'[h] = branch[h]
      BY <2>1, BranchGrows DEF Inv, TypeOK
    <3>q. QED BY <3>1
  <2>2. CASE branch' = branch
    <3>1. Top \in Nat  BY LenProperties DEF Inv, TypeOK, Top
    <3>q. QED BY <2>2, <3>1 DEF Top
  <2>q. QED BY <2>1, <2>2
<1>3. ASSUME NEW s \in setups PROVE Landed(s)'
  <2>1. Landed(s)  BY DEF ReadyInv
  <2>2. s.shown.head \in 1 .. Top  BY <2>1 DEF Landed, IsPreview
  <2>3. branch'[s.shown.head] = branch[s.shown.head]  BY <1>2, <2>2
  <2>4. Landing(s)' = Landing(s)  BY <2>3 DEF Landing
  <2>5. s.revision \in 1 .. Top'  BY <1>2, <2>1 DEF Landed
  <2>6. IsPreview(s.shown)'  BY <1>1, <2>1 DEF Landed
  <2>q. QED BY <1>1, <2>1, <2>4, <2>5, <2>6 DEF Landed
<1>4. \A c \in Client : pc[c] # "idle" => branch'[base[c]] = branch[base[c]]
  BY <1>2, CopyIsMade
<1>q. QED BY <1>3, <1>4

\* A step of one client, or of none, that makes no setup.
LEMMA ReadyKept ==
    ASSUME Inv, ReadyInv, NEW tree \in Tree, branch' = Append(branch, tree) \/ branch' = branch,
           setups' = setups,
           \A c \in Client :
               \/ pc'[c] \notin {"checked", "committed"}
               \/ pc[c] # "idle" /\ shown'[c] = shown[c] /\ base'[c] = base[c]
                  /\ (pc[c] \in {"checked", "committed"} \/ Valid(Made(c), shown[c].paths.entry))
    PROVE  ReadyInv'
<1>1. /\ \A s \in setups : Landed(s)'
      /\ \A c \in Client : pc[c] # "idle" => branch'[base[c]] = branch[base[c]]
  BY ReadyStays
<1>2. ASSUME NEW c \in Client, pc'[c] \in {"checked", "committed"}
      PROVE  Valid(Made(c)', shown'[c].paths.entry)
  <2>1. /\ pc[c] # "idle" /\ shown'[c] = shown[c] /\ base'[c] = base[c]
        /\ Valid(Made(c), shown[c].paths.entry)
    BY <1>2 DEF ReadyInv
  <2>2. Made(c)' = Made(c)  BY <1>1, <2>1 DEF Made
  <2>q. QED BY <2>1, <2>2
<1>q. QED BY <1>1, <1>2 DEF ReadyInv

LEMMA ReadyAnswer ==
    ASSUME Inv, ReadyInv, NEW c \in Client, NEW code, Answer(c, code)
    PROVE  ReadyInv'
<1>1. /\ pc' = [pc EXCEPT ![c] = "idle"] /\ base' = [base EXCEPT ![c] = 0]
      /\ UNCHANGED <<branch, shown, setups>>
  BY DEF Answer, Close
<1>2. \A d \in Client :
          \/ pc'[d] \notin {"checked", "committed"}
          \/ pc[d] # "idle" /\ shown'[d] = shown[d] /\ base'[d] = base[d]
             /\ (pc[d] \in {"checked", "committed"} \/ Valid(Made(d), shown[d].paths.entry))
  BY <1>1 DEF Inv, TypeOK, WorkOK
<1>3. NoWork \in Tree  BY DEF NoWork, Tree
<1>4. branch' = branch /\ setups' = setups  BY <1>1
<1>q. QED BY <1>2, <1>3, <1>4, ReadyKept

LEMMA ReadyWork ==
    ASSUME Inv, ReadyInv, NEW c \in Client, NEW phase \in Phase,
           pc' = [pc EXCEPT ![c] = phase], UNCHANGED <<branch, shown, setups>>,
           phase \in {"checked", "committed"} =>
               /\ UNCHANGED base /\ pc[c] # "idle"
               /\ pc[c] \in {"checked", "committed"} \/ Valid(Made(c), shown[c].paths.entry),
           \A d \in Client \ {c} : base'[d] = base[d]
    PROVE  ReadyInv'
<1>1. \A d \in Client :
          \/ pc'[d] \notin {"checked", "committed"}
          \/ pc[d] # "idle" /\ shown'[d] = shown[d] /\ base'[d] = base[d]
             /\ (pc[d] \in {"checked", "committed"} \/ Valid(Made(d), shown[d].paths.entry))
  BY DEF Inv, TypeOK, WorkOK
<1>2. NoWork \in Tree  BY DEF NoWork, Tree
<1>q. QED BY <1>1, <1>2, ReadyKept

LEMMA ReadyPush ==
    ASSUME Inv, ReadyInv, Inv', NEW c \in Client, Push(c)
    PROVE  ReadyInv'
<1>0. PICK s : s = [by |-> c, revision |-> Top + 1, shown |-> shown[c]]  OBVIOUS
<1>1. /\ pc[c] = "committed" /\ Top = base[c]
      /\ branch' = Append(branch, work[c])
      /\ setups' = setups \cup {s}
      /\ pc' = [pc EXCEPT ![c] = "idle"]
      /\ base' = [base EXCEPT ![c] = 0]
      /\ UNCHANGED shown
  BY <1>0 DEF Push, Reaches, Close
<1>2. /\ work[c] \in Tree
      /\ work[c] = Formatted(Made(c), shown[c].paths)
      /\ IsPreview(shown[c]) /\ shown[c].head = base[c]
      /\ Valid(Made(c), shown[c].paths.entry)
  BY <1>1, CopyIsMade DEF Inv, WorkOK, ReadyInv
<1>3. /\ \A x \in setups : Landed(x)'
      /\ \A d \in Client : pc[d] # "idle" => branch'[base[d]] = branch[base[d]]
  BY <1>1, <1>2, ReadyStays
<1>4. /\ Top' = Top + 1 /\ Top \in Nat /\ branch'[Top + 1] = work[c]
      /\ \A x : IsPreview(x) => IsPreview(x)'
  BY <1>1, <1>2, BranchGrows, PreviewsStay DEF Inv, TypeOK
<1>5. /\ s.shown = shown[c] /\ s.revision = Top + 1  BY <1>0
<1>6. Landed(s)'
  <2>1. branch'[s.shown.head] = branch[base[c]]  BY <1>1, <1>2, <1>3, <1>5
  <2>2. Landing(s)' = Made(c)  BY <1>2, <1>5, <2>1 DEF Landing, Made
  <2>3. IsPreview(s.shown)'
    <3>1. \A x : x = s.shown => IsPreview(x)'  BY <1>2, <1>4, <1>5
    <3>q. QED BY <3>1
  <2>4. s.revision = s.shown.head + 1 /\ s.revision \in 1 .. Top'
    BY <1>1, <1>2, <1>4, <1>5
  <2>5. branch'[s.revision] = work[c]  BY <1>4, <1>5
  <2>q. QED BY <1>2, <1>5, <2>2, <2>3, <2>4, <2>5 DEF Landed
<1>7. ASSUME NEW d \in Client, pc'[d] \in {"checked", "committed"}
      PROVE  Valid(Made(d)', shown'[d].paths.entry)
  <2>1. d # c /\ pc[d] = pc'[d] /\ base'[d] = base[d] /\ shown'[d] = shown[d]
    BY <1>1, <1>7 DEF Inv, TypeOK, WorkOK
  <2>2. Made(d)' = Made(d)  BY <1>3, <1>7, <2>1 DEF Made
  <2>q. QED BY <1>7, <2>1, <2>2 DEF ReadyInv
<1>q. QED BY <1>1, <1>3, <1>6, <1>7 DEF ReadyInv

LEMMA ReadyStep == Inv /\ ReadyInv /\ [Next]_vars => ReadyInv'
<1> SUFFICES ASSUME Inv, ReadyInv, [Next]_vars PROVE ReadyInv'  OBVIOUS
<1>0. NoWork \in Tree  BY DEF NoWork, Tree
<1>1. CASE Foreign
  <2>1. PICK edit \in ForeignEdits : branch' = Append(branch, [Tip EXCEPT ![edit[1]] = edit[2]])
    BY <1>1 DEF Foreign
  <2>2. Tip \in Tree  BY ElementOfSeq DEF Inv, TypeOK, ShownOK, Tip, Top
  <2>3. [Tip EXCEPT ![edit[1]] = edit[2]] \in Tree  BY <2>2, OnboardingAssumption DEF Tree
  <2>4. UNCHANGED <<pc, shown, base, work, answer, setups>>  BY <1>1 DEF Foreign
  <2>q. QED BY <2>1, <2>3, <2>4, ReadyKept
<1>2. ASSUME NEW c \in Client, NEW r \in Request, Preview(c, r)  PROVE ReadyInv'
  <2>1. pc[c] = "idle" /\ UNCHANGED <<branch, pc, base, work, setups>>
        /\ \A d \in Client \ {c} : shown'[d] = shown[d]
    BY <1>2 DEF Preview, Inv, ShownOK
  <2>2. \A d \in Client :
          \/ pc'[d] \notin {"checked", "committed"}
          \/ pc[d] # "idle" /\ shown'[d] = shown[d] /\ base'[d] = base[d]
             /\ (pc[d] \in {"checked", "committed"} \/ Valid(Made(d), shown[d].paths.entry))
    BY <2>1
  <2>q. QED BY <1>0, <2>1, <2>2, ReadyKept
<1>3. ASSUME NEW c \in Client, Unopened(c)  PROVE ReadyInv'
  BY <1>3, ReadyAnswer DEF Unopened
<1>4. ASSUME NEW c \in Client, Confirm(c)  PROVE ReadyInv'
  <2>1. CASE \E code : Answer(c, code)  BY <2>1, ReadyAnswer
  <2>2. CASE /\ base' = [base EXCEPT ![c] = Top]
             /\ pc' = [pc EXCEPT ![c] = "copied"]
             /\ UNCHANGED <<branch, shown, answer, setups>>
    <3>1. "copied" \in Phase /\ \A d \in Client \ {c} : base'[d] = base[d]
      BY <2>2 DEF Phase, Inv, WorkOK
    <3>q. QED BY <2>2, <3>1, ReadyWork
  <2>q. QED BY <1>4, <2>1, <2>2 DEF Confirm
<1>5. ASSUME NEW c \in Client, Apply(c)  PROVE ReadyInv'
  <2>1. "applied" \in Phase  BY DEF Phase
  <2>q. QED BY <1>5, <2>1, ReadyWork DEF Apply
<1>6. ASSUME NEW c \in Client, Check(c)  PROVE ReadyInv'
  <2>1. CASE \E code : Answer(c, code)  BY <2>1, ReadyAnswer
  <2>2. CASE /\ Valid(work[c], shown[c].paths.entry)
             /\ pc' = [pc EXCEPT ![c] = "checked"]
             /\ UNCHANGED <<branch, shown, base, answer, setups>>
    <3>1. "checked" \in Phase  BY DEF Phase
    <3>2. pc[c] = "applied" /\ work[c] = Made(c)  BY <1>6 DEF Check, Inv, WorkOK
    <3>q. QED BY <2>2, <3>1, <3>2, ReadyWork
  <2>q. QED BY <1>6, <2>1, <2>2 DEF Check
<1>7. ASSUME NEW c \in Client, Commit(c)  PROVE ReadyInv'
  <2>1. CASE \E code : Answer(c, code)  BY <2>1, ReadyAnswer
  <2>2. CASE /\ pc' = [pc EXCEPT ![c] = "committed"]
             /\ UNCHANGED <<branch, shown, base, work, answer, setups>>
    <3>1. "committed" \in Phase  BY DEF Phase
    <3>2. pc[c] = "checked"  BY <1>7 DEF Commit
    <3>q. QED BY <2>2, <3>1, <3>2, ReadyWork
  <2>q. QED BY <1>7, <2>1, <2>2 DEF Commit
<1>8. ASSUME NEW c \in Client, Push(c)  PROVE ReadyInv'
  <2>1. [Next]_vars  OBVIOUS
  <2>2. Inv'  BY <2>1, StepInv
  <2>q. QED BY <1>8, <2>2, ReadyPush
<1>9. ASSUME NEW c \in Client, PushFails(c)  PROVE ReadyInv'
  BY <1>9, ReadyAnswer DEF PushFails
<1>10. ASSUME NEW c \in Client, Crash(c)  PROVE ReadyInv'
  BY <1>10, ReadyAnswer DEF Crash
<1>11. CASE UNCHANGED vars
  <2>1. UNCHANGED <<branch, pc, shown, base, setups>>  BY <1>11 DEF vars
  <2>2. \A d \in Client :
          \/ pc'[d] \notin {"checked", "committed"}
          \/ pc[d] # "idle" /\ shown'[d] = shown[d] /\ base'[d] = base[d]
             /\ (pc[d] \in {"checked", "committed"} \/ Valid(Made(d), shown[d].paths.entry))
    BY <2>1
  <2>q. QED BY <1>0, <2>1, <2>2, ReadyKept
<1>q. QED BY <1>1, <1>2, <1>3, <1>4, <1>5, <1>6, <1>7, <1>8, <1>9, <1>10, <1>11 DEF Next, Confirming

-----------------------------------------------------------------------------
(* The theorems.                                                           *)

\* The inductive invariant: what each confirmation works on at each phase, and
\* what it has not done yet.
THEOREM SetupInvariant == Spec => []Inv
  BY InitInv, StepInv, PTL DEF Spec

\* The types of the onboarding, for any repository and any number of clients.
THEOREM SetupTypes == Spec => []TypeOK
<1>1. Inv => TypeOK  BY DEF Inv
<1>q. QED BY <1>1, SetupInvariant, PTL

\* A setup that lands follows the very revision its client was shown, creates
\* and modifies what the preview listed, and changes no other text.
THEOREM SetupsAreAsPreviewed == Spec => []PublishedAsPreviewed
<1>1. Inv => PublishedAsPreviewed  BY DEF Inv
<1>q. QED BY <1>1, SetupInvariant, PTL

\* A client that is told of a success has its setup on the branch, and one that
\* is told of a failed check or commit has none there from that preview.
THEOREM ClientsAreToldTheTruth == Spec => []AnswersAreTrue
<1>1. Inv => AnswersAreTrue  BY DEF Inv
<1>q. QED BY <1>1, SetupInvariant, PTL
\* A setup that reached the branch was previewed on the revision before it,
\* passed bean-check as it was made, and was formatted and nothing else.
THEOREM ReadyInvariant == Spec => [](Inv /\ ReadyInv)
<1>1. Init => ReadyInv  BY DEF Init, ReadyInv
<1>q. QED BY InitInv, StepInv, <1>1, ReadyStep, PTL DEF Spec

\* Every setup that lands leaves a ledger whose entry passes bean-check and names
\* its sidecar, and an initialized one is what discovery then picks
\* (setup.py confirm_setup, discovery.py discover).
THEOREM SetupsMakeReady == Spec => []SetupIsReady
<1>1. Inv /\ ReadyInv => SetupIsReady
  <2> SUFFICES ASSUME Inv, ReadyInv, NEW s \in setups
               PROVE  LET new == branch[s.revision]
                          paths == s.shown.paths
                      IN  /\ Valid(new, paths.entry) /\ Exists(new, paths.sidecar)
                          /\ Mentions(new[paths.entry], paths.sidecar)
                          /\ paths.sidecar = SidecarOf[paths.entry] => Configured(new, paths.entry)
                          /\ s.shown.request.operation = "initialize_ledger" /\ Discoverable(paths) =>
                                Discovered(new) = Found("one_candidate", paths.entry)
    BY DEF SetupIsReady
  <2>1. Landed(s)  BY DEF ReadyInv
  <2>2. s.shown.head \in 1 .. Top  BY <2>1 DEF Landed, IsPreview
  <2>3. branch[s.shown.head] \in Tree  BY <2>2, ElementOfSeq DEF Inv, TypeOK, Top
  <2> DEFINE tree == branch[s.shown.head]
             r == s.shown.request
             paths == s.shown.paths
  <2>4. /\ r \in Request /\ PreviewError(tree, r) = "none" /\ paths = SetupPaths(tree, r)
        /\ Landing(s) = Applied(tree, r, paths) /\ Valid(Landing(s), paths.entry)
        /\ branch[s.revision] = Formatted(Landing(s), paths)
    BY <2>1 DEF Landed, IsPreview, Landing
  <2>5. tree \in Tree  BY <2>3
  <2> HIDE DEF tree
  <2>q. QED BY <2>4, <2>5, ReadyWhenMade
<1>q. QED BY <1>1, ReadyInvariant, PTL

\* Between confirmations and during them, the plugin policy's walk of whatever is
\* on the branch is exact, for any include graph, cycles and wildcards included,
\* and any bounds; and what the loader then meets that the policy would not have
\* allowed lies in a ledger with a wildcard in a directory part
\* (plugin_policy.py _relative_include, enforce_plugin_policy).
THEOREM ThePolicyIsExact == Spec => []PolicyIsExact
<1>1. Inv => PolicyIsExact
  <2> SUFFICES ASSUME Inv, NEW p \in Ledger, Exists(Tip, p)
               PROVE  LET files == Walked(Tip, p)
                          clear == \A q \in files : ~Rejected(Tip, q)
                      IN  /\ Accepted(Tip, p) =>
                                /\ clear /\ Cardinality(files) <= MaxFiles /\ ~TooMuch(Tip, files)
                                /\ \A q \in Reach(Tip, p) :
                                      Exists(Tip, q) /\ "plugin" \in Tip[q].marks =>
                                         \E x \in Reach(Tip, p) : Overlooks(Tip, x)
                          /\ clear /\ Cardinality(files) < MaxFiles /\ ~TooMuch(Tip, files) =>
                                Accepted(Tip, p)
    BY DEF PolicyIsExact
  <2>1. Tip \in Tree /\ p \in Path
    BY ElementOfSeq, RepositoryAssumption DEF Inv, TypeOK, ShownOK, Tip, Top
  <2>q. QED BY <2>1, PolicyExact
<1>q. QED BY <1>1, SetupInvariant, PTL

\* What discovery proposes of whatever is on the branch is valid and ahead of its
\* rivals, and what it calls clean can be initialized (discovery.py discover).
THEOREM DiscoveryPicksTheBest == Spec => []DiscoveryIsSound
<1>1. Inv => DiscoveryIsSound
  <2> SUFFICES ASSUME Inv PROVE DiscoveryIsSound  OBVIOUS
  <2>1. Tip \in Tree
    BY ElementOfSeq DEF Inv, TypeOK, ShownOK, Tip, Top
  <2>q. QED BY <2>1, PickIsBest, CleanMayBeInitialized DEF DiscoveryIsSound
<1>q. QED BY <1>1, SetupInvariant, PTL
=============================================================================
