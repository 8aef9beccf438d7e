---------------------------- MODULE WorkspaceCache ----------------------------
(***************************************************************************)
(* One entry of the clone cache under /tmp/bean_cache and the agent-core   *)
(* processes that use it.  A request refreshes or re-clones the entry      *)
(* under a file lock, gives the lock back, and only then copies the entry  *)
(* into a workspace of its own.  A process that starts sweeps expired      *)
(* entries without taking the lock.                                        *)
(*                                                                         *)
(* A checkout is the git directory and the tracked files; each holds some  *)
(* revision of the remote branch, and every revision changes every file,   *)
(* so that a checkout made of two revisions can be told from either.  Git, *)
(* rmtree and copytree work on one part at a time, in any order.           *)
(***************************************************************************)
EXTENDS Naturals, FiniteSets

CONSTANTS
    Process,     \* agent-core processes sharing the cache
    File,        \* the tracked files
    TTL,         \* WORKSPACE_TTL_SECONDS: 0, Forever, or a number of seconds
    Forever,     \* the setting -1
    Absent,      \* there is no such part, file or time stamp
    MaxRev,      \* bound: revisions of the remote are numbered 1 .. MaxRev
    MaxCrashes   \* bound: how often a process is killed

ASSUME CacheAssumption ==
    /\ TTL \in Nat \/ TTL = Forever
    /\ Absent \notin Nat \cup Process
    /\ MaxRev \in Nat \ {0}
    /\ MaxCrashes \in Nat
    /\ "git" \notin File

VARIABLES
    remote,   \* the newest revision of the remote branch
    cache,    \* the entry: what each part of the checkout holds
    jammed,   \* a killed git left the entry unusable: index.lock, half a clone
    meta,     \* seconds since the .meta file was written, up to TTL
    holder,   \* the process whose lock is on the current lock file
    pc,       \* where each process is
    asked,    \* the remote revision when its request came in
    fetched,  \* the revision it is checking out
    copy,     \* its workspace
    crashes

entry == <<cache, jammed, meta>>
vars  == <<remote, cache, jammed, meta, holder, pc, asked, fetched, copy, crashes>>

Nobody == Absent
Part   == File \cup {"git"}
Rev    == 1 .. MaxRev
Unborn == 0   \* a git directory without a commit yet
Held   == Rev \cup {Absent, Unborn}
Copies == UNION {[parts -> Held] : parts \in SUBSET Part}

\* The longest age that matters: an older entry is expired all the same.
Aged == IF TTL = Forever THEN 0 ELSE TTL

Git      == {"download", "fetch", "checkout", "sethead"}
Critical == {"decide", "remove", "clone", "touch"} \cup Git
Sweeping == {"expired", "orphan"}
Phase    == {"down", "sweep", "idle", "waiting", "copying", "ready"}
            \cup Sweeping \cup Critical

NothingThere == \A part \in Part : cache[part] = Absent

-----------------------------------------------------------------------------

Goto(p, phase) == pc' = [pc EXCEPT ![p] = phase]

\* Leaving the with-block; a lock file that was unlinked meanwhile is not ours.
Unlock(p) == holder' = IF holder = p THEN Nobody ELSE holder

\* A request is over and what it asked for and fetched goes with it.
Forget(p) ==
    /\ asked' = [asked EXCEPT ![p] = 1]
    /\ fetched' = [fetched EXCEPT ![p] = 1]

\* Somebody pushes to the remote.
Advance ==
    /\ remote < MaxRev
    /\ remote' = remote + 1
    /\ UNCHANGED <<cache, jammed, meta, holder, pc, asked, fetched, copy, crashes>>

Tick ==
    /\ meta # Absent /\ meta < Aged
    /\ meta' = meta + 1
    /\ UNCHANGED <<remote, cache, jammed, holder, pc, asked, fetched, copy, crashes>>

-----------------------------------------------------------------------------
(* acquire                                                                 *)

Ask(p) ==
    /\ pc[p] = "idle"
    /\ Goto(p, "waiting")
    /\ asked' = [asked EXCEPT ![p] = remote]
    /\ UNCHANGED <<remote, cache, jammed, meta, holder, fetched, copy, crashes>>

Lock(p) ==
    /\ pc[p] = "waiting" /\ holder = Nobody
    /\ holder' = p
    /\ Goto(p, "decide")
    /\ UNCHANGED <<remote, cache, jammed, meta, asked, fetched, copy, crashes>>

\* mutant: a lock that waits without a timeout
GiveUpNever(p) == FALSE /\ UNCHANGED vars

\* mutant: the timeout is taken for the lock
GoAhead(p) ==
    /\ pc[p] = "waiting" /\ holder # Nobody
    /\ Goto(p, "decide")
    /\ UNCHANGED <<remote, cache, jammed, meta, holder, asked, fetched, copy, crashes>>

\* Thirty seconds pass while somebody else has the lock.
GiveUp(p) ==
    /\ pc[p] = "waiting" /\ holder # Nobody
    /\ Goto(p, "idle")
    /\ Forget(p)
    /\ UNCHANGED <<remote, cache, jammed, meta, holder, copy, crashes>>

IsValid ==
    CASE TTL = 0       -> FALSE
      [] TTL = Forever -> cache["git"] # Absent
      [] OTHER         -> meta # Absent /\ cache["git"] # Absent /\ meta < TTL

\* mutant: a valid entry is not refreshed
DecideHit(p) ==
    /\ pc[p] = "decide"
    /\ Goto(p, IF IsValid THEN "touch" ELSE IF NothingThere THEN "clone" ELSE "remove")
    /\ UNCHANGED <<remote, cache, jammed, meta, holder, asked, fetched, copy, crashes>>

Decide(p) ==
    /\ pc[p] = "decide"
    /\ Goto(p, IF IsValid THEN "fetch" ELSE IF NothingThere THEN "clone" ELSE "remove")
    /\ UNCHANGED <<remote, cache, jammed, meta, holder, asked, fetched, copy, crashes>>

\* rmtree deletes one part; what was wrong with the entry goes with it.
Delete(part) ==
    /\ cache[part] # Absent
    /\ cache' = [cache EXCEPT ![part] = Absent]
    /\ jammed' = (jammed /\ part # "git")

Remove(p) ==
    /\ pc[p] = "remove"
    /\ \/ \E part \in Part : Delete(part) /\ UNCHANGED pc
       \/ NothingThere /\ Goto(p, "clone") /\ UNCHANGED <<cache, jammed>>
    /\ UNCHANGED <<remote, meta, holder, asked, fetched, copy, crashes>>

\* git clone first makes the git directory, then fetches.
Clone(p) ==
    /\ pc[p] = "clone"
    /\ cache' = [cache EXCEPT !["git"] = Unborn]
    /\ jammed' = FALSE
    /\ Goto(p, "download")
    /\ UNCHANGED <<remote, meta, holder, asked, fetched, copy, crashes>>

\* git pull, or fetch and reset when that fails; neither gets past a jam.  A
\* pull that finds nothing new leaves the working tree as it is, files that a
\* sweep deleted included.
Fetch(p) ==
    /\ pc[p] \in {"download", "fetch"} /\ ~jammed /\ cache["git"] # Absent
    /\ fetched' = [fetched EXCEPT ![p] = remote]
    /\ \/ Goto(p, "checkout")
       \/ pc[p] = "fetch" /\ cache["git"] = remote /\ Goto(p, "touch")
    /\ UNCHANGED <<remote, cache, jammed, meta, holder, asked, copy, crashes>>

\* The working tree is brought to the fetched revision file by file.
Checkout(p) ==
    /\ pc[p] = "checkout" /\ cache["git"] # Absent
    /\ \/ \E f \in File : /\ cache[f] # fetched[p]
                          /\ cache' = [cache EXCEPT ![f] = fetched[p]]
                          /\ UNCHANGED pc
       \/ /\ \A f \in File : cache[f] = fetched[p]
          /\ Goto(p, "sethead")
          /\ UNCHANGED cache
    /\ UNCHANGED <<remote, jammed, meta, holder, asked, fetched, copy, crashes>>

SetHead(p) ==
    /\ pc[p] = "sethead" /\ cache["git"] # Absent
    /\ cache' = [cache EXCEPT !["git"] = fetched[p]]
    /\ Goto(p, "touch")
    /\ UNCHANGED <<remote, jammed, meta, holder, asked, fetched, copy, crashes>>

\* mutant: the time stamp is written whatever happened
FailTouches(p) ==
    /\ pc[p] \in {"download", "fetch"}
    /\ meta' = 0
    /\ Goto(p, "idle")
    /\ Unlock(p)
    /\ Forget(p)
    /\ UNCHANGED <<remote, cache, jammed, copy, crashes>>

\* mutant: the lock is not given back on an error
FailLocked(p) ==
    /\ pc[p] \in {"download", "fetch"}
    /\ Goto(p, "idle")
    /\ Forget(p)
    /\ UNCHANGED <<remote, cache, jammed, meta, holder, copy, crashes>>

\* A git command fails, for the network or because its directory is gone: the
\* request answers with an error and the time stamp stays.  A clone that fails
\* removes what it made.
Fail(p) ==
    /\ \/ pc[p] \in {"download", "fetch"}
       \/ pc[p] \in Git /\ cache["git"] = Absent
    /\ cache' = IF pc[p] = "download" THEN [part \in Part |-> Absent] ELSE cache
    /\ jammed' = (jammed /\ pc[p] # "download")
    /\ Goto(p, "idle")
    /\ Unlock(p)
    /\ Forget(p)
    /\ UNCHANGED <<remote, meta, copy, crashes>>

\* The time stamp is written and the lock given back.
Touch(p) ==
    /\ pc[p] = "touch"
    /\ meta' = 0
    /\ Unlock(p)
    /\ copy' = [copy EXCEPT ![p] = [part \in {} |-> Absent]]
    /\ Goto(p, "copying")
    /\ UNCHANGED <<remote, cache, jammed, asked, fetched, crashes>>

-----------------------------------------------------------------------------
(* RequestWorkspaceLifecycle.open: the copy, made without the lock.        *)

CopyPart(p) ==
    /\ pc[p] = "copying"
    /\ \E part \in Part \ DOMAIN copy[p] :
          copy' = [copy EXCEPT ![p] =
                      [q \in DOMAIN @ \cup {part} |->
                          IF q = part THEN cache[part] ELSE @[q]]]
    /\ UNCHANGED <<remote, cache, jammed, meta, holder, pc, asked, fetched, crashes>>

\* A part that was listed but is gone when it is read makes copytree raise.
CopyFails(p) ==
    /\ pc[p] = "copying"
    /\ \E part \in Part : cache[part] = Absent
    /\ Goto(p, "idle")
    /\ copy' = [copy EXCEPT ![p] = [part \in {} |-> Absent]]
    /\ Forget(p)
    /\ UNCHANGED <<remote, cache, jammed, meta, holder, crashes>>

Copied(p) ==
    /\ pc[p] = "copying" /\ DOMAIN copy[p] = Part
    /\ Goto(p, "ready")
    /\ UNCHANGED <<remote, cache, jammed, meta, holder, asked, fetched, copy, crashes>>

\* The request ends and its workspace is destroyed.
Destroy(p) ==
    /\ pc[p] = "ready"
    /\ Goto(p, "idle")
    /\ copy' = [copy EXCEPT ![p] = [part \in {} |-> Absent]]
    /\ Forget(p)
    /\ UNCHANGED <<remote, cache, jammed, meta, holder, crashes>>

-----------------------------------------------------------------------------
(* Processes start, sweep the cache and are killed.                        *)

Start(p) ==
    /\ pc[p] = "down"
    /\ Goto(p, "sweep")
    /\ UNCHANGED <<remote, cache, jammed, meta, holder, asked, fetched, copy, crashes>>

\* What cleanup_expired makes of the entry.
Verdict ==
    CASE TTL = 0                       -> "expired"
      [] TTL = Forever \/ NothingThere -> "idle"
      [] meta = Absent                 -> "orphan"
      [] OTHER                         -> IF meta >= TTL THEN "expired" ELSE "idle"

Sweep(p) ==
    /\ pc[p] = "sweep"
    /\ Goto(p, Verdict)
    /\ UNCHANGED <<remote, cache, jammed, meta, holder, asked, fetched, copy, crashes>>

\* The checkout goes part by part, then the time stamp it was judged by; with
\* TTL 0 the lock file too, whoever holds it.  Nothing but another process
\* keeps rmtree from deleting a part.
SweepAway(p) ==
    /\ pc[p] \in Sweeping
    /\ \/ /\ \E part \in Part : Delete(part)
          /\ UNCHANGED <<meta, holder, pc>>
       \/ /\ NothingThere
          /\ meta' = IF pc[p] = "expired" THEN Absent ELSE meta
          /\ holder' = IF TTL = 0 THEN Nobody ELSE holder
          /\ Goto(p, "idle")
          /\ UNCHANGED <<cache, jammed>>
    /\ UNCHANGED <<remote, asked, fetched, copy, crashes>>

\* A kill while git works may leave the entry jammed.  The lock dies with p.
Crash(p) ==
    /\ pc[p] # "down"
    /\ crashes < MaxCrashes
    /\ crashes' = crashes + 1
    /\ \/ UNCHANGED jammed
       \/ pc[p] \in Git /\ cache["git"] # Absent /\ jammed' = TRUE
    /\ Unlock(p)
    /\ Goto(p, "down")
    /\ copy' = [copy EXCEPT ![p] = [part \in {} |-> Absent]]
    /\ Forget(p)
    /\ UNCHANGED <<remote, cache, meta>>

-----------------------------------------------------------------------------

Init ==
    /\ remote = 1
    /\ cache = [part \in Part |-> Absent]
    /\ jammed = FALSE
    /\ meta = Absent
    /\ holder = Nobody
    /\ pc = [p \in Process |-> "down"]
    /\ asked = [p \in Process |-> 1]
    /\ fetched = [p \in Process |-> 1]
    /\ copy = [p \in Process |-> [part \in {} |-> Absent]]
    /\ crashes = 0

\* What a process does of itself, without waiting for the network.
Step(p) ==
    \/ Lock(p) \/ GiveUp(p) \/ Decide(p) \/ Remove(p) \/ Clone(p)
    \/ Checkout(p) \/ SetHead(p) \/ Touch(p) \/ CopyPart(p) \/ CopyFails(p)
    \/ Copied(p) \/ Destroy(p) \/ Start(p) \/ Sweep(p) \/ SweepAway(p)

Next ==
    \/ Advance \/ Tick
    \/ \E p \in Process : Ask(p) \/ Fetch(p) \/ Fail(p) \/ Step(p) \/ Crash(p)

Spec == Init /\ [][Next]_vars

\* Local steps are taken; a git command that talks to the remote may hang for
\* ever, since _run_git sets no timeout.
StepsAreTaken == \A p \in Process : WF_vars(Step(p))
LocallyFairSpec == Spec /\ StepsAreTaken

\* The remote answers, time passes and requests keep coming.
Served ==
    /\ WF_vars(Tick)
    /\ \A p \in Process : /\ WF_vars(Ask(p))
                          /\ WF_vars(Fetch(p) \/ Fail(p))
                          /\ SF_vars(Fetch(p))

-----------------------------------------------------------------------------
(* Properties.                                                             *)

\* Types; and a lock is held only inside the with-block.
TypeOK ==
    /\ remote \in Rev
    /\ cache \in [Part -> Held]
    /\ jammed \in BOOLEAN
    /\ meta \in 0 .. Aged \cup {Absent}
    /\ holder = Nobody \/ holder \in {p \in Process : pc[p] \in Critical}
    /\ pc \in [Process -> Phase]
    /\ asked \in [Process -> Rev]
    /\ fetched \in [Process -> Rev]
    /\ copy \in [Process -> Copies]
    /\ crashes \in 0 .. MaxCrashes

\* The entry is rebuilt by one process at a time ("concurrent-request safety").
OneWriter == Cardinality({p \in Process : pc[p] \in Critical}) <= 1

\* The parts of a workspace are all of one revision: no refresh by another
\* process comes between two parts of its copy.
CopyIsOneRevision ==
    \A p \in Process : pc[p] = "ready" =>
        \A a, b \in Part :
            copy[p][a] \in Rev /\ copy[p][b] \in Rev => copy[p][a] = copy[p][b]

\* No part of a workspace is older than the branch was when its request came
\* in, however the entry was refreshed, expired, swept or left by a crash.
CopyIsRecent ==
    \A p \in Process : pc[p] = "ready" =>
        \A part \in Part : copy[p][part] \in Rev => copy[p][part] >= asked[p]

\* A request that fails on a jammed entry does not make it look fresh: only its
\* removal resets the clock that will get it re-cloned.
JamsAge == [][jammed /\ jammed' /\ meta # Absent => meta' # Absent /\ meta' >= meta]_vars

\* With a TTL, what a crash leaves behind is got rid of, as long as the cache is
\* served; a request that only ever fails on it must not keep it alive.
JamsHeal == Served => (jammed ~> ~jammed)

\* A request never waits for ever on another one whose git command hangs.
WaitsEnd == \A p \in Process : pc[p] = "waiting" ~> pc[p] # "waiting"

=============================================================================
