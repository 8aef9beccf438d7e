------------------------- MODULE WorkspaceCacheProofs -------------------------
(***************************************************************************)
(* For any number of processes and files, and any TTL: the types, and that *)
(* what a crash jams goes on ageing.  With a TTL other than 0: that the    *)
(* lock excludes, and that no workspace is older than its request.         *)
(***************************************************************************)
EXTENDS WorkspaceCache, FiniteSetTheorems, TLAPS

LEMMA Constants ==
    /\ Aged \in Nat /\ 1 \in Rev
    /\ Rev \subseteq Nat /\ Absent \notin Rev /\ Absent \notin Nat /\ Absent \notin Process
    /\ Absent \in Held /\ Unborn \in Held /\ Rev \subseteq Held /\ Unborn \notin Rev
    /\ "git" \in Part /\ File \subseteq Part /\ "git" \notin File
    /\ [part \in {} |-> Absent] \in Copies
<1>1. /\ Aged \in Nat /\ 1 \in Rev
      /\ Rev \subseteq Nat /\ Absent \notin Rev /\ Absent \notin Nat /\ Absent \notin Process
  BY CacheAssumption DEF Aged, Rev
<1>2. /\ Absent \in Held /\ Unborn \in Held /\ Rev \subseteq Held /\ Unborn \notin Rev
      /\ "git" \in Part /\ File \subseteq Part /\ "git" \notin File
  BY CacheAssumption DEF Held, Unborn, Rev, Part
<1>3. [part \in {} |-> Absent] \in Copies
  BY DEF Copies
<1>q. QED BY <1>1, <1>2, <1>3

LEMMA InitTyped == Init => TypeOK
<1> SUFFICES ASSUME Init PROVE TypeOK  OBVIOUS
<1>1. copy \in [Process -> Copies]  BY Constants DEF Init
<1>2. cache \in [Part -> Held]  BY Constants DEF Init
<1>3. crashes \in 0 .. MaxCrashes  BY CacheAssumption DEF Init
<1>4. /\ pc \in [Process -> Phase]
      /\ asked \in [Process -> Rev] /\ fetched \in [Process -> Rev]
  BY Constants DEF Init, Phase
<1>q. QED BY <1>1, <1>2, <1>3, <1>4, Constants DEF Init, TypeOK, Nobody

\* Where the lock is once p has moved to another phase.
LEMMA LockStays ==
    ASSUME TypeOK, NEW p \in Process, NEW phase \in Phase, Goto(p, phase),
           \/ holder' = holder /\ (phase \in Critical \/ holder # p)
           \/ Unlock(p)
           \/ holder' = Nobody
           \/ holder' = p /\ phase \in Critical
    PROVE  /\ pc' \in [Process -> Phase]
           /\ holder' = Nobody \/ holder' \in {q \in Process : pc'[q] \in Critical}
BY Constants DEF TypeOK, Goto, Unlock, Nobody

LEMMA RemoteTyped ==
    ASSUME TypeOK, Advance \/ Tick
    PROVE  TypeOK'
<1>1. CASE Advance
  <2>1. remote' \in Rev  BY <1>1, CacheAssumption DEF Advance, TypeOK, Rev
  <2>q. QED BY <1>1, <2>1 DEF Advance, TypeOK
<1>2. CASE Tick
  <2>1. meta' \in 0 .. Aged  BY <1>2, Constants DEF Tick, TypeOK
  <2>q. QED BY <1>2, <2>1 DEF Tick, TypeOK
<1>q. QED BY <1>1, <1>2

\* Actions that move p along and leave the entry and the workspaces alone.
LEMMA MovesTyped ==
    ASSUME TypeOK, NEW p \in Process,
           Ask(p) \/ Lock(p) \/ GiveUp(p) \/ Decide(p) \/ Copied(p) \/ Start(p) \/ Sweep(p)
    PROVE  TypeOK'
<1> USE DEF Phase, Critical, Git, Sweeping
<1>1. CASE Ask(p)
  <2>1. holder # p  BY <1>1, Constants DEF Ask, TypeOK, Nobody
  <2>q. QED BY <1>1, <2>1, LockStays DEF Ask, TypeOK
<1>2. CASE Lock(p)    BY <1>2, LockStays DEF Lock, TypeOK
<1>3. CASE GiveUp(p)
  <2>1. holder # p  BY <1>3, Constants DEF GiveUp, TypeOK, Nobody
  <2>q. QED BY <1>3, <2>1, LockStays, Constants DEF GiveUp, Forget, TypeOK
<1>4. CASE Decide(p)  BY <1>4, LockStays DEF Decide, TypeOK
<1>5. CASE Copied(p)
  <2>1. holder # p  BY <1>5, Constants DEF Copied, TypeOK, Nobody
  <2>q. QED BY <1>5, <2>1, LockStays DEF Copied, TypeOK
<1>6. CASE Start(p)
  <2>1. holder # p  BY <1>6, Constants DEF Start, TypeOK, Nobody
  <2>q. QED BY <1>6, <2>1, LockStays DEF Start, TypeOK
<1>7. CASE Sweep(p)
  <2>1. holder # p /\ Verdict \in Phase
    BY <1>7, Constants DEF Sweep, TypeOK, Nobody, Verdict
  <2>q. QED BY <1>7, <2>1, LockStays DEF Sweep, TypeOK
<1>q. QED BY <1>1, <1>2, <1>3, <1>4, <1>5, <1>6, <1>7

\* Actions that change the entry.
LEMMA DeleteTyped ==
    ASSUME TypeOK, NEW part \in Part, Delete(part)
    PROVE  cache' \in [Part -> Held] /\ jammed' \in BOOLEAN
BY Constants DEF Delete, TypeOK

LEMMA WritesTyped ==
    ASSUME TypeOK, NEW p \in Process,
           Remove(p) \/ Clone(p) \/ Fetch(p) \/ Checkout(p) \/ SetHead(p)
    PROVE  TypeOK'
<1> USE DEF Phase, Critical, Git
<1>1. CASE Remove(p)
  <2>1. cache' \in [Part -> Held] /\ jammed' \in BOOLEAN
    BY <1>1, DeleteTyped DEF Remove, TypeOK
  <2>2. CASE UNCHANGED pc  BY <1>1, <2>1, <2>2 DEF Remove, TypeOK
  <2>3. CASE Goto(p, "clone")  BY <1>1, <2>1, <2>3, LockStays DEF Remove, TypeOK
  <2>q. QED BY <1>1, <2>2, <2>3 DEF Remove
<1>2. CASE Clone(p)
  <2>1. cache' \in [Part -> Held] /\ jammed' \in BOOLEAN
    BY <1>2, Constants DEF Clone, TypeOK
  <2>q. QED BY <1>2, <2>1, LockStays DEF Clone, TypeOK
<1>3. CASE Fetch(p)
  <2>1. fetched' \in [Process -> Rev]  BY <1>3 DEF Fetch, TypeOK
  <2>q. QED BY <1>3, <2>1, LockStays DEF Fetch, TypeOK
<1>4. CASE Checkout(p)
  <2>1. cache' \in [Part -> Held]
    BY <1>4, Constants DEF Checkout, TypeOK
  <2>2. CASE UNCHANGED pc  BY <1>4, <2>1, <2>2 DEF Checkout, TypeOK
  <2>3. CASE Goto(p, "sethead")  BY <1>4, <2>1, <2>3, LockStays DEF Checkout, TypeOK
  <2>q. QED BY <1>4, <2>2, <2>3 DEF Checkout
<1>5. CASE SetHead(p)
  <2>1. cache' \in [Part -> Held]
    BY <1>5, Constants DEF SetHead, TypeOK
  <2>q. QED BY <1>5, <2>1, LockStays DEF SetHead, TypeOK
<1>q. QED BY <1>1, <1>2, <1>3, <1>4, <1>5

\* Actions that give the lock back.
LEMMA ForgetTyped ==
    ASSUME TypeOK, NEW p \in Process, Forget(p)
    PROVE  asked' \in [Process -> Rev] /\ fetched' \in [Process -> Rev]
BY Constants DEF Forget, TypeOK

LEMMA EndsTyped ==
    ASSUME TypeOK, NEW p \in Process, Fail(p) \/ Touch(p) \/ Crash(p)
    PROVE  TypeOK'
<1> USE DEF Phase, Critical, Git
<1>1. CASE Fail(p)
  <2>1. cache' \in [Part -> Held] /\ jammed' \in BOOLEAN
    BY <1>1, Constants DEF Fail, TypeOK
  <2>q. QED BY <1>1, <2>1, LockStays, ForgetTyped DEF Fail, TypeOK
<1>2. CASE Touch(p)
  <2>1. meta' \in 0 .. Aged /\ copy' \in [Process -> Copies]
    BY <1>2, Constants DEF Touch, TypeOK
  <2>q. QED BY <1>2, <2>1, LockStays DEF Touch, TypeOK
<1>3. CASE Crash(p)
  <2>1. copy' \in [Process -> Copies] /\ jammed' \in BOOLEAN
    BY <1>3, Constants DEF Crash, TypeOK
  <2>2. crashes' \in 0 .. MaxCrashes
    BY <1>3, CacheAssumption DEF Crash, TypeOK
  <2>q. QED BY <1>3, <2>1, <2>2, LockStays, ForgetTyped DEF Crash, TypeOK
<1>q. QED BY <1>1, <1>2, <1>3

\* Actions on a process's own workspace.
LEMMA CopiesTyped ==
    ASSUME TypeOK, NEW p \in Process, CopyPart(p) \/ CopyFails(p) \/ Destroy(p)
    PROVE  TypeOK'
<1> USE DEF Phase, Critical, Git
<1>1. CASE CopyPart(p)
  <2>1. PICK part \in Part \ DOMAIN copy[p] :
          copy' = [copy EXCEPT ![p] = [q \in DOMAIN @ \cup {part} |->
                                          IF q = part THEN cache[part] ELSE @[q]]]
    BY <1>1 DEF CopyPart
  <2>2. PICK parts \in SUBSET Part : copy[p] \in [parts -> Held]
    BY DEF TypeOK, Copies
  <2>3. copy'[p] \in [parts \cup {part} -> Held]
    BY <2>1, <2>2 DEF TypeOK
  <2>4. copy' \in [Process -> Copies]
    <3>1. parts \cup {part} \in SUBSET Part  BY <2>1, <2>2
    <3>2. copy'[p] \in Copies  BY <2>3, <3>1 DEF Copies
    <3>q. QED BY <2>1, <3>2 DEF TypeOK
  <2>q. QED BY <1>1, <2>4 DEF CopyPart, TypeOK
<1>2. CASE CopyFails(p)
  <2>1. holder # p  BY <1>2, Constants DEF CopyFails, TypeOK, Nobody
  <2>2. copy' \in [Process -> Copies]  BY <1>2, Constants DEF CopyFails, TypeOK
  <2>q. QED BY <1>2, <2>1, <2>2, LockStays, ForgetTyped DEF CopyFails, TypeOK
<1>3. CASE Destroy(p)
  <2>1. holder # p  BY <1>3, Constants DEF Destroy, TypeOK, Nobody
  <2>2. copy' \in [Process -> Copies]  BY <1>3, Constants DEF Destroy, TypeOK
  <2>q. QED BY <1>3, <2>1, <2>2, LockStays, ForgetTyped DEF Destroy, TypeOK
<1>q. QED BY <1>1, <1>2, <1>3

LEMMA SweepTyped ==
    ASSUME TypeOK, NEW p \in Process, SweepAway(p)
    PROVE  TypeOK'
<1> USE DEF Phase, Critical, Git, Sweeping
<1>1. cache' \in [Part -> Held] /\ jammed' \in BOOLEAN
  BY DeleteTyped DEF SweepAway, TypeOK
<1>2. CASE UNCHANGED <<meta, holder, pc>>  BY <1>1, <1>2 DEF SweepAway, TypeOK
<1>3. CASE Goto(p, "idle") /\ holder' = IF TTL = 0 THEN Nobody ELSE holder
  <2>1. holder # p  BY Constants DEF SweepAway, TypeOK, Nobody
  <2>2. meta' \in 0 .. Aged \cup {Absent}  BY DEF SweepAway, TypeOK
  <2>3. /\ pc' \in [Process -> Phase]
        /\ holder' = Nobody \/ holder' \in {q \in Process : pc'[q] \in Critical}
    BY <1>3, <2>1, LockStays
  <2>q. QED BY <1>1, <2>2, <2>3 DEF SweepAway, TypeOK
<1>q. QED BY <1>2, <1>3 DEF SweepAway

\* The types are kept by whatever happens.
LEMMA NextTyped == TypeOK /\ [Next]_vars => TypeOK'
<1> SUFFICES ASSUME TypeOK, [Next]_vars PROVE TypeOK'  OBVIOUS
<1>1. CASE UNCHANGED vars  BY <1>1 DEF TypeOK, vars
<1>2. CASE Advance \/ Tick  BY <1>2, RemoteTyped
<1>3. ASSUME NEW p \in Process, Ask(p) \/ Fetch(p) \/ Fail(p) \/ Step(p) \/ Crash(p)
      PROVE  TypeOK'
  BY <1>3, MovesTyped, WritesTyped, EndsTyped, CopiesTyped, SweepTyped DEF Step
<1>q. QED BY <1>1, <1>2, <1>3 DEF Next

\* The lock and the types, for every cache.
THEOREM CacheTypes == Spec => []TypeOK
BY InitTyped, NextTyped, PTL DEF Spec

-----------------------------------------------------------------------------
(* The lock.                                                               *)

LockOK == \A p \in Process : pc[p] \in Critical => holder = p

LEMMA LockKept ==
    ASSUME TypeOK, LockOK, TTL # 0, [Next]_vars
    PROVE  LockOK'
<1> USE DEF LockOK, TypeOK, Goto, Unlock, Critical, Git
<1>1. CASE UNCHANGED vars  BY <1>1 DEF vars
<1>2. CASE Advance \/ Tick  BY <1>2 DEF Advance, Tick
<1>3. ASSUME NEW p \in Process, Ask(p) \/ Fetch(p) \/ Fail(p) \/ Step(p) \/ Crash(p)
      PROVE  LockOK'
  <2>1. CASE Ask(p)      BY <2>1 DEF Ask
  <2>2. CASE Fetch(p)    BY <2>2 DEF Fetch
  <2>3. CASE Fail(p)     BY <2>3, Constants DEF Fail
  <2>4. CASE Crash(p)    BY <2>4, Constants DEF Crash
  <2>5. CASE Lock(p)     BY <2>5, Constants DEF Lock, Nobody
  <2>6. CASE GiveUp(p)   BY <2>6 DEF GiveUp
  <2>7. CASE Decide(p)   BY <2>7 DEF Decide
  <2>8. CASE Remove(p)   BY <2>8 DEF Remove
  <2>9. CASE Clone(p)    BY <2>9 DEF Clone
  <2>10. CASE Checkout(p) BY <2>10 DEF Checkout
  <2>11. CASE SetHead(p) BY <2>11 DEF SetHead
  <2>12. CASE Touch(p)   BY <2>12, Constants DEF Touch
  <2>13. CASE CopyPart(p) BY <2>13 DEF CopyPart
  <2>14. CASE CopyFails(p) BY <2>14 DEF CopyFails
  <2>15. CASE Copied(p)  BY <2>15 DEF Copied
  <2>16. CASE Destroy(p) BY <2>16 DEF Destroy
  <2>17. CASE Start(p)   BY <2>17 DEF Start
  <2>18. CASE Sweep(p)
    <3>1. Verdict \notin Critical  BY DEF Verdict
    <3>q. QED BY <2>18, <3>1 DEF Sweep
  <2>19. CASE SweepAway(p)  BY <2>19 DEF SweepAway
  <2>q. QED BY <1>3, <2>1, <2>2, <2>3, <2>4, <2>5, <2>6, <2>7, <2>8, <2>9, <2>10, <2>11, <2>12,
               <2>13, <2>14, <2>15, <2>16, <2>17, <2>18, <2>19 DEF Step
<1>q. QED BY <1>1, <1>2, <1>3 DEF Next

LEMMA LockInvariant == TTL # 0 => (Spec => [](TypeOK /\ LockOK))
<1>1. Init => TypeOK /\ LockOK
  BY InitTyped DEF Init, LockOK, Critical, Git
<1>2. TTL # 0 /\ TypeOK /\ LockOK /\ [Next]_vars => (TypeOK /\ LockOK)'
  BY NextTyped, LockKept
<1>3. CASE TTL # 0
  <2>1. TypeOK /\ LockOK /\ [Next]_vars => (TypeOK /\ LockOK)'  BY <1>2, <1>3
  <2>q. QED BY <1>1, <2>1, PTL DEF Spec
<1>q. QED BY <1>3

\* Two processes are never inside the with-block at once, unless the TTL is 0.
THEOREM LockExcludes == TTL # 0 => (Spec => []OneWriter)
<1>1. ASSUME LockOK PROVE OneWriter
  <2> DEFINE Inside == {p \in Process : pc[p] \in Critical}
  <2>1. Inside \subseteq {holder}  BY <1>1 DEF LockOK
  <2>2. IsFiniteSet({holder}) /\ Cardinality({holder}) = 1  BY FS_Singleton
  <2>3. Cardinality(Inside) <= 1  BY <2>1, <2>2, FS_Subset
  <2>q. QED BY <2>3 DEF OneWriter
<1>2. CASE TTL # 0
  <2>1. TypeOK /\ LockOK => OneWriter  BY <1>1
  <2>2. Spec => [](TypeOK /\ LockOK)  BY <1>2, LockInvariant
  <2>q. QED BY <2>1, <2>2, PTL
<1>q. QED BY <1>2

-----------------------------------------------------------------------------
(* What a crash jams.                                                      *)

\* Only a git directory can be jammed.
JamOK == jammed => cache["git"] # Absent

LEMMA JamKept ==
    ASSUME TypeOK, JamOK, [Next]_vars
    PROVE  JamOK'
<1> USE Constants DEF JamOK, TypeOK
<1>1. CASE UNCHANGED vars  BY <1>1 DEF vars
<1>2. CASE Advance \/ Tick  BY <1>2 DEF Advance, Tick
<1>3. ASSUME NEW part \in Part, Delete(part) PROVE JamOK'  BY <1>3 DEF Delete
<1>4. ASSUME NEW p \in Process, Ask(p) \/ Fetch(p) \/ Fail(p) \/ Step(p) \/ Crash(p)
      PROVE  JamOK'
  <2>1. CASE Fail(p)      BY <2>1 DEF Fail
  <2>2. CASE Crash(p)     BY <2>2 DEF Crash
  <2>3. CASE Remove(p)    BY <2>3, <1>3 DEF Remove
  <2>4. CASE SweepAway(p) BY <2>4, <1>3 DEF SweepAway
  <2>5. CASE Clone(p)     BY <2>5 DEF Clone
  <2>6. CASE Checkout(p)  BY <2>6 DEF Checkout
  <2>7. CASE SetHead(p)   BY <2>7 DEF SetHead
  <2>8. CASE UNCHANGED <<cache, jammed>>  BY <2>8
  <2>9. Ask(p) \/ Fetch(p) \/ Lock(p) \/ GiveUp(p) \/ Decide(p) \/ Touch(p) \/ CopyPart(p)
          \/ CopyFails(p) \/ Copied(p) \/ Destroy(p) \/ Start(p) \/ Sweep(p)
            => UNCHANGED <<cache, jammed>>
    BY DEF Ask, Fetch, Lock, GiveUp, Decide, Touch, CopyPart, CopyFails, Copied, Destroy,
           Start, Sweep
  <2>q. QED BY <1>4, <2>1, <2>2, <2>3, <2>4, <2>5, <2>6, <2>7, <2>8, <2>9 DEF Step
<1>q. QED BY <1>1, <1>2, <1>4 DEF Next

\* From the fetch to the time stamp an entry is not jammed: only the process
\* that works on it could jam it, by being killed.
Working == {"checkout", "sethead", "touch"}
CleanOK == \A p \in Process : pc[p] \in Working => ~jammed

LEMMA CleanKept ==
    ASSUME TypeOK, LockOK, CleanOK, [Next]_vars
    PROVE  CleanOK'
<1> USE DEF CleanOK, TypeOK, Working, Goto
<1>1. CASE UNCHANGED vars  BY <1>1 DEF vars
<1>2. CASE Advance \/ Tick  BY <1>2 DEF Advance, Tick
<1>3. ASSUME NEW part \in Part, Delete(part) PROVE jammed' => jammed  BY <1>3 DEF Delete
<1>4. ASSUME NEW p \in Process, Ask(p) \/ Fetch(p) \/ Fail(p) \/ Step(p) \/ Crash(p)
      PROVE  CleanOK'
  <2>1. CASE Fetch(p)     BY <2>1 DEF Fetch
  <2>2. CASE Fail(p)      BY <2>2 DEF Fail
  <2>3. CASE Crash(p)
    <3>1. CASE UNCHANGED jammed  BY <2>3, <3>1 DEF Crash
    <3>2. CASE pc[p] \in Git
      <4>1. \A q \in Process : pc[q] \in Working => q = p
        BY <3>2 DEF LockOK, Critical, Git
      <4>q. QED BY <2>3, <4>1 DEF Crash
    <3>q. QED BY <2>3, <3>1, <3>2 DEF Crash
  <2>4. CASE Remove(p)    BY <2>4, <1>3 DEF Remove
  <2>5. CASE SweepAway(p) BY <2>5, <1>3 DEF SweepAway
  <2>6. CASE Clone(p)     BY <2>6 DEF Clone
  <2>7. CASE Checkout(p)  BY <2>7 DEF Checkout
  <2>8. CASE SetHead(p)   BY <2>8 DEF SetHead
  <2>9. CASE Touch(p)     BY <2>9 DEF Touch
  <2>10. CASE CopyPart(p)  BY <2>10 DEF CopyPart
  <2>11. CASE Sweep(p)
    <3>1. Verdict \notin Working  BY DEF Verdict
    <3>q. QED BY <2>11, <3>1 DEF Sweep
  <2>12. CASE Decide(p)  BY <2>12 DEF Decide
  <2>13. CASE Ask(p) \/ Lock(p) \/ GiveUp(p)  BY <2>13 DEF Ask, Lock, GiveUp
  <2>14. CASE CopyFails(p) \/ Copied(p) \/ Destroy(p) \/ Start(p)
    BY <2>14 DEF CopyFails, Copied, Destroy, Start
  <2>q. QED BY <1>4, <2>1, <2>2, <2>3, <2>4, <2>5, <2>6, <2>7, <2>8, <2>9, <2>10, <2>11, <2>12,
               <2>13, <2>14 DEF Step
<1>q. QED BY <1>1, <1>2, <1>4 DEF Next

AgesOn == jammed /\ jammed' /\ meta # Absent => meta' # Absent /\ meta' >= meta

LEMMA AgeKept ==
    ASSUME TypeOK, JamOK, TTL # 0 => CleanOK, [Next]_vars
    PROVE  AgesOn
<1> SUFFICES ASSUME jammed, jammed', meta # Absent
             PROVE  meta' # Absent /\ meta' >= meta
  BY DEF AgesOn
<1>1. meta \in Nat /\ meta \in 0 .. Aged /\ meta # Absent
  BY Constants DEF TypeOK
<1>2. CASE UNCHANGED meta  BY <1>1, <1>2
<1>3. CASE Tick  BY <1>1, <1>3, Constants DEF Tick
<1>4. ASSUME NEW p \in Process, Touch(p) PROVE meta' # Absent /\ meta' >= meta
  <2>1. CASE TTL # 0  BY <2>1, <1>4 DEF Touch, CleanOK, Working
  <2>2. CASE TTL = 0
    <3>1. Aged = 0  BY <2>2, CacheAssumption DEF Aged
    <3>q. QED BY <3>1, <1>1, <1>4, Constants DEF Touch
  <2>q. QED BY <2>1, <2>2
<1>5. ASSUME NEW p \in Process, SweepAway(p) PROVE UNCHANGED meta
  <2>1. ~NothingThere  BY Constants DEF JamOK, NothingThere
  <2>q. QED BY <1>5, <2>1 DEF SweepAway
<1>6. \A p \in Process :
        Ask(p) \/ Fetch(p) \/ Fail(p) \/ Crash(p) \/ Lock(p) \/ GiveUp(p) \/ Decide(p)
          \/ Remove(p) \/ Clone(p) \/ Checkout(p) \/ SetHead(p) \/ CopyPart(p)
          \/ CopyFails(p) \/ Copied(p) \/ Destroy(p) \/ Start(p) \/ Sweep(p)
            => UNCHANGED meta
  BY DEF Ask, Fetch, Fail, Crash, Lock, GiveUp, Decide, Remove, Clone, Checkout, SetHead,
         CopyPart, CopyFails, Copied, Destroy, Start, Sweep
<1>7. Advance \/ UNCHANGED vars => UNCHANGED meta  BY DEF Advance, vars
<1>q. QED BY <1>2, <1>3, <1>4, <1>5, <1>6, <1>7 DEF Next, Step

\* What a crash leaves jammed goes on ageing until it is removed, whatever the
\* TTL is and however many requests fail on it.
THEOREM JammedEntriesAge == Spec => JamsAge
<1>1. Init => TypeOK /\ LockOK /\ JamOK /\ CleanOK
  BY InitTyped DEF Init, LockOK, Critical, Git, JamOK, CleanOK, Working
<1>2. CASE TTL # 0
  <2> DEFINE Inv == TypeOK /\ LockOK /\ JamOK /\ CleanOK
  <2>1. Inv /\ [Next]_vars => Inv'
    BY <1>2, NextTyped, LockKept, JamKept, CleanKept
  <2>2. Inv /\ [Next]_vars => AgesOn
    BY AgeKept
  <2>3. Init => Inv  BY <1>1
  <2> HIDE DEF Inv
  <2>q. QED BY <2>1, <2>2, <2>3, PTL DEF Spec, JamsAge, AgesOn
<1>3. CASE TTL = 0
  <2>1. TypeOK /\ JamOK /\ [Next]_vars => (TypeOK /\ JamOK)'
    BY NextTyped, JamKept
  <2>2. TypeOK /\ JamOK /\ [Next]_vars => AgesOn
    BY <1>3, AgeKept
  <2>q. QED BY <1>1, <2>1, <2>2, PTL DEF Spec, JamsAge, AgesOn
<1>q. QED BY <1>2, <1>3

-----------------------------------------------------------------------------
(* No workspace is older than its request.                                 *)

\* What is fetched is as new as what was asked for.
DueOK ==
    \A p \in Process :
        /\ asked[p] <= remote
        /\ pc[p] \in Working => asked[p] <= fetched[p]

\* What a process has brought the entry to, up to parts swept away meanwhile.
PlacedOK ==
    \A p \in Process :
        /\ pc[p] = "sethead" => \A f \in File : cache[f] \in Rev => cache[f] = fetched[p]
        /\ pc[p] = "touch" => \A part \in Part : cache[part] \in Rev => cache[part] = fetched[p]

\* While p copies, the entry only gets newer, and so does what p has copied.
Holding == {"copying", "ready"}

EntryRecent(p)  == \A part \in Part : cache[part] \in Rev => cache[part] >= asked[p]
OthersRecent(p) == \A q \in Process : pc[q] \in Working => fetched[q] >= asked[p]
CopyRecent(p) ==
    \A part \in DOMAIN copy[p] : copy[p][part] \in Rev => copy[p][part] >= asked[p]

RecentOK ==
    /\ \A p \in Process : pc[p] \in Holding => EntryRecent(p) /\ OthersRecent(p) /\ CopyRecent(p)
    /\ \A p \in Process : pc[p] = "ready" => DOMAIN copy[p] = Part

\* No part is older than the commit the git directory is at, and whoever works
\* on the entry has fetched no older one; so a pull that finds nothing new
\* leaves an entry that is all of the newest revision.
AheadOK ==
    /\ \A part \in Part : cache[part] \in Rev => cache[part] <= remote
    /\ cache["git"] \in Rev =>
          \A part \in Part : cache[part] \in Rev => cache["git"] <= cache[part]
    /\ \A p \in Process : pc[p] \in Working =>
          /\ fetched[p] <= remote
          /\ cache["git"] \in Rev => cache["git"] <= fetched[p]

FreshInv == TypeOK /\ LockOK /\ DueOK /\ PlacedOK /\ AheadOK /\ RecentOK

LEMMA Numbers ==
    ASSUME TypeOK
    PROVE  /\ remote \in Nat
           /\ \A p \in Process : asked[p] \in Nat /\ fetched[p] \in Nat /\ fetched[p] \in Rev
           /\ \A r \in Rev : r \in Nat /\ r >= 1
BY Constants DEF TypeOK, Rev

LEMMA DueKept ==
    ASSUME TypeOK, DueOK, [Next]_vars
    PROVE  DueOK'
<1> USE Numbers DEF DueOK, TypeOK, Working, Goto, Forget
<1>1. CASE UNCHANGED vars  BY <1>1 DEF vars
<1>2. CASE Advance \/ Tick  BY <1>2 DEF Advance, Tick
<1>3. ASSUME NEW p \in Process, Ask(p) \/ Fetch(p) \/ Fail(p) \/ Step(p) \/ Crash(p)
      PROVE  DueOK'
  <2>1. CASE Ask(p)       BY <2>1 DEF Ask
  <2>2. CASE Fetch(p)     BY <2>2 DEF Fetch
  <2>3. 1 <= remote       BY DEF Rev
  <2>4. CASE Fail(p)      BY <2>3, <2>4 DEF Fail
  <2>5. CASE Crash(p)     BY <2>3, <2>5 DEF Crash
  <2>6. CASE GiveUp(p)    BY <2>3, <2>6 DEF GiveUp
  <2>7. CASE CopyFails(p) BY <2>3, <2>7 DEF CopyFails
  <2>8. CASE Destroy(p)   BY <2>3, <2>8 DEF Destroy
  <2>9. CASE Remove(p)    BY <2>9 DEF Remove
  <2>10. CASE Clone(p)    BY <2>10 DEF Clone
  <2>11. CASE Checkout(p) BY <2>11 DEF Checkout
  <2>12. CASE SetHead(p)  BY <2>12 DEF SetHead
  <2>13. CASE Touch(p)    BY <2>13 DEF Touch
  <2>14. CASE CopyPart(p) BY <2>14 DEF CopyPart
  <2>15. CASE Sweep(p)
    <3>1. Verdict \notin Working  BY DEF Verdict
    <3>q. QED BY <2>15, <3>1 DEF Sweep
  <2>16. CASE SweepAway(p)  BY <2>16 DEF SweepAway
  <2>17. CASE Lock(p) \/ Decide(p)  BY <2>17 DEF Lock, Decide
  <2>18. CASE Copied(p) \/ Start(p)  BY <2>18 DEF Copied, Start
  <2>q. QED BY <1>3, <2>1, <2>2, <2>4, <2>5, <2>6, <2>7, <2>8, <2>9, <2>10, <2>11, <2>12,
               <2>13, <2>14, <2>15, <2>16, <2>17, <2>18 DEF Step
<1>q. QED BY <1>1, <1>2, <1>3 DEF Next

\* What a step of p leaves alone of the others.
LEMMA OthersStay ==
    ASSUME TypeOK, NEW p \in Process, NEW q \in Process, q # p,
           Ask(p) \/ Fetch(p) \/ Fail(p) \/ Step(p) \/ Crash(p)
    PROVE  pc'[q] = pc[q] /\ asked'[q] = asked[q] /\ fetched'[q] = fetched[q] /\ copy'[q] = copy[q]
<1> USE DEF TypeOK, Goto, Forget
<1>1. CASE Ask(p) \/ Fetch(p) \/ Fail(p) \/ Crash(p)  BY <1>1 DEF Ask, Fetch, Fail, Crash
<1>2. CASE Lock(p) \/ GiveUp(p) \/ Decide(p) \/ Remove(p) \/ Clone(p)
  BY <1>2 DEF Lock, GiveUp, Decide, Remove, Clone
<1>3. CASE Checkout(p) \/ SetHead(p) \/ Touch(p)  BY <1>3 DEF Checkout, SetHead, Touch
<1>4. CASE CopyFails(p) \/ Copied(p) \/ Destroy(p) \/ Start(p) \/ Sweep(p) \/ SweepAway(p)
  BY <1>4 DEF CopyFails, Copied, Destroy, Start, Sweep, SweepAway
<1>5. CASE CopyPart(p)
  <2>1. pc' = pc /\ asked' = asked /\ fetched' = fetched /\ copy'[q] = copy[q]
    BY <1>5 DEF CopyPart
  <2>q. QED BY <2>1
<1>q. QED BY <1>1, <1>2, <1>3, <1>4, <1>5 DEF Step

\* Only a process at work on the entry puts a revision into it, its own.
LEMMA WhoWrites ==
    ASSUME TypeOK, NEW p \in Process, Ask(p) \/ Fetch(p) \/ Fail(p) \/ Step(p) \/ Crash(p),
           NEW part \in Part, cache'[part] \in Rev
    PROVE  cache'[part] = cache[part] \/ (pc[p] \in Working /\ cache'[part] = fetched[p])
<1> USE DEF TypeOK, Working
<1>1. ASSUME NEW other \in Part, Delete(other) PROVE cache'[part] = cache[part]
  BY <1>1, Constants DEF Delete
<1>2. CASE Ask(p) \/ Fetch(p) \/ Crash(p)  BY <1>2 DEF Ask, Fetch, Crash
<1>3. CASE Fail(p)      BY <1>3, Constants DEF Fail
<1>4. CASE Clone(p)     BY <1>4, Constants DEF Clone
<1>5. CASE Remove(p)    BY <1>5, <1>1 DEF Remove
<1>6. CASE SweepAway(p) BY <1>6, <1>1 DEF SweepAway
<1>7. CASE Checkout(p)  BY <1>7, Constants DEF Checkout
<1>8. CASE SetHead(p)   BY <1>8, Constants DEF SetHead
<1>9. CASE Lock(p) \/ GiveUp(p) \/ Decide(p) \/ Touch(p) \/ CopyPart(p) \/ CopyFails(p)
             \/ Copied(p) \/ Destroy(p) \/ Start(p) \/ Sweep(p)
  BY <1>9 DEF Lock, GiveUp, Decide, Touch, CopyPart, CopyFails, Copied, Destroy, Start, Sweep
<1>q. QED BY <1>2, <1>3, <1>4, <1>5, <1>6, <1>7, <1>8, <1>9 DEF Step

\* Where a step may take p: to the end of its work, and to its own workspace,
\* by one action each.
LEMMA Arrivals ==
    ASSUME TypeOK, NEW p \in Process, Ask(p) \/ Fetch(p) \/ Fail(p) \/ Step(p) \/ Crash(p)
    PROVE  /\ pc'[p] = "sethead" => Checkout(p) /\ pc[p] = "checkout" /\ UNCHANGED cache
                                    /\ \A f \in File : cache[f] = fetched[p]
           /\ pc'[p] = "touch" =>
                 SetHead(p) \/ (Fetch(p) /\ pc[p] = "fetch" /\ cache["git"] = remote)
           /\ pc'[p] \in Working => pc[p] \in Working \/ Fetch(p)
           /\ pc'[p] \in Holding => Touch(p) \/ CopyPart(p) \/ Copied(p)
<1> USE DEF TypeOK, Goto, Working, Holding
<1>1. CASE Ask(p) \/ Fetch(p) \/ Fail(p) \/ Crash(p)  BY <1>1 DEF Ask, Fetch, Fail, Crash
<1>2. CASE Lock(p) \/ GiveUp(p) \/ Decide(p) \/ Remove(p) \/ Clone(p)
  BY <1>2 DEF Lock, GiveUp, Decide, Remove, Clone
<1>3. CASE Checkout(p)  BY <1>3 DEF Checkout
<1>4. CASE SetHead(p)   BY <1>4 DEF SetHead
<1>5. CASE Touch(p)     BY <1>5 DEF Touch
<1>6. CASE CopyPart(p)  BY <1>6 DEF CopyPart
<1>7. CASE CopyFails(p) \/ Copied(p) \/ Destroy(p) \/ Start(p) \/ SweepAway(p)
  BY <1>7 DEF CopyFails, Copied, Destroy, Start, SweepAway, Sweeping
<1>8. CASE Sweep(p)
  <2>1. Verdict \in {"expired", "orphan", "idle"}  BY DEF Verdict
  <2>q. QED BY <1>8, <2>1 DEF Sweep
<1>q. QED BY <1>1, <1>2, <1>3, <1>4, <1>5, <1>6, <1>7, <1>8 DEF Step

LEMMA PlacedKept ==
    ASSUME TypeOK, LockOK, PlacedOK, AheadOK, [Next]_vars
    PROVE  PlacedOK'
<1>1. CASE UNCHANGED vars  BY <1>1 DEF vars, PlacedOK
<1>2. CASE Advance \/ Tick  BY <1>2 DEF Advance, Tick, PlacedOK
<1>3. ASSUME NEW p \in Process, Ask(p) \/ Fetch(p) \/ Fail(p) \/ Step(p) \/ Crash(p),
             NEW q \in Process
      PROVE  /\ pc'[q] = "sethead" => \A f \in File : cache'[f] \in Rev => cache'[f] = fetched'[q]
             /\ pc'[q] = "touch" =>
                   \A part \in Part : cache'[part] \in Rev => cache'[part] = fetched'[q]
  <2>1. CASE q # p
    <3>1. pc'[q] = pc[q] /\ fetched'[q] = fetched[q]  BY <1>3, <2>1, OthersStay
    <3>2. pc[q] \in {"sethead", "touch"} => pc[p] \notin Working
      BY <2>1 DEF LockOK, Critical, Git, Working
    <3>3. \A part \in Part : pc[q] \in {"sethead", "touch"} /\ cache'[part] \in Rev
                                => cache'[part] = cache[part]
      BY <1>3, <3>2, WhoWrites
    <3>q. QED BY <3>1, <3>3, Constants DEF PlacedOK
  <2>2. CASE q = p
    <3>1. CASE pc'[p] = "sethead"
      <4>1. /\ Checkout(p) /\ pc[p] = "checkout" /\ UNCHANGED cache
            /\ \A f \in File : cache[f] = fetched[p]
        BY <1>3, <3>1, Arrivals
      <4>2. UNCHANGED fetched  BY <4>1 DEF Checkout
      <4>q. QED BY <2>2, <3>1, <4>1, <4>2
    <3>2. CASE pc'[p] = "touch"
      <4>1. CASE Fetch(p) /\ pc[p] = "fetch" /\ cache["git"] = remote
        <5>1. UNCHANGED cache /\ fetched'[p] = remote  BY <4>1 DEF Fetch, TypeOK
        <5>2. remote \in Rev  BY DEF TypeOK
        <5>3. \A part \in Part : cache[part] \in Rev => cache[part] = remote
          BY <4>1, <5>2, Numbers DEF AheadOK, Rev
        <5>q. QED BY <2>2, <3>2, <5>1, <5>3
      <4> SUFFICES ASSUME SetHead(p) PROVE pc'[q] = "touch" =>
                   \A part \in Part : cache'[part] \in Rev => cache'[part] = fetched'[q]
        BY <1>3, <2>2, <3>2, <4>1, Arrivals
      <4>2. /\ pc[p] = "sethead" /\ UNCHANGED fetched
            /\ cache' = [cache EXCEPT !["git"] = fetched[p]]
        BY DEF SetHead
      <4>3. \A part \in Part : cache'[part] \in Rev => cache'[part] = fetched[p]
        BY <4>2, Constants DEF PlacedOK, TypeOK, Part
      <4>q. QED BY <2>2, <3>2, <4>2, <4>3
    <3>q. QED BY <2>2, <3>1, <3>2
  <2>q. QED BY <2>1, <2>2
<1>q. QED BY <1>1, <1>2, <1>3 DEF Next, PlacedOK

LEMMA AheadKept ==
    ASSUME TypeOK, LockOK, PlacedOK, AheadOK, [Next]_vars
    PROVE  AheadOK'
<1>1. CASE UNCHANGED vars  BY <1>1 DEF vars, AheadOK
<1>2. CASE Advance \/ Tick
  <2>1. UNCHANGED <<cache, pc, fetched>> /\ remote' \in Nat /\ remote <= remote'
    BY <1>2, Numbers DEF Advance, Tick
  <2>q. QED BY <2>1, Numbers DEF AheadOK
<1>3. ASSUME NEW p \in Process, Ask(p) \/ Fetch(p) \/ Fail(p) \/ Step(p) \/ Crash(p)
      PROVE  AheadOK'
  <2>1. UNCHANGED remote
    BY <1>3 DEF Ask, Fail, Crash, Fetch, Step, Lock, GiveUp, Decide, Remove, Clone, Checkout,
                SetHead, Touch, CopyPart, CopyFails, Copied, Destroy, Start, Sweep, SweepAway
  <2>2. "git" \in Part  BY DEF Part
  <2>3. \A part \in Part : cache'[part] \in Rev =>
            cache'[part] = cache[part] \/ (pc[p] \in Working /\ cache'[part] = fetched[p])
    BY <1>3, WhoWrites
  <2>4. cache'["git"] \in Rev =>
            cache'["git"] = cache["git"]
            \/ (SetHead(p) /\ pc[p] = "sethead" /\ cache'["git"] = fetched[p])
    <3> USE DEF TypeOK
    <3>1. ASSUME NEW other \in Part, Delete(other), cache'["git"] \in Rev
          PROVE  cache'["git"] = cache["git"]
      BY <3>1, Constants DEF Delete
    <3>2. CASE Ask(p) \/ Fetch(p) \/ Crash(p)  BY <3>2 DEF Ask, Fetch, Crash
    <3>3. CASE Fail(p)      BY <2>2, <3>3, Constants DEF Fail
    <3>4. CASE Clone(p)     BY <2>2, <3>4, Constants DEF Clone
    <3>5. CASE Remove(p)    BY <3>5, <3>1 DEF Remove
    <3>6. CASE SweepAway(p) BY <3>6, <3>1 DEF SweepAway
    <3>7. CASE Checkout(p)  BY <3>7, Constants DEF Checkout
    <3>8. CASE SetHead(p)   BY <2>2, <3>8 DEF SetHead
    <3>9. CASE Lock(p) \/ GiveUp(p) \/ Decide(p) \/ Touch(p) \/ CopyPart(p) \/ CopyFails(p)
                 \/ Copied(p) \/ Destroy(p) \/ Start(p) \/ Sweep(p)
      BY <3>9 DEF Lock, GiveUp, Decide, Touch, CopyPart, CopyFails, Copied, Destroy, Start, Sweep
    <3>q. QED BY <1>3, <3>2, <3>3, <3>4, <3>5, <3>6, <3>7, <3>8, <3>9 DEF Step
  <2>5. \A part \in Part : cache'[part] \in Rev => cache'[part] <= remote'
    BY <2>1, <2>3 DEF AheadOK
  <2>6. cache'["git"] \in Rev =>
            \A part \in Part : cache'[part] \in Rev => cache'["git"] <= cache'[part]
    <3> SUFFICES ASSUME cache'["git"] \in Rev, NEW part \in Part, cache'[part] \in Rev
                 PROVE  cache'["git"] <= cache'[part]
      OBVIOUS
    <3>1. CASE cache'["git"] = cache["git"]
      BY <2>3, <3>1 DEF AheadOK
    <3>2. CASE SetHead(p) /\ pc[p] = "sethead" /\ cache'["git"] = fetched[p]
      <4>1. cache'[part] = cache[part] \/ cache'[part] = fetched[p]  BY <2>3
      <4>2. CASE cache'[part] = fetched[p]  BY <3>2, <4>2, Numbers
      <4>3. CASE cache'[part] = cache[part]
        <5>1. CASE part = "git"  BY <5>1, Numbers
        <5>2. CASE part # "git"
          <6>1. part \in File  BY <5>2 DEF Part
          <6>q. QED BY <3>2, <4>3, <6>1, Numbers DEF PlacedOK
        <5>q. QED BY <5>1, <5>2
      <4>q. QED BY <4>1, <4>2, <4>3
    <3>q. QED BY <2>4, <3>1, <3>2
  <2>7. ASSUME NEW q \in Process, pc'[q] \in Working
        PROVE  /\ fetched'[q] <= remote'
               /\ cache'["git"] \in Rev => cache'["git"] <= fetched'[q]
    <3>1. CASE q # p
      <4>1. pc[q] \in Working /\ fetched'[q] = fetched[q]  BY <1>3, <2>7, <3>1, OthersStay
      <4>2. pc[p] \notin Working  BY <3>1, <4>1 DEF LockOK, Critical, Git, Working
      <4>q. QED BY <2>1, <2>2, <2>3, <4>1, <4>2 DEF AheadOK
    <3>2. CASE q = p /\ Fetch(p)
      <4>1. fetched'[p] = remote /\ UNCHANGED cache  BY <3>2 DEF Fetch, TypeOK
      <4>q. QED BY <2>1, <2>2, <3>2, <4>1, Numbers DEF AheadOK
    <3>3. CASE q = p /\ ~Fetch(p)
      <4>1. pc[p] \in Working  BY <1>3, <2>7, <3>3, Arrivals
      <4>2. fetched'[p] = fetched[p]
        BY <1>3, <2>7, <3>3, <4>1
           DEF Working, Ask, Fail, Crash, Step, Lock, GiveUp, Decide, Remove, Clone, Checkout,
               SetHead, Touch, CopyPart, CopyFails, Copied, Destroy, Start, Sweep, SweepAway,
               Goto, TypeOK
      <4>q. QED BY <2>1, <2>2, <2>3, <3>3, <4>1, <4>2, Numbers DEF AheadOK
    <3>q. QED BY <3>1, <3>2, <3>3
  <2>q. QED BY <2>5, <2>6, <2>7 DEF AheadOK
<1>q. QED BY <1>1, <1>2, <1>3 DEF Next

\* Another process's step leaves what p copies recent.
LEMMA BystanderRecent ==
    ASSUME TypeOK, DueOK, RecentOK, NEW p \in Process, NEW q \in Process, q # p,
           Ask(p) \/ Fetch(p) \/ Fail(p) \/ Step(p) \/ Crash(p), pc'[q] \in Holding
    PROVE  (EntryRecent(q) /\ OthersRecent(q) /\ CopyRecent(q))'
<1>1. /\ pc'[q] = pc[q] /\ asked'[q] = asked[q] /\ copy'[q] = copy[q]
      /\ EntryRecent(q) /\ OthersRecent(q) /\ CopyRecent(q)
  BY OthersStay DEF RecentOK
<1>2. EntryRecent(q)'
  <2> SUFFICES ASSUME NEW part \in Part, cache'[part] \in Rev
               PROVE  cache'[part] >= asked[q]
    BY <1>1 DEF EntryRecent
  <2>q. QED BY <1>1, WhoWrites DEF EntryRecent, OthersRecent
<1>3. OthersRecent(q)'
  <2> SUFFICES ASSUME NEW r \in Process, pc'[r] \in Working
               PROVE  fetched'[r] >= asked[q]
    BY <1>1 DEF OthersRecent
  <2>1. CASE r # p  BY <1>1, <2>1, OthersStay DEF OthersRecent
  <2>2. CASE r = p
    <3>1. CASE Fetch(p)
      <4>1. fetched'[p] = remote  BY <3>1 DEF Fetch, TypeOK
      <4>q. QED BY <2>2, <4>1, Numbers DEF DueOK
    <3>2. CASE pc[p] \in Working /\ ~Fetch(p)
      <4>1. fetched'[p] = fetched[p]
        BY <2>2, <3>2 DEF Working, Holding, Ask, Fail, Crash, Step, Lock, GiveUp, Decide, Remove,
                         Clone, Checkout, SetHead, Touch, CopyPart, CopyFails, Copied, Destroy,
                         Start, Sweep, SweepAway, Goto, TypeOK
      <4>q. QED BY <1>1, <2>2, <3>2, <4>1 DEF OthersRecent
    <3>q. QED BY <2>2, <3>1, <3>2, Arrivals
  <2>q. QED BY <2>1, <2>2
<1>4. CopyRecent(q)'  BY <1>1 DEF CopyRecent
<1>q. QED BY <1>2, <1>3, <1>4

LEMMA RecentKept ==
    ASSUME FreshInv, [Next]_vars
    PROVE  RecentOK'
<1> USE DEF FreshInv
<1>1. CASE UNCHANGED vars
  BY <1>1 DEF vars, RecentOK, EntryRecent, OthersRecent, CopyRecent
<1>2. CASE Advance \/ Tick
  BY <1>2 DEF Advance, Tick, RecentOK, EntryRecent, OthersRecent, CopyRecent
<1>3. ASSUME NEW p \in Process, Ask(p) \/ Fetch(p) \/ Fail(p) \/ Step(p) \/ Crash(p),
             NEW q \in Process, pc'[q] \in Holding
      PROVE  (EntryRecent(q) /\ OthersRecent(q) /\ CopyRecent(q))'
  <2>1. CASE q # p  BY <1>3, <2>1, BystanderRecent
  <2>2. CASE q = p /\ Touch(p)
    <3>1. /\ pc[p] = "touch" /\ UNCHANGED <<cache, asked, fetched>>
          /\ copy'[p] = [part \in {} |-> Absent]
          /\ \A r \in Process : r # p => pc'[r] = pc[r]
          /\ pc'[p] = "copying"
      BY <2>2 DEF Touch, TypeOK, Goto
    <3>2. asked[p] <= fetched[p]  BY <3>1 DEF DueOK, Working
    <3>3. EntryRecent(p)'  BY <3>1, <3>2, Numbers DEF EntryRecent, PlacedOK
    <3>4. OthersRecent(p)'
      <4>1. \A r \in Process : r # p => pc[r] \notin Working
        BY <3>1 DEF LockOK, Critical, Git, Working
      <4>q. QED BY <3>1, <4>1 DEF OthersRecent, Working
    <3>5. CopyRecent(p)'  BY <3>1 DEF CopyRecent
    <3>q. QED BY <2>2, <3>3, <3>4, <3>5
  <2>3. CASE q = p /\ CopyPart(p)
    <3>1. PICK part \in Part \ DOMAIN copy[p] :
            copy' = [copy EXCEPT ![p] = [x \in DOMAIN @ \cup {part} |->
                                            IF x = part THEN cache[part] ELSE @[x]]]
      BY <2>3 DEF CopyPart
    <3>2. /\ pc[p] = "copying" /\ UNCHANGED <<cache, asked, fetched, pc>>
          /\ copy'[p] = [x \in DOMAIN copy[p] \cup {part} |->
                            IF x = part THEN cache[part] ELSE copy[p][x]]
      BY <2>3, <3>1 DEF CopyPart, TypeOK
    <3>3. EntryRecent(p) /\ OthersRecent(p) /\ CopyRecent(p)
      BY <3>2 DEF RecentOK, Holding
    <3>4. EntryRecent(p)' /\ OthersRecent(p)'
      BY <3>2, <3>3 DEF EntryRecent, OthersRecent
    <3>5. CopyRecent(p)'
      BY <3>2, <3>3 DEF EntryRecent, CopyRecent
    <3>q. QED BY <2>3, <3>4, <3>5
  <2>4. CASE q = p /\ Copied(p)
    <3>1. /\ pc[p] = "copying" /\ UNCHANGED <<cache, asked, fetched, copy>>
          /\ \A r \in Process : r # p => pc'[r] = pc[r]
          /\ pc'[p] = "ready"
      BY <2>4 DEF Copied, TypeOK, Goto
    <3>2. EntryRecent(p) /\ OthersRecent(p) /\ CopyRecent(p)
      BY <3>1 DEF RecentOK, Holding
    <3>q. QED BY <2>4, <3>1, <3>2 DEF EntryRecent, OthersRecent, CopyRecent, Working
  <2>q. QED BY <1>3, <2>1, <2>2, <2>3, <2>4, Arrivals
<1>4. ASSUME NEW p \in Process, Ask(p) \/ Fetch(p) \/ Fail(p) \/ Step(p) \/ Crash(p),
             NEW q \in Process, pc'[q] = "ready"
      PROVE  DOMAIN copy'[q] = Part
  <2>1. CASE q # p  BY <1>4, <2>1, OthersStay DEF RecentOK
  <2>2. CASE q = p
    <3>1. Touch(p) \/ CopyPart(p) \/ Copied(p)  BY <1>4, <2>2, Arrivals DEF Holding
    <3>2. ~Touch(p) /\ ~CopyPart(p)  BY <1>4, <2>2 DEF Touch, CopyPart, Goto, TypeOK
    <3>q. QED BY <2>2, <3>1, <3>2 DEF Copied
  <2>q. QED BY <2>1, <2>2
<1>q. QED BY <1>1, <1>2, <1>3, <1>4 DEF Next, RecentOK

\* With a lock that excludes, what a request works on is at least as new as the
\* branch was when it came in, for any number of processes, files and crashes.
THEOREM WorkspacesAreRecent == TTL # 0 => (Spec => []CopyIsRecent)
<1>1. Init => FreshInv
  <2> SUFFICES ASSUME Init PROVE FreshInv  OBVIOUS
  <2>1. TypeOK  BY InitTyped
  <2>2. \A p \in Process : pc[p] = "down" /\ asked[p] = 1 /\ remote = 1  BY DEF Init
  <2>3. \A part \in Part : cache[part] \notin Rev  BY Constants DEF Init, Rev
  <2>q. QED BY <2>1, <2>2, <2>3 DEF FreshInv, LockOK, DueOK, PlacedOK, AheadOK, RecentOK, Critical, Git,
                              Working, Holding
<1>2. CASE TTL # 0
  <2>1. FreshInv /\ [Next]_vars => FreshInv'
    BY <1>2, NextTyped, LockKept, DueKept, PlacedKept, AheadKept, RecentKept DEF FreshInv
  <2>2. FreshInv => CopyIsRecent
    <3> SUFFICES ASSUME FreshInv, NEW p \in Process, pc[p] = "ready", NEW part \in Part,
                        copy[p][part] \in Rev
                 PROVE  copy[p][part] >= asked[p]
      BY DEF CopyIsRecent
    <3>q. QED BY DEF FreshInv, RecentOK, Holding, CopyRecent
  <2>q. QED BY <1>1, <2>1, <2>2, PTL DEF Spec
<1>q. QED BY <1>2
=============================================================================
