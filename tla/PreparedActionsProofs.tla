------------------------- MODULE PreparedActionsProofs -------------------------
(***************************************************************************)
(* For every ledger, plan and sequence of calls: no operation tears a      *)
(* directive; a draft differs from its base by what was named; references  *)
(* are followed to the text they were read for; a reconciliation hits its  *)
(* target; the facts sealed with an action are about what its caller       *)
(* named; and what is published was approved and still passes the policy.  *)
(***************************************************************************)
EXTENDS LedgerEditProofs

-----------------------------------------------------------------------------
(* Facts are about the base.                                               *)

\* What a draft asks of the ledger, under the names its caller gave.
OpBacked(d, op) ==
    NamesTransaction(op) =>
        /\ AboutRevision(op.ref) \in d.questions
        /\ StandsFor(history[d.rev], op.ref, op.text)

\* Every draft: its base passes bean-check and its operations are backed.
DraftOK ==
    \A d \in draft :
        /\ {"rev", "asked", "questions"} \subseteq DOMAIN d
        /\ BeanCheck(history[d.rev])
        /\ d.asked \in Seq(Asked)
        /\ \A i \in DOMAIN d.asked : OpBacked(d, d.asked[i])

\* A draft and a pending action are not there together.
OneAtATime == draft = {} \/ action = {}

\* The inductive invariant of FactsAreOfTheBase.
FactsInv == DraftOK /\ OneAtATime /\ FactsNameTheBase

\* The shape of an operation that names a transaction.
LEMMA NamedOps ==
    ASSUME NEW op \in Asked, NamesTransaction(op)
    PROVE  /\ {"kind", "ref", "text"} \subseteq DOMAIN op
           /\ op.kind \in {"update", "delete"}
<1>1. op \notin Requests  BY RequestsAssumption DEF Request, NamesTransaction
<1>2. CASE op \in {[kind |-> "delete", ref |-> s.ref, text |-> s.text] : s \in Shown}
  BY <1>2
<1>3. CASE op \in {[kind |-> "update", ref |-> x[1].ref, text |-> x[1].text, new |-> x[2]] :
                      x \in Shown \X NewText}
  BY <1>3
<1>q. QED BY <1>1, <1>2, <1>3 DEF Asked

\* Facts that were taken of the draft are turned back.
LEMMA QuestionTurnedBack ==
    ASSUME NEW d, NEW op \in Asked, NamesTransaction(op), NEW r,
           NEW here, here = [op EXCEPT !.ref = r],
           NEW names, names = Noted(d.names, here.ref, op.ref)
    PROVE  AboutRevision(op.ref) \in OriginalQuestions(names, QuestionsOf(here))
<1>1. here.kind \in {"update", "delete"} /\ here.ref = r  BY NamedOps
<1>2. AboutRevision(r) \in QuestionsOf(here)  BY <1>1 DEF QuestionsOf
<1>3. r \in DOMAIN names /\ names[r] = op.ref  BY <1>1 DEF Noted
<1>4. /\ AboutRevision(r).kind = "transaction_revision"
      /\ AboutRevision(r).subject.ref = r
  BY DEF AboutRevision
<1>q. QED BY <1>2, <1>3, <1>4 DEF OriginalQuestions

\* An operation that is rebased names a text of the base.
LEMMA RebasedStandsFor ==
    ASSUME NEW d, NEW op, NamesTransaction(op), RebaseCode(d, op) = "ok"
    PROVE  StandsFor(history[d.rev], op.ref, op.text)
<1> DEFINE base == IndexOf(history[d.rev])
<1>1. CASE Resolves(base, op.ref) = {}
  <2>1. RebaseCode(d, op) = RefCode(base, op.ref)  BY <1>1 DEF RebaseCode
  <2>2. RefCode(base, op.ref) # "ok"  BY <1>1 DEF RefCode
  <2>q. QED BY <2>1, <2>2
<1>2. CASE Resolves(base, op.ref) # {} /\ \A e \in Resolves(base, op.ref) : e.text # op.text
  BY <1>2 DEF RebaseCode
<1>q. QED BY <1>1, <1>2 DEF StandsFor

\* Taking an operation keeps the draft's facts about the base.
LEMMA TakeKeeps ==
    ASSUME FactsInv, NEW d \in draft, NEW op \in Asked, Take(d, op)
    PROVE  DraftOK'
<1> DEFINE here  == Rebased(d, op)
           edit  == EditOf(d.ledger, here)
           after == Edited(d.ledger, edit)
           names == IF NamesTransaction(op) THEN Noted(d.names, here.ref, op.ref) ELSE d.names
           more  == OriginalQuestions(names, QuestionsOf(here))
           next  == [d EXCEPT !.ledger    = after,
                              !.positions = Followed(@, edit, d.ledger, after),
                              !.names     = names,
                              !.asked     = Append(@, op),
                              !.edits     = Append(@, edit),
                              !.questions = @ \cup more]
<1>1. /\ draft' = {next} /\ UNCHANGED <<history, action>>
      /\ RebaseCode(d, op) = "ok"
  BY DEF Take
<1>2. /\ {"rev", "asked", "questions"} \subseteq DOMAIN d
      /\ BeanCheck(history[d.rev])
      /\ d.asked \in Seq(Asked)
      /\ \A i \in DOMAIN d.asked : OpBacked(d, d.asked[i])
  BY DEF FactsInv, DraftOK
<1> HIDE DEF here, edit, after, names, more
<1>3. /\ {"rev", "asked", "questions"} \subseteq DOMAIN next
      /\ next.rev = d.rev
      /\ next.asked = Append(d.asked, op)
      /\ next.questions = d.questions \cup more
  BY <1>2
<1> HIDE DEF next
<1>4. next.asked \in Seq(Asked)
  BY <1>2, <1>3, AppendProperties
<1>5. \A i \in DOMAIN next.asked : next.asked[i] = op \/ \E j \in DOMAIN d.asked : next.asked[i] = d.asked[j]
  BY <1>2, <1>3, AppendProperties, LenProperties
<1>6. OpBacked(next, op)
  <2> SUFFICES ASSUME NamesTransaction(op)
               PROVE  /\ AboutRevision(op.ref) \in next.questions
                      /\ StandsFor(history[d.rev], op.ref, op.text)
    BY <1>3 DEF OpBacked
  <2>1. PICK r : here = [op EXCEPT !.ref = r]  BY DEF here, Rebased
  <2>2. names = Noted(d.names, here.ref, op.ref)  BY DEF names
  <2>3. AboutRevision(op.ref) \in more  BY <2>1, <2>2, QuestionTurnedBack DEF more
  <2>q. QED BY <2>3, <1>1, <1>3, RebasedStandsFor
<1>7. \A i \in DOMAIN next.asked : OpBacked(next, next.asked[i])
  BY <1>2, <1>3, <1>5, <1>6 DEF OpBacked
<1>8. Asked' = Asked  BY <1>1 DEF Asked, Shown
<1>q. QED BY <1>1, <1>2, <1>3, <1>4, <1>7, <1>8 DEF DraftOK, OpBacked

\* Sealing captures them.
LEMMA SealKeeps ==
    ASSUME FactsInv, NEW d \in draft, Seal(d)
    PROVE  FactsNameTheBase'
<1> DEFINE base == history[d.rev]
           new  == Sealed("change_set", d.edits, ReadingsOf(base, d.questions), d.rev,
                          d.owner, d.branch, d.layout, 0, d.asked, TRUE)
<1>1. action' = {new}  BY DEF Seal
<1>2. new.asked = d.asked /\ new.facts = ReadingsOf(base, d.questions)  BY DEF Sealed
<1>3. ASSUME NEW i \in DOMAIN d.asked, NamesTransaction(d.asked[i])
      PROVE  Fact(AboutRevision(d.asked[i].ref), [text |-> d.asked[i].text]) \in new.facts
  <2>1. /\ AboutRevision(d.asked[i].ref) \in d.questions
        /\ StandsFor(base, d.asked[i].ref, d.asked[i].text) /\ BeanCheck(base)
    BY <1>3 DEF FactsInv, DraftOK, OpBacked
  <2>q. QED BY <1>2, <2>1, FactOfRef
<1> HIDE DEF new
<1>q. QED BY <1>1, <1>2, <1>3 DEF FactsNameTheBase

\* The facts of one operation that was allowed on a ledger.
LEMMA AllowedFact ==
    ASSUME NEW ledger, NEW op, NamesTransaction(op), Allowed(ledger, op),
           NEW questions, QuestionsOf(op) \subseteq questions
    PROVE  Fact(AboutRevision(op.ref), [text |-> op.text]) \in ReadingsOf(ledger, questions)
<1>1. NamesCurrentRevision(ledger, op)
  <2>1. CASE op.kind = "update"  BY <2>1 DEF Allowed, UpdateAllowed
  <2>2. CASE op.kind = "delete"  BY <2>2 DEF Allowed
  <2>q. QED BY <2>1, <2>2 DEF NamesTransaction
<1>2. BeanCheck(ledger) /\ StandsFor(ledger, op.ref, op.text)
  BY <1>1 DEF NamesCurrentRevision, Named, StandsFor
<1>3. AboutRevision(op.ref) \in QuestionsOf(op)  BY DEF QuestionsOf, NamesTransaction
<1>q. QED BY <1>2, <1>3, FactOfRef

\* An operation on the checkout names a transaction of the checkout.
LEMMA PrepareOneKeeps ==
    ASSUME FactsInv, NEW user \in User, NEW layout \in Layout, NEW op \in Asked,
           PrepareOne(user, layout, op)
    PROVE  FactsNameTheBase'
<1> DEFINE base      == LedgerAt(MainBranch)
           ops       == <<op>>
           questions == UNION {QuestionsOf(ops[i]) : i \in DOMAIN ops}
           edits     == [i \in DOMAIN ops |-> EditOf(base, ops[i])]
           new       == Sealed(TypeOfAction(op), edits, ReadingsOf(base, questions),
                               head[MainBranch], user, MainBranch, layout, BatchOf(op), ops, FALSE)
<1>1. action' = {} \/ (Allowed(base, op) /\ action' = {new})
  BY DEF PrepareOne, PrepareOnCheckout
<1>2. new.asked = ops /\ new.facts = ReadingsOf(base, questions)  BY DEF Sealed
<1>3. DOMAIN ops = {1} /\ ops[1] = op  OBVIOUS
<1>4. QuestionsOf(op) \subseteq questions  BY <1>3
<1>5. Allowed(base, op) /\ NamesTransaction(op)
        => Fact(AboutRevision(op.ref), [text |-> op.text]) \in new.facts
  <2> HIDE DEF base, questions, ops, edits
  <2>q. QED BY <1>2, <1>4, AllowedFact
<1> HIDE DEF new, ops, questions, edits
<1>q. QED BY <1>1, <1>2, <1>3, <1>5 DEF FactsNameTheBase

\* The operations of a set name no transaction.
LEMMA PrepareSetKeeps ==
    ASSUME NEW user \in User, NEW layout \in Layout, NEW n \in Nat,
           NEW ops \in [1 .. n -> Requests], PrepareSet(user, layout, ops)
    PROVE  FactsNameTheBase'
<1> DEFINE base      == LedgerAt(MainBranch)
           questions == UNION {QuestionsOf(ops[i]) : i \in DOMAIN ops}
           edits     == [i \in DOMAIN ops |-> EditOf(base, ops[i])]
           batch     == Cardinality({i \in DOMAIN ops : ops[i].kind = "create"})
           new       == Sealed(TypeOfSet(ops), edits, ReadingsOf(base, questions),
                               head[MainBranch], user, MainBranch, layout, batch, ops, FALSE)
<1>1. \A a \in action' : a.asked = ops
  <2>1. action' = {} \/ action' = {new}  BY DEF PrepareSet, PrepareOnCheckout
  <2>2. new.asked = ops  BY DEF Sealed
  <2> HIDE DEF new
  <2>q. QED BY <2>1, <2>2
<1>2. \A i \in DOMAIN ops : ~NamesTransaction(ops[i])
  BY RequestsAssumption DEF Request, NamesTransaction
<1>q. QED BY <1>1, <1>2 DEF FactsNameTheBase

\* Every step keeps the invariant.
LEMMA FactsKept ==
    ASSUME FactsInv, [Next]_vars
    PROVE  FactsInv'
<1> USE DEF FactsInv, OneAtATime
<1>1. CASE UNCHANGED vars
  BY <1>1 DEF vars, DraftOK, OpBacked, FactsNameTheBase, Asked, Shown
<1>2. ASSUME NEW u \in User, NEW b \in Branch, NEW y \in Layout, Begin(u, b, y) PROVE FactsInv'
  <2>1. \A d \in draft' : /\ {"rev", "asked", "questions"} \subseteq DOMAIN d
                          /\ d.rev = head[b] /\ d.asked = <<>>
    BY <1>2 DEF Begin
  <2>2. BeanCheck(history'[head[b]])  BY <1>2 DEF Begin, LedgerAt
  <2>3. \A d \in draft' : d.asked \in Seq(Asked') /\ DOMAIN d.asked = {}
    <3>1. << >> \in Seq(Asked')  BY EmptySeq
    <3>2. DOMAIN << >> = {}  OBVIOUS
    <3>q. QED BY <2>1, <3>1, <3>2
  <2>4. DraftOK'  BY <2>1, <2>2, <2>3 DEF DraftOK
  <2>5. action' = {}  BY <1>2 DEF Begin
  <2>q. QED BY <2>4, <2>5 DEF FactsNameTheBase
<1>3. ASSUME NEW d \in draft, NEW op \in Asked, Take(d, op) PROVE FactsInv'
  <2>1. UNCHANGED action /\ action = {}  BY <1>3 DEF Take
  <2>q. QED BY <1>3, <2>1, TakeKeeps DEF FactsNameTheBase
<1>4. ASSUME NEW d \in draft, NEW op \in Asked, Refuse(d, op) PROVE FactsInv'
  BY <1>4 DEF Refuse, DraftOK, FactsNameTheBase
<1>5. ASSUME NEW d \in draft, Seal(d) PROVE FactsInv'
  <2>1. draft' = {}  BY <1>5 DEF Seal
  <2>q. QED BY <1>5, <2>1, SealKeeps DEF DraftOK
<1>6. ASSUME NEW d \in draft, SealFails(d) PROVE FactsInv'
  BY <1>6 DEF SealFails, DraftOK, FactsNameTheBase
<1>7. ASSUME NEW u \in User, NEW y \in Layout, NEW op \in Asked, PrepareOne(u, y, op)
      PROVE  FactsInv'
  <2>1. draft' = {}  BY <1>7 DEF PrepareOne, PrepareOnCheckout
  <2>q. QED BY <1>7, <2>1, PrepareOneKeeps DEF DraftOK
<1>8. ASSUME NEW u \in User, NEW y \in Layout, NEW n \in 1 .. MaxOps,
             NEW ops \in [1 .. n -> Requests], PrepareSet(u, y, ops)
      PROVE  FactsInv'
  <2>1. draft' = {}  BY <1>8 DEF PrepareSet, PrepareOnCheckout
  <2>2. n \in Nat  BY RequestsAssumption
  <2>q. QED BY <1>8, <2>1, <2>2, PrepareSetKeeps DEF DraftOK
<1>9. ASSUME NEW b \in Branch, Push(b) PROVE FactsInv'
  <2>1. draft' = {} /\ action' = action  BY <1>9 DEF Push
  <2>q. QED BY <2>1 DEF DraftOK, FactsNameTheBase
<1>10. CASE Tick
  BY <1>10 DEF Tick, DraftOK, OpBacked, FactsNameTheBase, Asked, Shown
<1>11. ASSUME NEW a \in action, NEW u \in User, NEW b \in Branch, NEW y \in Layout,
              NEW rev \in DOMAIN history, ApplySealed(a, u, b, y, rev)
       PROVE  FactsInv'
  <2>1. draft' = {} /\ action' = action  BY <1>11 DEF ApplySealed
  <2>q. QED BY <2>1 DEF DraftOK, FactsNameTheBase
<1>12. ASSUME NEW a \in action, NEW u \in User, NEW y \in Layout, NEW route \in Routes,
              NEW proof \in Proofs, ApplyApproved(a, u, y, route, proof)
       PROVE  FactsInv'
  <2>1. draft' = {} /\ action' = action  BY <1>12 DEF ApplyApproved
  <2>q. QED BY <2>1 DEF DraftOK, FactsNameTheBase
<1>q. QED BY <1>1, <1>2, <1>3, <1>4, <1>5, <1>6, <1>7, <1>8, <1>9, <1>10, <1>11, <1>12 DEF Next

\* Whatever the ledger, the operations and what anybody pushes: the facts of a
\* pending action are about what its caller named, as it was when it was read.
THEOREM FactsAreOfTheBase == Spec => []FactsNameTheBase
<1>1. Init => FactsInv  BY DEF Init, FactsInv, DraftOK, OneAtATime, FactsNameTheBase
<1>2. FactsInv /\ [Next]_vars => FactsInv'  BY FactsKept
<1>3. FactsInv => FactsNameTheBase  BY DEF FactsInv
<1>q. QED BY <1>1, <1>2, <1>3, PTL DEF Spec

-----------------------------------------------------------------------------
(* What is published was approved.                                         *)

\* What the two ways of applying compare before they execute.
Approved(a, request, before) ==
    /\ request.layout = a.layout
    /\ request.route = "runtime" =>
          request.user = a.owner /\ request.branch = a.branch /\ before = a.rev
    /\ request.route # "runtime" /\ NeedsReview(a) => request.proof = "this"

\* What is executed after that was approved ...
LEMMA ExecuteApproved ==
    ASSUME AppliedAsApproved, age \in Nat, ~Expired,
           NEW a, NEW branch, NEW request, Execute(a, branch, request),
           Approved(a, request, head[branch])
    PROVE  AppliedAsApproved'
<1>1. age < TTL  BY RequestsAssumption DEF Expired
<1>2. CASE UNCHANGED receipt  BY <1>2 DEF AppliedAsApproved, NeedsReview
<1>3. CASE receipt' = {[action |-> a, request |-> request, age |-> age,
                        before |-> head[branch], after |-> Len(history) + 1]}
  BY <1>1, <1>3 DEF AppliedAsApproved, Approved, NeedsReview
<1>q. QED BY <1>2, <1>3 DEF Execute

\* ... through the runtime ...
LEMMA SealedApplyApproved ==
    ASSUME AppliedAsApproved, age \in Nat, NEW a \in action,
           NEW user, NEW branch, NEW layout, NEW rev, ApplySealed(a, user, branch, layout, rev)
    PROVE  AppliedAsApproved'
<1> DEFINE request == [route |-> "runtime", user |-> user, branch |-> branch,
                       layout |-> layout, rev |-> rev, proof |-> "none"]
<1>1. CASE UNCHANGED receipt  BY <1>1 DEF AppliedAsApproved, NeedsReview
<1>2. CASE ~Expired /\ Bound(a, request) /\ head[branch] = a.rev /\ Execute(a, branch, request)
  <2>1. Approved(a, request, head[branch])  BY <1>2 DEF Approved, Bound
  <2> HIDE DEF request
  <2>q. QED BY <1>2, <2>1, ExecuteApproved
<1>q. QED BY <1>1, <1>2 DEF ApplySealed

\* ... and through the host.
LEMMA HostApplyApproved ==
    ASSUME AppliedAsApproved, age \in Nat, NEW a \in action,
           NEW user, NEW layout, NEW route \in Routes, NEW proof,
           ApplyApproved(a, user, layout, route, proof)
    PROVE  AppliedAsApproved'
<1> DEFINE request == [route |-> route, user |-> user, branch |-> MainBranch,
                       layout |-> layout, rev |-> head[MainBranch], proof |-> proof]
<1>1. CASE UNCHANGED receipt  BY <1>1 DEF AppliedAsApproved, NeedsReview
<1>2. CASE /\ ~Expired /\ ProofHolds(a, route, proof) /\ layout = a.layout
           /\ Execute(a, MainBranch, request)
  <2>1. Approved(a, request, head[MainBranch])  BY <1>2 DEF Approved, ProofHolds, Routes
  <2> HIDE DEF request
  <2>q. QED BY <1>2, <2>1, ExecuteApproved
<1>q. QED BY <1>1, <1>2 DEF ApplyApproved

\* Whatever is published was sealed for that layout and, through the runtime,
\* for that owner, branch and very revision; through the host an action that
\* needs a review had a proof of it; and none had expired.
THEOREM PublishedAsApproved == Spec => []AppliedAsApproved
<1> DEFINE Inv == AppliedAsApproved /\ age \in Nat
<1>1. Init => Inv  BY DEF Init, AppliedAsApproved
<1>2. Inv /\ [Next]_vars => Inv'
  <2> SUFFICES ASSUME Inv, [Next]_vars PROVE Inv'  OBVIOUS
  <2>1. UNCHANGED <<receipt, age>> => Inv'
    BY DEF AppliedAsApproved, NeedsReview
  <2>2. Tick => Inv'
    <3> SUFFICES ASSUME Tick PROVE Inv'  OBVIOUS
    <3>1. age' \in Nat /\ UNCHANGED receipt  BY DEF Tick
    <3>q. QED BY <3>1 DEF AppliedAsApproved, NeedsReview
  <2>3. UNCHANGED receipt /\ age' = 0 => Inv'
    BY DEF AppliedAsApproved, NeedsReview
  <2>4. ASSUME NEW d \in draft, NEW op \in Asked, Take(d, op) \/ Refuse(d, op)
        PROVE  UNCHANGED <<receipt, age>>
    BY <2>4 DEF Take, Refuse
  <2>5. ASSUME NEW d \in draft, Seal(d) \/ SealFails(d)
        PROVE  (UNCHANGED receipt /\ age' = 0) \/ UNCHANGED <<receipt, age>>
    BY <2>5 DEF Seal, SealFails
  <2>6. ASSUME NEW u \in User, NEW y \in Layout, NEW op \in Asked, PrepareOne(u, y, op)
        PROVE  UNCHANGED receipt /\ age' = 0
    BY <2>6 DEF PrepareOne, PrepareOnCheckout
  <2>7. ASSUME NEW u \in User, NEW y \in Layout, NEW n \in 1 .. MaxOps,
               NEW ops \in [1 .. n -> Requests], PrepareSet(u, y, ops)
        PROVE  UNCHANGED receipt /\ age' = 0
    BY <2>7 DEF PrepareSet, PrepareOnCheckout
  <2>8. /\ \A u \in User, b \in Branch, y \in Layout : Begin(u, b, y) => UNCHANGED <<receipt, age>>
        /\ \A b \in Branch : Push(b) => UNCHANGED <<receipt, age>>
    BY DEF Begin, Push
  <2>9. ASSUME NEW a \in action, NEW u \in User, NEW b \in Branch, NEW y \in Layout,
               NEW rev \in DOMAIN history, ApplySealed(a, u, b, y, rev)
        PROVE  Inv'
    <3>1. UNCHANGED age  BY <2>9 DEF ApplySealed
    <3>q. QED BY <3>1, <2>9, SealedApplyApproved
  <2>10. ASSUME NEW a \in action, NEW u \in User, NEW y \in Layout, NEW route \in Routes,
                NEW proof \in Proofs, ApplyApproved(a, u, y, route, proof)
         PROVE  Inv'
    <3>1. UNCHANGED age  BY <2>10 DEF ApplyApproved
    <3>q. QED BY <3>1, <2>10, HostApplyApproved
  <2>11. UNCHANGED vars => UNCHANGED <<receipt, age>>  BY DEF vars
  <2> HIDE DEF Inv
  <2>12. CASE \E u \in User, b \in Branch, y \in Layout : Begin(u, b, y)
    BY <2>12, <2>1, <2>8
  <2>13. CASE \E d \in draft : \E op \in Asked : Take(d, op) \/ Refuse(d, op)
    BY <2>13, <2>1, <2>4
  <2>14. CASE \E d \in draft : Seal(d) \/ SealFails(d)
    BY <2>14, <2>1, <2>3, <2>5
  <2>15. CASE \E u \in User, y \in Layout, op \in Asked : PrepareOne(u, y, op)
    BY <2>15, <2>3, <2>6
  <2>16. CASE \E u \in User, y \in Layout, n \in 1 .. MaxOps :
                \E ops \in [1 .. n -> Requests] : PrepareSet(u, y, ops)
    BY <2>16, <2>3, <2>7
  <2>17. CASE \E b \in Branch : Push(b)
    BY <2>17, <2>1, <2>8
  <2>18. CASE \E a \in action, u \in User, b \in Branch, y \in Layout, rev \in DOMAIN history :
                ApplySealed(a, u, b, y, rev)
    BY <2>18, <2>9
  <2>19. CASE \E a \in action, u \in User, y \in Layout, route \in Routes, proof \in Proofs :
                ApplyApproved(a, u, y, route, proof)
    BY <2>19, <2>10
  <2>q. QED BY <2>1, <2>2, <2>11, <2>12, <2>13, <2>14, <2>15, <2>16, <2>17, <2>18, <2>19 DEF Next
<1>3. Inv => AppliedAsApproved  OBVIOUS
<1> HIDE DEF Inv
<1>q. QED BY <1>1, <1>2, <1>3, PTL DEF Spec

\* The operations a caller may ask for.
LEMMA AskedOps ==
    ASSUME history \in Seq(WholeLedger)
    PROVE  Asked \subseteq Operation
<1>1. ASSUME NEW s \in Shown PROVE s.ref \in Reference /\ s.text \in Text
  <2>1. PICK rev \in DOMAIN history :
            s \in {[ref |-> e.ref, text |-> e.text] : e \in IndexOf(history[rev])}
    BY DEF Shown
  <2>2. PICK e \in IndexOf(history[rev]) : s = [ref |-> e.ref, text |-> e.text]  BY <2>1
  <2>3. history[rev] \in WholeLedger  BY ElementOfSeq, LenProperties
  <2> DEFINE p == e.ref.path
             k == e.ref.start
  <2>4. /\ e.ref \in Reference /\ p \in Path /\ k \in Headers(history[rev][p])
        /\ e.text = TextAt(history[rev][p], k)
    BY <2>3, IndexShape
  <2>5. history[rev][p] \in File /\ Whole(history[rev][p].lines)
    BY <2>3, <2>4, LedgerFiles DEF WholeLedger
  <2>6. e.text \in Text  BY <2>4, <2>5, TextAtHeader
  <2>q. QED BY <2>2, <2>4, <2>6
<1>2. Requests \subseteq Request /\ NewText \subseteq Transaction  BY RequestsAssumption
<1> SUFFICES ASSUME NEW op \in Asked PROVE op \in Operation  OBVIOUS
<1>3. CASE op \in Requests  BY <1>2, <1>3 DEF Operation
<1>4. CASE op \in {[kind |-> "delete", ref |-> s.ref, text |-> s.text] : s \in Shown}
  BY <1>1, <1>4 DEF Operation
<1>5. CASE op \in {[kind |-> "update", ref |-> x[1].ref, text |-> x[1].text, new |-> x[2]] :
                      x \in Shown \X NewText}
  <2>1. PICK x \in Shown \X NewText :
            op = [kind |-> "update", ref |-> x[1].ref, text |-> x[1].text, new |-> x[2]]
    BY <1>5
  <2>2. x[1] \in Shown /\ x[2] \in Transaction  BY <1>2
  <2>q. QED BY <1>1, <2>1, <2>2 DEF Operation
<1>q. QED BY <1>3, <1>4, <1>5 DEF Asked

-----------------------------------------------------------------------------
(* The states there are.                                                   *)

\* A set of one member, or none.
AtMostOne(S) == S = {} \/ \E x : S = {x}

\* What a draft is made of.
DraftTyped(d) ==
    /\ {"owner", "rev", "ledger", "positions", "names", "asked", "edits", "questions"}
          \subseteq DOMAIN d
    /\ d.owner \in User /\ d.rev \in DOMAIN history
    /\ Sound(d.ledger) /\ d.asked \in Seq(Operation) /\ d.edits \in Seq(Edit)

\* What a pending action is made of.
ActionTyped(a) ==
    /\ a.owner \in User /\ a.rev \in DOMAIN history
    /\ a.asked \in Seq(Operation) /\ a.edits \in Seq(Edit)

\* Every revision is a ledger without a torn directive, and every branch is at one.
HistoryTyped == history \in Seq(WholeLedger) /\ head \in [Branch -> DOMAIN history]

\* One change set or action at a time.
OneWork == AtMostOne(draft) /\ AtMostOne(action) /\ (draft = {} \/ action = {})

\* The inductive invariant of SplicesKeepDirectives.
Typed ==
    /\ HistoryTyped /\ OneWork
    /\ \A d \in draft : DraftTyped(d)
    /\ \A a \in action : ActionTyped(a)
    /\ \A r \in receipt : r.before \in DOMAIN history
    /\ age \in 0 .. TTL /\ answer \in Answers

\* The ledger of a branch is that of a revision.
LEMMA HistoryShape ==
    ASSUME HistoryTyped
    PROVE  /\ DOMAIN history = 1 .. Len(history) /\ Len(history) \in Nat
           /\ \A i \in DOMAIN history : history[i] \in WholeLedger
           /\ \A b \in Branch : head[b] \in DOMAIN history /\ LedgerAt(b) \in WholeLedger
<1>1. DOMAIN history = 1 .. Len(history) /\ Len(history) \in Nat
  BY LenProperties DEF HistoryTyped
<1>2. \A i \in DOMAIN history : history[i] \in WholeLedger
  BY <1>1, ElementOfSeq DEF HistoryTyped
<1>3. \A b \in Branch : head[b] \in DOMAIN history  BY DEF HistoryTyped
<1>q. QED BY <1>1, <1>2, <1>3 DEF LedgerAt

\* A commit adds a revision and moves a branch to it.
LEMMA Committed ==
    ASSUME HistoryTyped, NEW branch \in Branch, NEW ledger \in WholeLedger,
           Commit(branch, ledger)
    PROVE  /\ HistoryTyped'
           /\ DOMAIN history \subseteq DOMAIN history'
           /\ \A i \in DOMAIN history : history'[i] = history[i]
<1>1. /\ history' = Append(history, ledger)
      /\ head' = [head EXCEPT ![branch] = Len(history) + 1]
  BY DEF Commit
<1>2. /\ DOMAIN history = 1 .. Len(history) /\ Len(history) \in Nat
      /\ history \in Seq(WholeLedger) /\ head \in [Branch -> DOMAIN history]
  BY HistoryShape DEF HistoryTyped
<1>3. /\ history' \in Seq(WholeLedger) /\ Len(history') = Len(history) + 1
      /\ \A i \in 1 .. Len(history) : history'[i] = history[i]
  BY <1>1, <1>2, AppendedTo
<1>4. DOMAIN history' = 1 .. Len(history')  BY <1>3, LenProperties
<1> DEFINE n == Len(history)
<1>5. DOMAIN history' = 1 .. n + 1 /\ n \in Nat /\ DOMAIN history = 1 .. n  BY <1>2, <1>3, <1>4
<1> HIDE DEF n
<1>6. head' \in [Branch -> DOMAIN history']
  <2>1. n + 1 \in DOMAIN history' /\ DOMAIN history \subseteq DOMAIN history'  BY <1>5
  <2>2. head' = [head EXCEPT ![branch] = n + 1]  BY <1>1 DEF n
  <2>q. QED BY <1>2, <2>1, <2>2
<1>q. QED BY <1>2, <1>3, <1>5, <1>6 DEF HistoryTyped

\* The reference an operation has in the draft.
LEMMA RebasedShape ==
    ASSUME NEW d, Sound(d.ledger), NEW op \in Operation, RebaseCode(d, op) = "ok"
    PROVE  /\ Rebased(d, op) \in Operation
           /\ ~NamesTransaction(op) => Rebased(d, op) = op
           /\ NamesTransaction(op) =>
                 /\ op.ref \in Reference /\ op.text \in Text
                 /\ op.kind = "update" => op.new \in Transaction
                 /\ d.ledger \in WholeLedger
                 /\ \E e \in Matches(d, op) : Rebased(d, op) = [op EXCEPT !.ref = e.ref]
<1>1. CASE ~NamesTransaction(op)
  BY <1>1 DEF Rebased
<1>2. CASE NamesTransaction(op)
  <2>1. \/ op \in [kind : {"delete"}, ref : Reference, text : Text]
        \/ op \in [kind : {"update"}, ref : Reference, text : Text, new : Transaction]
    BY <1>2 DEF Operation, Request, NamesTransaction
  <2>2. op.ref \in Reference /\ op.text \in Text /\ (op.kind = "update" => op.new \in Transaction)
    BY <2>1
  <2>3. BeanCheck(d.ledger) /\ Cardinality(Matches(d, op)) = 1
    <3> DEFINE base == IndexOf(history[d.rev])
               original == Resolves(base, op.ref)
    <3>1. original = {} => RefCode(base, op.ref) # "ok"  BY DEF RefCode
    <3> HIDE DEF original, base
    <3>q. QED BY <1>2, <3>1 DEF RebaseCode, original, base
  <2>4. Matches(d, op) # {}  BY <2>3, FS_EmptySet
  <2>5. d.ledger \in WholeLedger  BY <2>3, SoundIsWhole DEF BeanCheck
  <2> DEFINE e == CHOOSE e \in Matches(d, op) : TRUE
  <2>6. e \in Matches(d, op)  BY <2>4
  <2>7. Rebased(d, op) = [op EXCEPT !.ref = e.ref]  BY <1>2 DEF Rebased
  <2> HIDE DEF e
  <2>8. e.ref \in Reference
    <3>1. e \in IndexOf(d.ledger)  BY <2>6 DEF Matches
    <3>q. QED BY <2>5, <3>1, IndexShape
  <2>9. Rebased(d, op) \in Operation
    <3>1. CASE op \in [kind : {"delete"}, ref : Reference, text : Text]
      <4>1. Rebased(d, op) \in [kind : {"delete"}, ref : Reference, text : Text]
        BY <2>7, <2>8, <3>1
      <4>q. QED BY <4>1 DEF Operation
    <3>2. CASE op \in [kind : {"update"}, ref : Reference, text : Text, new : Transaction]
      <4>1. Rebased(d, op) \in [kind : {"update"}, ref : Reference, text : Text, new : Transaction]
        BY <2>7, <2>8, <3>2
      <4>q. QED BY <4>1 DEF Operation
    <3>q. QED BY <2>1, <3>1, <3>2
  <2>q. QED BY <1>2, <2>2, <2>5, <2>6, <2>7, <2>9
<1>q. QED BY <1>1, <1>2

\* What a step on a draft makes of it.
Taken(d, op, next) ==
    LET here  == Rebased(d, op)
        edit  == EditOf(d.ledger, here)
        after == Edited(d.ledger, edit)
        names == IF NamesTransaction(op) THEN Noted(d.names, here.ref, op.ref) ELSE d.names
    IN  /\ RebaseCode(d, op) = "ok" /\ Allowed(d.ledger, here)
        /\ edit \in Edit /\ EditPossible(d.ledger, edit) /\ here \in Operation
        /\ next.owner = d.owner /\ next.rev = d.rev
        /\ next.ledger = after
        /\ next.positions = Followed(d.positions, edit, d.ledger, after)
        /\ next.names = names
        /\ next.asked = Append(d.asked, op)
        /\ next.edits = Append(d.edits, edit)
        /\ next.questions = d.questions \cup OriginalQuestions(names, QuestionsOf(here))

\* What taking an operation does.
LEMMA TakeIs ==
    ASSUME HistoryTyped, NEW d \in draft, DraftTyped(d), NEW op \in Asked, Take(d, op)
    PROVE  /\ UNCHANGED <<history, head, action, age, receipt, answer>>
           /\ op \in Operation
           /\ \E next : draft' = {next} /\ Taken(d, op, next) /\ DraftTyped(next)'
<1> DEFINE here  == Rebased(d, op)
           edit  == EditOf(d.ledger, here)
           after == Edited(d.ledger, edit)
           names == IF NamesTransaction(op) THEN Noted(d.names, here.ref, op.ref) ELSE d.names
           more  == OriginalQuestions(names, QuestionsOf(here))
           next  == [d EXCEPT !.ledger    = after,
                              !.positions = Followed(@, edit, d.ledger, after),
                              !.names     = names,
                              !.asked     = Append(@, op),
                              !.edits     = Append(@, edit),
                              !.questions = @ \cup more]
<1>1. /\ draft' = {next} /\ UNCHANGED <<history, head, action, age, receipt, answer>>
      /\ RebaseCode(d, op) = "ok" /\ Allowed(d.ledger, here)
  BY DEF Take
<1>2. op \in Operation  BY AskedOps DEF HistoryTyped
<1>3. /\ {"owner", "rev", "ledger", "positions", "names", "asked", "edits", "questions"}
            \subseteq DOMAIN d
      /\ d.owner \in User /\ d.rev \in DOMAIN history
      /\ Sound(d.ledger) /\ d.asked \in Seq(Operation) /\ d.edits \in Seq(Edit)
  BY DEF DraftTyped
<1> HIDE DEF here
<1>4. here \in Operation  BY <1>1, <1>2, <1>3, RebasedShape DEF here
<1>5. edit \in Edit /\ EditPossible(d.ledger, edit)  BY <1>1, <1>3, <1>4, EditOfAllowed
<1> HIDE DEF edit
<1>6. Sound(after)  BY <1>3, <1>5, EditsAreOK, EditSound
<1> HIDE DEF after, names, more
<1>7. /\ next.owner = d.owner /\ next.rev = d.rev
      /\ next.ledger = after
      /\ next.positions = Followed(d.positions, edit, d.ledger, after)
      /\ next.names = names
      /\ next.asked = Append(d.asked, op)
      /\ next.edits = Append(d.edits, edit)
      /\ next.questions = d.questions \cup more
      /\ DOMAIN next = DOMAIN d
  BY <1>3
<1> HIDE DEF next
<1>8. Taken(d, op, next)  BY <1>1, <1>4, <1>5, <1>7 DEF Taken, here, edit, after, names, more
<1>9. Append(d.asked, op) \in Seq(Operation) /\ Append(d.edits, edit) \in Seq(Edit)
  BY <1>2, <1>3, <1>5, AppendedTo
<1>10. DraftTyped(next)'
  <2>1. next.rev \in DOMAIN history'  BY <1>1, <1>3, <1>7
  <2>q. QED BY <1>3, <1>6, <1>7, <1>9, <2>1 DEF DraftTyped
<1>q. QED BY <1>1, <1>2, <1>8, <1>10

-----------------------------------------------------------------------------
(* What the user pushes tears nothing.                                     *)

\* Another whole version of one file.
LEMMA OneFileWhole ==
    ASSUME NEW ledger \in WholeLedger, NEW p \in Path, NEW file \in File, Whole(file.lines)
    PROVE  [ledger EXCEPT ![p] = file] \in WholeLedger
<1> DEFINE new == [ledger EXCEPT ![p] = file]
<1>1. ledger \in Ledger /\ \A q \in Path : Whole(ledger[q].lines)  BY DEF WholeLedger
<1>2. new \in Ledger /\ new[p] = file /\ \A q \in Path \ {p} : new[q] = ledger[q]
  BY <1>1 DEF Ledger
<1> HIDE DEF new
<1>3. new \in WholeLedger  BY <1>1, <1>2 DEF WholeLedger
<1>q. QED BY <1>3 DEF new

\* The user's appends, removals and annotations tear nothing.
LEMMA PushedWhole ==
    ASSUME NEW ledger \in WholeLedger, NEW says \in Directive, NEW p \in Path
    PROVE  [ledger EXCEPT ![p] = Appended(@, TextOf(<<says>>))] \in WholeLedger
<1> DEFINE file == ledger[p]
           text == TextOf(<<says>>)
           new  == Appended(file, text)
<1>1. ledger \in Ledger /\ Whole(file.lines)  BY DEF WholeLedger
<1>2. file \in File /\ file.lines \in Seq(Line)  BY <1>1, LedgerFiles
<1>3. <<says>> \in Seq(Directive)  BY Tuple1
<1>4. text \in Seq(Line) /\ Whole(text)  BY <1>3, TextWhole
<1>5. [ledger EXCEPT ![p] = Appended(@, text)] = [ledger EXCEPT ![p] = new]
  BY <1>1 DEF Ledger
<1> HIDE DEF file, text
<1>6. PICK mid \in {text, Below(text)} :
          Whole(mid) /\ Changed(file, new, Len(file.lines), Len(file.lines), mid)
  BY <1>2, <1>4, AppendedIs
<1> HIDE DEF new
<1>7. new \in File /\ Spliced(file.lines, Len(file.lines), Len(file.lines), mid, new.lines)
  BY <1>6 DEF Changed
<1>8. Whole(new.lines)
  <2>1. Clean(file.lines, Len(file.lines))  BY <1>1, <1>2, CleanEnds
  <2>q. QED BY <1>1, <1>2, <1>6, <1>7, <2>1, SplicedWhole
<1>9. [ledger EXCEPT ![p] = new] \in WholeLedger  BY <1>7, <1>8, OneFileWhole
<1>q. QED BY <1>5, <1>9 DEF text

\* A transaction is removed as a whole.
LEMMA RemovedWhole ==
    ASSUME NEW ledger \in WholeLedger, NEW e \in Transactions(ledger)
    PROVE  [ledger EXCEPT ![e.path] =
               Deleted(@, TextAt(ledger[e.path], e.line), e.line)] \in WholeLedger
<1> DEFINE p    == e.path
           k    == e.line
           file == ledger[p]
           text == TextAt(file, k)
           new  == Deleted(file, text, k)
<1>1. ledger \in Ledger /\ e \in Placed(ledger) /\ e.says.kind = "txn"
  BY DEF WholeLedger, Transactions
<1>2. /\ p \in Path /\ k \in 1 .. Len(file.lines) /\ file.lines[k] = <<e.says, 1>>
      /\ e.says \in Directive
  BY <1>1, PlacedShape
<1>3. file \in File /\ file.lines \in Seq(Line) /\ Whole(file.lines)
  BY <1>1, <1>2, LedgerFiles DEF WholeLedger
<1>4. k \in Headers(file)
  <2>1. DOMAIN file.lines = 1 .. Len(file.lines)  BY <1>3, FileShape
  <2>2. <<e.says, 1>>[1] = e.says /\ <<e.says, 1>>[2] = 1  OBVIOUS
  <2>q. QED BY <1>1, <1>2, <2>1, <2>2 DEF Headers, IsHeader
<1>5. /\ text \in Text /\ Bears(file.lines, text, k)
  <2> HIDE DEF file, k
  <2>q. QED BY <1>3, <1>4, TextAtHeader
<1>6. [ledger EXCEPT ![p] = Deleted(@, text, k)] = [ledger EXCEPT ![p] = new]
  BY <1>1 DEF Ledger
<1> DEFINE a == k - 1
           b == k + Size(text) - 1
<1> HIDE DEF text, file
<1>7. Changed(file, new, a, b, <<>>)  BY <1>3, <1>5, DeletedIs
<1> HIDE DEF new
<1>8. new \in File /\ Spliced(file.lines, a, b, <<>>, new.lines)  BY <1>7 DEF Changed
<1>9. Clean(file.lines, a) /\ Clean(file.lines, b)  BY <1>3, <1>5, BearsStruck, StruckShape
<1>10. Whole(<<>>)  BY DEF Whole
<1> HIDE DEF a, b
<1>11. Whole(new.lines)  BY <1>3, <1>8, <1>9, <1>10, SplicedWhole
<1>12. [ledger EXCEPT ![p] = new] \in WholeLedger  BY <1>2, <1>8, <1>11, OneFileWhole
<1>q. QED BY <1>6, <1>12 DEF text, file

\* A comment below a transaction makes the file one line longer.
LEMMA AnnotatedWhole ==
    ASSUME NEW ledger \in WholeLedger, NEW e \in Transactions(ledger)
    PROVE  [ledger EXCEPT ![e.path] = Annotated(@, e.line)] \in WholeLedger
<1> DEFINE p     == e.path
           k     == e.line
           file  == ledger[p]
           end   == EndOf(file, k)
           text  == TextAt(file, k)
           lines == SubSeq(file.lines, 1, end) \o <<Note>>
                        \o SubSeq(file.lines, end + 1, Len(file.lines))
           new   == Annotated(file, k)
<1>1. ledger \in Ledger /\ e \in Placed(ledger) /\ e.says.kind = "txn"
  BY DEF WholeLedger, Transactions
<1>2. /\ p \in Path /\ k \in 1 .. Len(file.lines) /\ file.lines[k] = <<e.says, 1>>
  BY <1>1, PlacedShape
<1>3. file \in File /\ file.lines \in Seq(Line) /\ Whole(file.lines)
  BY <1>1, <1>2, LedgerFiles DEF WholeLedger
<1>4. k \in Headers(file)
  <2>1. DOMAIN file.lines = 1 .. Len(file.lines)  BY <1>3, FileShape
  <2>2. <<e.says, 1>>[1] = e.says /\ <<e.says, 1>>[2] = 1  OBVIOUS
  <2>q. QED BY <1>1, <1>2, <2>1, <2>2 DEF Headers, IsHeader
<1>5. /\ text \in Text /\ Bears(file.lines, text, k)
      /\ end = k + Size(text) - 1 /\ end \in k + 2 .. Len(file.lines)
  <2> HIDE DEF file, k
  <2>q. QED BY <1>3, <1>4, TextAtHeader
<1>6. [ledger EXCEPT ![p] = Annotated(@, k)] = [ledger EXCEPT ![p] = new]
  BY <1>1 DEF Ledger
<1>7. new = [file EXCEPT !.lines = lines]  BY DEF Annotated
<1> HIDE DEF text, file, end, new, k
<1>8. Clean(file.lines, end)  BY <1>3, <1>5, BearsStruck, StruckShape
<1>9. <<Note>> \in Seq(Line) /\ Whole(<<Note>>)
  <2>1. Note \in Line /\ Note \in Loose  BY LineShape
  <2>2. <<Note>> \in Seq(Line) /\ DOMAIN <<Note>> = {1} /\ <<Note>>[1] = Note  BY <2>1, Tuple1
  <2> HIDE DEF Note
  <2>q. QED BY <2>1, <2>2 DEF Whole
<1>10. end \in 0 .. Len(file.lines) /\ end \in end .. Len(file.lines)
  <2>1. Len(file.lines) \in Nat /\ k \in Nat  BY <1>2, <1>3, LenProperties DEF file, k
  <2>q. QED BY <1>5, <2>1
<1>11. Spliced(file.lines, end, end, <<Note>>, lines)
  <2> DEFINE mid == <<Note>>
  <2>1. mid \in Seq(Line)  BY <1>9
  <2> HIDE DEF mid
  <2>2. Spliced(file.lines, end, end, mid,
                SubSeq(file.lines, 1, end) \o mid \o SubSeq(file.lines, end + 1, Len(file.lines)))
    BY <1>3, <1>10, <2>1, SpliceOf
  <2>q. QED BY <2>2 DEF mid
<1> HIDE DEF lines
<1>12. Whole(lines) /\ lines \in Seq(Line)
  <2> DEFINE mid == <<Note>>
  <2>1. Whole(mid) /\ Spliced(file.lines, end, end, mid, lines)  BY <1>9, <1>11
  <2> HIDE DEF mid
  <2>q. QED BY <1>3, <1>8, <2>1, SplicedWhole DEF Spliced
<1>13. new \in File /\ new.lines = lines
  <2> DEFINE L == Seq(Line)
  <2>1. file \in [lines : L, ended : BOOLEAN, opens : SUBSET Opening]  BY <1>3 DEF File
  <2>2. lines \in L  BY <1>12
  <2> HIDE DEF L
  <2>3. new \in [lines : L, ended : BOOLEAN, opens : SUBSET Opening] /\ new.lines = lines
    BY <1>7, <2>1, <2>2
  <2>q. QED BY <2>3 DEF L, File
<1>14. [ledger EXCEPT ![p] = new] \in WholeLedger  BY <1>2, <1>12, <1>13, OneFileWhole
<1>q. QED BY <1>6, <1>14 DEF k

-----------------------------------------------------------------------------
(* The steps.                                                              *)

\* What applying an action may do.
Publishes(a, branch, request, l) ==
    /\ l \in WholeLedger /\ BeanCheck(l)
    /\ Replayed(LedgerAt(branch), a.edits) = {l}
    /\ PreconditionsHold(a, LedgerAt(branch))
    /\ Commit(branch, l)
    /\ receipt' = {[action |-> a, request |-> request, age |-> age,
                    before |-> head[branch], after |-> Len(history) + 1]}

\* What executing does.
LEMMA ExecuteIs ==
    ASSUME HistoryTyped, NEW a, a.edits \in Seq(Edit), NEW branch \in Branch, NEW request,
           Execute(a, branch, request)
    PROVE  /\ answer' \in Answers
           /\ \/ UNCHANGED <<history, head, receipt>>
              \/ \E l : Publishes(a, branch, request, l)
<1> DEFINE ledger == LedgerAt(branch)
           after  == Replayed(ledger, a.edits)
<1>1. answer' \in Answers  BY DEF Execute, Answers
<1>2. CASE /\ PreconditionsHold(a, ledger) /\ Validates(ledger, a.edits)
           /\ \E l \in after : Commit(branch, l)
           /\ receipt' = {[action |-> a, request |-> request, age |-> age,
                           before |-> head[branch], after |-> Len(history) + 1]}
  <2>1. PICK l \in after : Commit(branch, l)  BY <1>2
  <2>2. PICK m \in after : BeanCheck(m)  BY <1>2 DEF Validates
  <2>3. Sound(ledger)  BY HistoryShape, WholeIsSound
  <2>4. \A x \in after : Sound(x) /\ \A y \in after : y = x
    <3> HIDE DEF ledger
    <3>q. QED BY <2>3, EditsAreOK, ReplaySound
  <2> HIDE DEF after
  <2>5. after = {l} /\ BeanCheck(l) /\ Sound(l)  BY <2>1, <2>2, <2>4
  <2>6. l \in WholeLedger  BY <2>5, SoundIsWhole DEF BeanCheck
  <2>7. Publishes(a, branch, request, l)  BY <1>2, <2>1, <2>5, <2>6 DEF Publishes, after
  <2>q. QED BY <1>1, <2>7
<1>3. CASE UNCHANGED <<history, head, receipt>>  BY <1>1, <1>3
<1>q. QED BY <1>2, <1>3 DEF Execute

\* What the actions that apply one do to the rest of the state.
Applies(a) ==
    /\ draft = {} /\ UNCHANGED <<draft, action, age>> /\ answer' \in Answers
    /\ \/ UNCHANGED <<history, head, receipt>>
       \/ \E branch \in Branch : \E request, l : Publishes(a, branch, request, l)

\* Both ways of applying execute, or change nothing.
LEMMA AppliesIs ==
    ASSUME Typed, NEW a \in action, NEW u \in User, NEW b \in Branch, NEW y \in Layout
    PROVE  /\ \A rev \in DOMAIN history : ApplySealed(a, u, b, y, rev) => Applies(a)
           /\ \A route \in Routes, proof \in Proofs :
                 ApplyApproved(a, u, y, route, proof) => Applies(a)
<1>0. HistoryTyped /\ a.edits \in Seq(Edit)  BY DEF Typed, ActionTyped
<1>1. ASSUME NEW rev \in DOMAIN history, ApplySealed(a, u, b, y, rev)
      PROVE  Applies(a)
  <2> DEFINE request == [route |-> "runtime", user |-> u, branch |-> b, layout |-> y,
                         rev |-> rev, proof |-> "none"]
  <2>1. draft = {} /\ UNCHANGED <<draft, action, age>>  BY <1>1 DEF ApplySealed
  <2>2. CASE Execute(a, b, request)
    <3> HIDE DEF request
    <3>1. /\ answer' \in Answers
          /\ \/ UNCHANGED <<history, head, receipt>>
             \/ \E l : Publishes(a, b, request, l)
      BY <1>0, <2>2, ExecuteIs
    <3>q. QED BY <2>1, <3>1 DEF Applies
  <2>3. CASE /\ answer' \in {"integrity", "binding", "concurrent"}
             /\ UNCHANGED <<history, head, receipt>>
    BY <2>1, <2>3 DEF Applies, Answers
  <2>q. QED BY <1>1, <2>2, <2>3 DEF ApplySealed
<1>2. ASSUME NEW route \in Routes, NEW proof \in Proofs, ApplyApproved(a, u, y, route, proof)
      PROVE  Applies(a)
  <2> DEFINE request == [route |-> route, user |-> u, branch |-> MainBranch, layout |-> y,
                         rev |-> head[MainBranch], proof |-> proof]
  <2>1. draft = {} /\ UNCHANGED <<draft, action, age>>  BY <1>2 DEF ApplyApproved
  <2>2. CASE Execute(a, MainBranch, request)
    <3> HIDE DEF request
    <3>0. MainBranch \in Branch  BY RequestsAssumption
    <3>1. /\ answer' \in Answers
          /\ \/ UNCHANGED <<history, head, receipt>>
             \/ \E l : Publishes(a, MainBranch, request, l)
      BY <1>0, <2>2, <3>0, ExecuteIs
    <3>q. QED BY <2>1, <3>0, <3>1 DEF Applies
  <2>3. CASE answer' = "integrity" /\ UNCHANGED <<history, head, receipt>>
    BY <2>1, <2>3 DEF Applies, Answers
  <2>q. QED BY <1>2, <2>2, <2>3 DEF ApplyApproved
<1>q. QED BY <1>1, <1>2

\* The action a preparation on the checkout may leave.
PreparedAs(user, layout, type, ops, batch) ==
    LET base == LedgerAt(MainBranch)
    IN  Sealed(type, [i \in DOMAIN ops |-> EditOf(base, ops[i])],
               ReadingsOf(base, UNION {QuestionsOf(ops[i]) : i \in DOMAIN ops}),
               head[MainBranch], user, MainBranch, layout, batch, ops, FALSE)

\* What a preparation on the checkout does.
LEMMA PreparesIs ==
    ASSUME HistoryTyped, NEW user \in User, NEW layout, NEW type, NEW ops, ops \in Seq(Operation),
           NEW allowed,
           allowed => \A i \in DOMAIN ops : EditOf(LedgerAt(MainBranch), ops[i]) \in Edit,
           NEW batch, PrepareOnCheckout(user, layout, type, ops, allowed, batch)
    PROVE  /\ draft = {} /\ action = {} /\ UNCHANGED <<history, head, draft, receipt>>
           /\ age' = 0 /\ answer' \in Answers
           /\ \/ action' = {}
              \/ allowed /\ \E new : /\ new = PreparedAs(user, layout, type, ops, batch)
                                    /\ action' = {new} /\ ActionTyped(new)'
<1> DEFINE base  == LedgerAt(MainBranch)
           edits == [i \in DOMAIN ops |-> EditOf(base, ops[i])]
           facts == ReadingsOf(base, UNION {QuestionsOf(ops[i]) : i \in DOMAIN ops})
<1>0. PICK new : new = PreparedAs(user, layout, type, ops, batch)  OBVIOUS
<1>1. /\ draft = {} /\ action = {} /\ UNCHANGED <<history, head, draft, receipt>>
      /\ age' = 0 /\ answer' \in Answers
  BY DEF PrepareOnCheckout, Answers
<1>2. action' = {} \/ (allowed /\ action' = {new})
  BY <1>0 DEF PrepareOnCheckout, PreparedAs
<1>3. ASSUME allowed PROVE ActionTyped(new)'
  <2> HIDE DEF base
  <2>1. DOMAIN ops = 1 .. Len(ops) /\ Len(ops) \in Nat  BY LenProperties
  <2>2. \A i \in DOMAIN ops : edits[i] \in Edit  BY <1>3 DEF base
  <2>3. edits = [i \in 1 .. Len(ops) |-> edits[i]]  BY <2>1
  <2>4. edits \in Seq(Edit)
    <3> DEFINE n == Len(ops)
    <3>1. n \in Nat /\ edits \in [1 .. n -> Edit]  BY <2>1, <2>2, <2>3
    <3> HIDE DEF n, edits
    <3>q. QED BY <3>1, SeqDef
  <2> HIDE DEF edits, facts
  <2>5. /\ new.edits = edits /\ new.asked = ops /\ new.owner = user /\ new.rev = head[MainBranch]
    BY <1>0 DEF PreparedAs, Sealed, edits, base, facts
  <2>6. head[MainBranch] \in DOMAIN history  BY HistoryShape, RequestsAssumption
  <2>7. head[MainBranch] \in DOMAIN history'  BY <1>1, <2>6
  <2>q. QED BY <2>4, <2>5, <2>7 DEF ActionTyped
<1>q. QED BY <1>0, <1>1, <1>2, <1>3

\* The two preparations of the conversation.
LEMMA PrepareOneIs ==
    ASSUME HistoryTyped, NEW u \in User, NEW y \in Layout, NEW op \in Asked, PrepareOne(u, y, op)
    PROVE  /\ op \in Operation
           /\ draft = {} /\ action = {} /\ UNCHANGED <<history, head, draft, receipt>>
           /\ age' = 0 /\ answer' \in Answers
           /\ \/ action' = {}
              \/ \E type, batch :
                    /\ Allowed(LedgerAt(MainBranch), op)
                    /\ \E new : /\ new = PreparedAs(u, y, type, <<op>>, batch)
                               /\ action' = {new} /\ ActionTyped(new)'
<1> DEFINE base    == LedgerAt(MainBranch)
           ops     == <<op>>
           allowed == Allowed(base, op)
           type    == TypeOfAction(op)
           batch   == BatchOf(op)
<1>1. PrepareOnCheckout(u, y, type, ops, allowed, batch)  BY DEF PrepareOne
<1>2. op \in Operation  BY AskedOps DEF HistoryTyped
<1>3. ops \in Seq(Operation) /\ DOMAIN ops = {1} /\ ops[1] = op
  <2>1. ops \in Seq(Operation)  BY <1>2, Tuple1
  <2>2. DOMAIN ops = {1} /\ ops[1] = op  OBVIOUS
  <2>q. QED BY <2>1, <2>2
<1>4. Sound(base)
  <2>1. base \in WholeLedger  BY HistoryShape, RequestsAssumption
  <2>q. QED BY <2>1, WholeIsSound
<1> HIDE DEF base, ops
<1>5. allowed => \A i \in DOMAIN ops : EditOf(base, ops[i]) \in Edit
  BY <1>2, <1>3, <1>4, EditOfAllowed
<1> HIDE DEF type, batch, allowed
<1>6. /\ draft = {} /\ action = {} /\ UNCHANGED <<history, head, draft, receipt>>
      /\ age' = 0 /\ answer' \in Answers
      /\ \/ action' = {}
         \/ allowed /\ \E new : /\ new = PreparedAs(u, y, type, ops, batch)
                               /\ action' = {new} /\ ActionTyped(new)'
  BY <1>1, <1>3, <1>5, PreparesIs DEF base
<1>q. QED BY <1>2, <1>6 DEF ops, allowed, base

\* The operations of a set of the conversation.
LEMMA SetShape ==
    ASSUME NEW n \in 1 .. MaxOps, NEW ops \in [1 .. n -> Requests]
    PROVE  /\ ops \in Seq(Operation) /\ Len(ops) = n
           /\ DOMAIN ops = 1 .. n /\ \A i \in DOMAIN ops : ops[i] \in Request
<1>1. n \in Nat  BY RequestsAssumption
<1>2. Requests \subseteq Request /\ Request \subseteq Operation
  BY RequestsAssumption DEF Operation
<1>3. ops \in [1 .. n -> Operation]  BY <1>2
<1>4. ops \in Seq(Operation)  BY <1>1, <1>3, SeqDef
<1>5. DOMAIN ops = 1 .. n  OBVIOUS
<1>6. Len(ops) = n
  <2>1. Len(ops) \in Nat /\ DOMAIN ops = 1 .. Len(ops)  BY <1>4, LenProperties
  <2>q. QED BY <1>1, <1>5, <2>1
<1>q. QED BY <1>2, <1>4, <1>5, <1>6

\* What preparing a set of the conversation does.
LEMMA PrepareSetIs ==
    ASSUME HistoryTyped, NEW u \in User, NEW y \in Layout, NEW n \in 1 .. MaxOps,
           NEW ops \in [1 .. n -> Requests], PrepareSet(u, y, ops)
    PROVE  /\ draft = {} /\ action = {} /\ UNCHANGED <<history, head, draft, receipt>>
           /\ age' = 0 /\ answer' \in Answers
           /\ \/ action' = {}
              \/ \E type, batch :
                    /\ ChangeSetAllowed(LedgerAt(MainBranch), ops)
                    /\ \E new : /\ new = PreparedAs(u, y, type, ops, batch)
                               /\ action' = {new} /\ ActionTyped(new)'
<1> DEFINE base    == LedgerAt(MainBranch)
           allowed == ChangeSetAllowed(base, ops)
           type    == TypeOfSet(ops)
           batch   == Cardinality({i \in DOMAIN ops : ops[i].kind = "create"})
<1>1. PrepareOnCheckout(u, y, type, ops, allowed, batch)  BY DEF PrepareSet
<1>3. ops \in Seq(Operation) /\ \A i \in DOMAIN ops : ops[i] \in Request
  BY SetShape
<1> HIDE DEF base
<1>4. ASSUME allowed, NEW i \in DOMAIN ops PROVE EditOf(base, ops[i]) \in Edit
  <2> DEFINE op == ops[i]
  <2>1. op.kind = "open" \/ op.kind = "create"  BY <1>4 DEF ChangeSetAllowed
  <2>2. op \in Request  BY <1>3
  <2> HIDE DEF op
  <2>3. CASE op.kind = "open"
    <3>1. op.account \in Account /\ op.date \in Int  BY <2>2, <2>3 DEF Request
    <3>2. EditOf(base, op) = [kind |-> "open", opens |-> [account |-> op.account, date |-> op.date]]
      BY <2>3 DEF EditOf
    <3>3. [account |-> op.account, date |-> op.date] \in Opening  BY <3>1 DEF Opening
    <3>q. QED BY <3>2, <3>3 DEF Edit, op
  <2>4. CASE op.kind = "create"
    <3>1. op.txns \in Seq(Transaction)  BY <2>2, <2>4 DEF Request
    <3>2. op.txns \in Seq(Directive)
      <4>1. Transaction \subseteq Directive  BY KindOf
      <4>q. QED BY <3>1, <4>1
    <3>3. EditOf(base, op) = [kind |-> "append", says |-> op.txns]  BY <2>4 DEF EditOf, Append1
    <3>q. QED BY <3>2, <3>3 DEF Edit, op
  <2>q. QED BY <2>1, <2>3, <2>4 DEF op
<1> HIDE DEF type, batch, allowed
<1>5. /\ draft = {} /\ action = {} /\ UNCHANGED <<history, head, draft, receipt>>
      /\ age' = 0 /\ answer' \in Answers
      /\ \/ action' = {}
         \/ allowed /\ \E new : /\ new = PreparedAs(u, y, type, ops, batch)
                               /\ action' = {new} /\ ActionTyped(new)'
  BY <1>1, <1>3, <1>4, PreparesIs DEF base
<1>q. QED BY <1>5 DEF allowed, base

\* A push is a commit of whole files.
LEMMA PushIs ==
    ASSUME HistoryTyped, NEW b \in Branch, Push(b)
    PROVE  /\ action # {} /\ UNCHANGED <<draft, action, age, receipt, answer>>
           /\ \E ledger \in WholeLedger : Commit(b, ledger)
<1> DEFINE ledger == LedgerAt(b)
<1>1. ledger \in WholeLedger  BY HistoryShape
<1>2. action # {} /\ UNCHANGED <<draft, action, age, receipt, answer>>  BY DEF Push
<1>3. CASE \E says \in Pushed :
              Commit(b, [ledger EXCEPT ![EntryPath] = Appended(@, TextOf(<<says>>))])
  <2>1. PICK says \in Pushed :
              Commit(b, [ledger EXCEPT ![EntryPath] = Appended(@, TextOf(<<says>>))])
    BY <1>3
  <2> HIDE DEF ledger
  <2>2. [ledger EXCEPT ![EntryPath] = Appended(@, TextOf(<<says>>))] \in WholeLedger
    BY <1>1, RequestsAssumption, PushedWhole
  <2>q. QED BY <1>2, <2>1, <2>2
<1>4. ASSUME NEW e \in Transactions(ledger)
      PROVE  /\ [ledger EXCEPT ![e.path] =
                    Deleted(@, TextAt(ledger[e.path], e.line), e.line)] \in WholeLedger
             /\ [ledger EXCEPT ![e.path] = Annotated(@, e.line)] \in WholeLedger
  <2> HIDE DEF ledger
  <2>q. QED BY <1>1, <1>4, RemovedWhole, AnnotatedWhole
<1>5. CASE \E e \in Transactions(ledger) :
              Commit(b, [ledger EXCEPT ![e.path] =
                            Deleted(@, TextAt(ledger[e.path], e.line), e.line)])
  BY <1>2, <1>4, <1>5
<1>6. CASE \E e \in Transactions(ledger) :
              Commit(b, [ledger EXCEPT ![e.path] = Annotated(@, e.line)])
  BY <1>2, <1>4, <1>6
<1>q. QED BY <1>3, <1>5, <1>6 DEF Push

\* Types outlive a longer history.
LEMMA TypesLast ==
    ASSUME DOMAIN history \subseteq DOMAIN history'
    PROVE  /\ \A d : DraftTyped(d) => DraftTyped(d)'
           /\ \A a : ActionTyped(a) => ActionTyped(a)'
  BY DEF DraftTyped, ActionTyped

\* A draft starts as its base.
LEMMA BeginIs ==
    ASSUME HistoryTyped, NEW u \in User, NEW b \in Branch, NEW y, Begin(u, b, y)
    PROVE  /\ draft = {} /\ action = {}
           /\ UNCHANGED <<history, head, action, age, receipt, answer>>
           /\ \E d : /\ draft' = {d} /\ DraftTyped(d)'
                     /\ d.ledger = history[d.rev] /\ d.rev \in DOMAIN history
                     /\ BeanCheck(d.ledger) /\ d.ledger \in WholeLedger
                     /\ d.positions = Positions(IndexOf(d.ledger))
                     /\ d.names = <<>> /\ d.asked = <<>> /\ d.edits = <<>> /\ d.questions = {}
<1> DEFINE new(ledger, rev) ==
              [owner |-> u, branch |-> b, layout |-> y, rev |-> rev, ledger |-> ledger,
               positions |-> Positions(IndexOf(ledger)),
               names |-> <<>>, asked |-> <<>>, edits |-> <<>>, questions |-> {}]
<1>1. PICK d : d = new(LedgerAt(b), head[b])  OBVIOUS
<1>2. /\ draft = {} /\ action = {} /\ BeanCheck(LedgerAt(b))
      /\ UNCHANGED <<history, head, action, age, receipt, answer>> /\ draft' = {d}
  BY <1>1 DEF Begin
<1>3. head[b] \in DOMAIN history /\ LedgerAt(b) \in WholeLedger  BY HistoryShape
<1>4. /\ d.owner = u /\ d.rev = head[b] /\ d.ledger = LedgerAt(b)
      /\ d.positions = Positions(IndexOf(d.ledger))
      /\ d.names = <<>> /\ d.asked = <<>> /\ d.edits = <<>> /\ d.questions = {}
      /\ {"owner", "rev", "ledger", "positions", "names", "asked", "edits", "questions"}
            \subseteq DOMAIN d
  BY <1>1
<1> HIDE DEF new
<1>5. d.ledger = history[d.rev]  BY <1>4 DEF LedgerAt
<1>6. DraftTyped(d)'
  <2>1. Sound(d.ledger)  BY <1>3, <1>4, WholeIsSound
  <2>2. d.asked \in Seq(Operation) /\ d.edits \in Seq(Edit)  BY <1>4, Tuple0
  <2>3. d.rev \in DOMAIN history'  BY <1>2, <1>3, <1>4
  <2>q. QED BY <1>4, <2>1, <2>2, <2>3 DEF DraftTyped
<1>q. QED BY <1>2, <1>3, <1>4, <1>5, <1>6

\* The initial states.
LEMMA InitTyped == Init => Typed
<1> SUFFICES ASSUME Init PROVE Typed  OBVIOUS
<1>1. PICK ledger \in Initial : history = <<ledger>>  BY DEF Init
<1>2. ledger \in WholeLedger  BY RequestsAssumption DEF WholeLedger
<1>3. history \in Seq(WholeLedger) /\ Len(history) = 1  BY <1>1, <1>2, Tuple1
<1>4. DOMAIN history = 1 .. 1  BY <1>3, LenProperties
<1>5. head \in [Branch -> DOMAIN history]  BY <1>4 DEF Init
<1>6. 0 \in 0 .. TTL  BY RequestsAssumption
<1>q. QED BY <1>3, <1>5, <1>6 DEF Init, Typed, HistoryTyped, OneWork, AtMostOne, Answers

\* Every step keeps the shapes: no operation and no push tears a directive.
LEMMA TypedKept ==
    ASSUME Typed, [Next]_vars
    PROVE  Typed'
<1>1. /\ HistoryTyped /\ OneWork /\ age \in 0 .. TTL /\ answer \in Answers /\ TTL \in Nat
      /\ \A d \in draft : DraftTyped(d)
      /\ \A a \in action : ActionTyped(a)
      /\ \A r \in receipt : r.before \in DOMAIN history
  BY RequestsAssumption DEF Typed
<1>2. ASSUME UNCHANGED <<history, head>>
      PROVE  /\ HistoryTyped' /\ DOMAIN history \subseteq DOMAIN history'
             /\ \A d : DraftTyped(d) => DraftTyped(d)'
             /\ \A a : ActionTyped(a) => ActionTyped(a)'
  <2>1. HistoryTyped' /\ DOMAIN history \subseteq DOMAIN history'  BY <1>1, <1>2 DEF HistoryTyped
  <2>q. QED BY <2>1, TypesLast
<1>3. AtMostOne({}) /\ \A x : AtMostOne({x})  BY DEF AtMostOne
<1>4. 0 \in 0 .. TTL  BY <1>1
<1>5. CASE UNCHANGED vars
  <2>1. UNCHANGED <<history, head, draft, action, age, receipt, answer>>  BY <1>5 DEF vars
  <2>q. QED BY <1>1, <1>2, <2>1 DEF Typed, OneWork
<1>6. ASSUME NEW u \in User, NEW b \in Branch, NEW y \in Layout, Begin(u, b, y) PROVE Typed'
  <2>1. PICK d : draft' = {d} /\ DraftTyped(d)'  BY <1>1, <1>6, BeginIs
  <2>2. draft = {} /\ action = {} /\ UNCHANGED <<history, head, action, age, receipt, answer>>
    BY <1>1, <1>6, BeginIs
  <2>q. QED BY <1>1, <1>2, <1>3, <2>1, <2>2 DEF Typed, OneWork
<1>7. ASSUME NEW d \in draft, NEW op \in Asked, Take(d, op) PROVE Typed'
  <2>1. /\ UNCHANGED <<history, head, action, age, receipt, answer>>
        /\ \E next : draft' = {next} /\ DraftTyped(next)'
    BY <1>1, <1>7, TakeIs
  <2>2. PICK next : draft' = {next} /\ DraftTyped(next)'  BY <2>1
  <2>3. action = {}  BY <1>1 DEF OneWork
  <2>q. QED BY <1>1, <1>2, <1>3, <2>1, <2>2, <2>3 DEF Typed, OneWork
<1>8. ASSUME NEW d \in draft, NEW op \in Asked, Refuse(d, op) PROVE Typed'
  <2>1. draft' = {} /\ UNCHANGED <<history, head, action, age, receipt>>  BY <1>8 DEF Refuse
  <2>2. answer' \in Answers
    <3>1. RebaseCode(d, op) \in {"ok", "malformed", "not_found", "stale", "internal"}
      BY DEF RebaseCode, RefCode
    <3>q. QED BY <1>8, <3>1 DEF Refuse, Answers
  <2>q. QED BY <1>1, <1>2, <1>3, <2>1, <2>2 DEF Typed, OneWork
<1>9. ASSUME NEW d \in draft, Seal(d) PROVE Typed'
  <2> DEFINE base == history[d.rev]
  <2>1. PICK new : new = Sealed("change_set", d.edits, ReadingsOf(base, d.questions), d.rev,
                                d.owner, d.branch, d.layout, 0, d.asked, TRUE)
    OBVIOUS
  <2>2. /\ action' = {new} /\ draft' = {} /\ age' = 0 /\ answer' = "approval_required"
        /\ UNCHANGED <<history, head, receipt>>
    BY <1>9, <2>1 DEF Seal
  <2>3. new.edits = d.edits /\ new.asked = d.asked /\ new.owner = d.owner /\ new.rev = d.rev
    BY <2>1 DEF Sealed
  <2>4. ActionTyped(new)  BY <1>1, <2>3 DEF ActionTyped, DraftTyped
  <2>q. QED BY <1>1, <1>2, <1>3, <1>4, <2>2, <2>4 DEF Typed, OneWork, Answers
<1>10. ASSUME NEW d \in draft, SealFails(d) PROVE Typed'
  <2>1. /\ draft' = {} /\ UNCHANGED <<history, head, action, age, receipt>>
        /\ answer' \in Answers
    BY <1>10 DEF SealFails, Answers
  <2>q. QED BY <1>1, <1>2, <1>3, <2>1 DEF Typed, OneWork
<1>11. ASSUME NEW u \in User, NEW y \in Layout, NEW op \in Asked, PrepareOne(u, y, op)
       PROVE  Typed'
  <2>1. /\ draft = {} /\ UNCHANGED <<history, head, draft, receipt>> /\ age' = 0
        /\ answer' \in Answers
        /\ action' = {} \/ \E new : action' = {new} /\ ActionTyped(new)'
    BY <1>1, <1>11, PrepareOneIs
  <2>2. CASE action' = {}
    BY <1>1, <1>2, <1>3, <1>4, <2>1, <2>2 DEF Typed, OneWork
  <2>3. CASE \E new : action' = {new} /\ ActionTyped(new)'
    <3>1. PICK new : action' = {new} /\ ActionTyped(new)'  BY <2>3
    <3>q. QED BY <1>1, <1>2, <1>3, <1>4, <2>1, <3>1 DEF Typed, OneWork
  <2>q. QED BY <2>1, <2>2, <2>3
<1>12. ASSUME NEW u \in User, NEW y \in Layout, NEW n \in 1 .. MaxOps,
              NEW ops \in [1 .. n -> Requests], PrepareSet(u, y, ops)
       PROVE  Typed'
  <2>1. /\ draft = {} /\ UNCHANGED <<history, head, draft, receipt>> /\ age' = 0
        /\ answer' \in Answers
        /\ action' = {} \/ \E new : action' = {new} /\ ActionTyped(new)'
    BY <1>1, <1>12, PrepareSetIs
  <2>2. CASE action' = {}
    BY <1>1, <1>2, <1>3, <1>4, <2>1, <2>2 DEF Typed, OneWork
  <2>3. CASE \E new : action' = {new} /\ ActionTyped(new)'
    <3>1. PICK new : action' = {new} /\ ActionTyped(new)'  BY <2>3
    <3>q. QED BY <1>1, <1>2, <1>3, <1>4, <2>1, <3>1 DEF Typed, OneWork
  <2>q. QED BY <2>1, <2>2, <2>3
<1>13. ASSUME NEW b \in Branch, Push(b) PROVE Typed'
  <2>1. UNCHANGED <<draft, action, age, receipt, answer>>  BY <1>1, <1>13, PushIs
  <2>2. PICK ledger \in WholeLedger : Commit(b, ledger)  BY <1>1, <1>13, PushIs
  <2>3. HistoryTyped' /\ DOMAIN history \subseteq DOMAIN history'  BY <1>1, <2>2, Committed
  <2>q. QED BY <1>1, <2>1, <2>3, TypesLast DEF Typed, OneWork
<1>14. CASE Tick
  <2>1. UNCHANGED <<history, head, draft, action, receipt, answer>> /\ age' = age + 1 /\ age < TTL
    BY <1>14 DEF Tick
  <2>2. age' \in 0 .. TTL  BY <1>1, <2>1
  <2>q. QED BY <1>1, <1>2, <2>1, <2>2 DEF Typed, OneWork
<1>15. ASSUME NEW a \in action, Applies(a) PROVE Typed'
  <2>1. UNCHANGED <<draft, action, age>> /\ answer' \in Answers  BY <1>15 DEF Applies
  <2>2. CASE UNCHANGED <<history, head, receipt>>
    BY <1>1, <1>2, <2>1, <2>2 DEF Typed, OneWork
  <2>3. CASE \E branch \in Branch : \E request, l : Publishes(a, branch, request, l)
    <3>1. PICK branch, request, l : branch \in Branch /\ Publishes(a, branch, request, l)  BY <2>3
    <3>2. l \in WholeLedger /\ Commit(branch, l)
          /\ receipt' = {[action |-> a, request |-> request, age |-> age,
                          before |-> head[branch], after |-> Len(history) + 1]}
      BY <3>1 DEF Publishes
    <3>3. HistoryTyped' /\ DOMAIN history \subseteq DOMAIN history'  BY <1>1, <3>1, <3>2, Committed
    <3>4. head[branch] \in DOMAIN history  BY <1>1, <3>1, HistoryShape
    <3>5. \A r \in receipt' : r.before \in DOMAIN history'  BY <3>2, <3>3, <3>4
    <3>q. QED BY <1>1, <2>1, <3>3, <3>5, TypesLast DEF Typed, OneWork
  <2>q. QED BY <1>15, <2>2, <2>3 DEF Applies
<1>16. ASSUME NEW a \in action, NEW u \in User, NEW b \in Branch, NEW y \in Layout,
              NEW rev \in DOMAIN history, ApplySealed(a, u, b, y, rev)
       PROVE  Typed'
  BY <1>15, <1>16, AppliesIs
<1>17. ASSUME NEW a \in action, NEW u \in User, NEW y \in Layout, NEW route \in Routes,
              NEW proof \in Proofs, ApplyApproved(a, u, y, route, proof)
       PROVE  Typed'
  <2>1. MainBranch \in Branch  BY RequestsAssumption
  <2>q. QED BY <1>15, <1>17, <2>1, AppliesIs
<1>q. QED BY <1>5, <1>6, <1>7, <1>8, <1>9, <1>10, <1>11, <1>12, <1>13, <1>14, <1>16, <1>17 DEF Next

\* The history holds whole files, and the splices of a change set tear nothing.
THEOREM SplicesKeepDirectives == Spec => []TypeOK
<1>1. Init => Typed  BY InitTyped
<1>2. Typed /\ [Next]_vars => Typed'  BY TypedKept
<1>3. Typed => TypeOK
  <2> SUFFICES ASSUME Typed PROVE TypeOK  OBVIOUS
  <2>1. history \in Seq({ledger \in Ledger : \A p \in Path : Whole(ledger[p].lines)})
    BY DEF Typed, HistoryTyped, WholeLedger
  <2>2. ASSUME NEW d \in draft
        PROVE  /\ d.ledger \in Ledger
               /\ Parses(d.ledger) => \A p \in Path : Whole(d.ledger[p].lines)
    <3>1. Sound(d.ledger)  BY DEF Typed, DraftTyped
    <3>q. QED BY <3>1, SoundIsWhole DEF Sound, WholeLedger
  <2>3. Cardinality(draft) + Cardinality(action) <= 1
    <3>1. /\ \A x : Cardinality({x}) = 1
          /\ Cardinality({}) = 0
      BY FS_Singleton, FS_EmptySet
    <3>2. AtMostOne(draft) /\ AtMostOne(action) /\ (draft = {} \/ action = {})
      BY DEF Typed, OneWork
    <3>3. ASSUME NEW S, AtMostOne(S) PROVE Cardinality(S) \in {0, 1} /\ (S = {} => Cardinality(S) = 0)
      BY <3>1, <3>3 DEF AtMostOne
    <3> DEFINE m == Cardinality(draft)
               n == Cardinality(action)
    <3>4. m \in {0, 1} /\ n \in {0, 1} /\ (m = 0 \/ n = 0)  BY <3>2, <3>3
    <3> HIDE DEF m, n
    <3>5. m + n <= 1  BY <3>4
    <3>q. QED BY <3>5 DEF m, n
  <2>q. QED BY <2>1, <2>2, <2>3 DEF Typed, HistoryTyped, ActionTyped, TypeOK
<1>q. QED BY <1>1, <1>2, <1>3, PTL DEF Spec

-----------------------------------------------------------------------------
(* What a change set has edited.                                           *)

\* What may become of the draft.
LEMMA NextDraft ==
    ASSUME Typed, [Next]_vars
    PROVE  \/ draft' = {}
           \/ UNCHANGED <<draft, history>>
           \/ /\ UNCHANGED history
              /\ \E d : /\ draft' = {d} /\ DraftTyped(d)'
                        /\ d.ledger = history[d.rev] /\ d.rev \in DOMAIN history
                        /\ BeanCheck(d.ledger) /\ d.ledger \in WholeLedger
                        /\ d.positions = Positions(IndexOf(d.ledger))
                        /\ d.names = <<>> /\ d.asked = <<>> /\ d.edits = <<>> /\ d.questions = {}
           \/ /\ UNCHANGED history
              /\ \E d \in draft, op \in Operation : \E next :
                    draft' = {next} /\ Taken(d, op, next) /\ DraftTyped(next)'
<1> DEFINE Begun == /\ UNCHANGED history
                    /\ \E d : /\ draft' = {d} /\ DraftTyped(d)'
                              /\ d.ledger = history[d.rev] /\ d.rev \in DOMAIN history
                              /\ BeanCheck(d.ledger) /\ d.ledger \in WholeLedger
                              /\ d.positions = Positions(IndexOf(d.ledger))
                              /\ d.names = <<>> /\ d.asked = <<>> /\ d.edits = <<>>
                              /\ d.questions = {}
           Built == /\ UNCHANGED history
                    /\ \E d \in draft, op \in Operation : \E next :
                          draft' = {next} /\ Taken(d, op, next) /\ DraftTyped(next)'
           Result == draft' = {} \/ UNCHANGED <<draft, history>> \/ Begun \/ Built
<1>1. HistoryTyped /\ OneWork /\ \A d \in draft : DraftTyped(d)  BY DEF Typed
<1>2. CASE UNCHANGED vars  BY <1>2 DEF vars
<1>3. ASSUME NEW u \in User, NEW b \in Branch, NEW y \in Layout, Begin(u, b, y) PROVE Result
  <2>1. Begun  BY <1>1, <1>3, BeginIs
  <2>q. QED BY <2>1
<1>4. ASSUME NEW d \in draft, NEW op \in Asked, Take(d, op) PROVE Result
  <2>1. Built  BY <1>1, <1>4, TakeIs
  <2>q. QED BY <2>1
<1>5. ASSUME NEW d \in draft, NEW op \in Asked, Refuse(d, op) PROVE Result
  BY <1>5 DEF Refuse
<1>6. ASSUME NEW d \in draft, Seal(d) \/ SealFails(d) PROVE Result
  BY <1>6 DEF Seal, SealFails
<1>7. ASSUME NEW u \in User, NEW y \in Layout, NEW op \in Asked, PrepareOne(u, y, op)
      PROVE  Result
  BY <1>7 DEF PrepareOne, PrepareOnCheckout
<1>8. ASSUME NEW u \in User, NEW y \in Layout, NEW n \in 1 .. MaxOps,
             NEW ops \in [1 .. n -> Requests], PrepareSet(u, y, ops)
      PROVE  Result
  BY <1>8 DEF PrepareSet, PrepareOnCheckout
<1>9. ASSUME NEW b \in Branch, Push(b) PROVE Result
  BY <1>1, <1>9 DEF Push, OneWork
<1>10. CASE Tick  BY <1>10 DEF Tick
<1>11. ASSUME NEW a \in action, NEW u \in User, NEW b \in Branch, NEW y \in Layout,
              NEW rev \in DOMAIN history, ApplySealed(a, u, b, y, rev)
       PROVE  Result
  BY <1>11 DEF ApplySealed
<1>12. ASSUME NEW a \in action, NEW u \in User, NEW y \in Layout, NEW route \in Routes,
              NEW proof \in Proofs, ApplyApproved(a, u, y, route, proof)
       PROVE  Result
  BY <1>12 DEF ApplyApproved
<1> HIDE DEF Begun, Built
<1>q. QED
  BY <1>2, <1>3, <1>4, <1>5, <1>6, <1>7, <1>8, <1>9, <1>10, <1>11, <1>12 DEF Next, Begun, Built

\* The operations and the written directives that are counted for a directive.
RemovedAt(ops, d) == {i \in DOMAIN ops : NamesTransaction(ops[i]) /\ Plain(ops[i].text.directive) = d}
WrittenAt(edit, d) == {j \in DOMAIN Written(edit) : Plain(Written(edit)[j]) = d}
AddedAt(edits, d) == UNION {{<<i, j>> : j \in WrittenAt(edits[i], d)} : i \in DOMAIN edits}

\* What EditsWhatItNamed counts.
LEMMA CountsAre ==
    \A ops, edits, d :
        /\ Removed(ops, d) = Cardinality(RemovedAt(ops, d))
        /\ Added(edits, d) = Cardinality(AddedAt(edits, d))
  BY DEF Removed, Added, RemovedAt, AddedAt, WrittenAt, IndicesOf

\* What one more operation names.
RemovedNow(op, d) == IF NamesTransaction(op) /\ Plain(op.text.directive) = d THEN 1 ELSE 0

\* One more operation names one more.
LEMMA RemovedGrows ==
    ASSUME NEW ops \in Seq(Operation), NEW op \in Operation, NEW d
    PROVE  /\ Removed(ops, d) \in Nat
           /\ Removed(Append(ops, op), d) = Removed(ops, d) + RemovedNow(op, d)
<1> DEFINE n   == Len(ops)
           new == Append(ops, op)
           S   == RemovedAt(ops, d)
           T   == RemovedAt(new, d)
<1>1. n \in Nat /\ DOMAIN ops = 1 .. n  BY LenProperties
<1>2. /\ new \in Seq(Operation) /\ Len(new) = n + 1
      /\ \A i \in 1 .. n : new[i] = ops[i]
      /\ new[n + 1] = op
  BY AppendedTo
<1> HIDE DEF new
<1>3. DOMAIN new = 1 .. n + 1
  <2>1. DOMAIN new = 1 .. Len(new)  BY <1>2, LenProperties
  <2>q. QED BY <1>2, <2>1
<1> HIDE DEF n
<1>4. IsFiniteSet(S)
  <2>1. IsFiniteSet(1 .. n)  BY <1>1, FS_Interval
  <2>2. S \subseteq 1 .. n  BY <1>1 DEF RemovedAt
  <2>q. QED BY <2>1, <2>2, FS_Subset
<1>5. Cardinality(S) \in Nat  BY <1>4, FS_CardinalityType
<1>6. CASE NamesTransaction(op) /\ Plain(op.text.directive) = d
  <2>1. T = S \cup {n + 1}  BY <1>1, <1>2, <1>3, <1>6 DEF RemovedAt
  <2>2. n + 1 \notin S  BY <1>1 DEF RemovedAt
  <2> HIDE DEF S, T
  <2>3. Cardinality(T) = Cardinality(S) + 1  BY <1>4, <2>1, <2>2, FS_AddElement
  <2>4. RemovedNow(op, d) = 1  BY <1>6 DEF RemovedNow
  <2>q. QED BY <1>5, <2>3, <2>4, CountsAre DEF S, T, new
<1>7. CASE ~(NamesTransaction(op) /\ Plain(op.text.directive) = d)
  <2>1. T = S  BY <1>1, <1>2, <1>3, <1>7 DEF RemovedAt
  <2>2. RemovedNow(op, d) = 0  BY <1>7 DEF RemovedNow
  <2> HIDE DEF S, T
  <2>3. Cardinality(T) = Cardinality(S) + 0  BY <1>5, <2>1
  <2>q. QED BY <1>5, <2>2, <2>3, CountsAre DEF S, T, new
<1>q. QED BY <1>6, <1>7

\* An edit writes directives.
LEMMA WrittenSeq ==
    ASSUME NEW edit \in Edit
    PROVE  Written(edit) \in Seq(Directive)
<1>1. EditOK(edit)  BY EditsAreOK
<1>2. CASE IsAppend(edit) /\ edit.says \in Seq(Directive)  BY <1>2 DEF Written, IsAppend
<1>3. CASE edit.kind = "open"
  <2>1. Written(edit) = <<>>  BY <1>3 DEF Written, IsAppend
  <2>q. QED BY <2>1, Tuple0
<1>4. CASE edit.kind = "replace" /\ edit.new \in Transaction
  <2>1. Written(edit) = <<edit.new>>  BY <1>4 DEF Written, IsAppend
  <2>2. edit.new \in Directive  BY <1>4, KindOf
  <2>q. QED BY <2>1, <2>2, Tuple1
<1>5. CASE edit.kind = "delete"
  <2>1. Written(edit) = <<>>  BY <1>5 DEF Written, IsAppend
  <2>q. QED BY <2>1, Tuple0
<1>q. QED BY <1>1, <1>2, <1>3, <1>4, <1>5 DEF EditOK

\* One more edit writes what it writes.
LEMMA AddedGrows ==
    ASSUME NEW edits \in Seq(Edit), NEW edit \in Edit, NEW d, IsFiniteSet(AddedAt(edits, d))
    PROVE  /\ IsFiniteSet(AddedAt(Append(edits, edit), d))
           /\ Added(edits, d) \in Nat
           /\ Added(Append(edits, edit), d) = Added(edits, d) + AddedBy(edit, Alike(d))
           /\ AddedBy(edit, Alike(d)) \in Nat
<1> DEFINE n   == Len(edits)
           new == Append(edits, edit)
           S   == AddedAt(edits, d)
           T   == AddedAt(new, d)
           J   == WrittenAt(edit, d)
           U   == {<<n + 1, j>> : j \in J}
           m   == Len(Written(edit))
<1>1. n \in Nat /\ DOMAIN edits = 1 .. n  BY LenProperties
<1>2. /\ new \in Seq(Edit) /\ Len(new) = n + 1
      /\ \A i \in 1 .. n : new[i] = edits[i]
      /\ new[n + 1] = edit
  BY AppendedTo
<1> HIDE DEF new
<1>3. DOMAIN new = 1 .. n + 1
  <2>1. DOMAIN new = 1 .. Len(new)  BY <1>2, LenProperties
  <2>q. QED BY <1>2, <2>1
<1>4. m \in Nat /\ DOMAIN Written(edit) = 1 .. m  BY WrittenSeq, LenProperties
<1> HIDE DEF n, m
<1>5. J = {j \in 1 .. m : Written(edit)[j] \in Alike(d)}
  <2>1. \A j \in 1 .. m : Written(edit)[j] \in Directive
    BY <1>4, WrittenSeq, ElementOfSeq DEF m
  <2>2. \A j \in 1 .. m : Plain(Written(edit)[j]) = d <=> Written(edit)[j] \in Alike(d)
    BY <2>1 DEF Alike
  <2>q. QED BY <1>4, <2>2 DEF WrittenAt
<1>6. IsFiniteSet(J)
  <2>1. IsFiniteSet(1 .. m)  BY <1>4, FS_Interval
  <2>2. J \subseteq 1 .. m  BY <1>5
  <2>q. QED BY <2>1, <2>2, FS_Subset
<1>7. Cardinality(J) = AddedBy(edit, Alike(d))  BY <1>5 DEF AddedBy, Times, m
<1> HIDE DEF J
<1>8. IsFiniteSet(U) /\ Cardinality(U) = Cardinality(J)
  <2> DEFINE f == [j \in J |-> <<n + 1, j>>]
  <2>1. f \in [J -> U]  OBVIOUS
  <2>2. \A x, y \in J : f[x] = f[y] => x = y  OBVIOUS
  <2>3. \A t \in U : \E x \in J : f[x] = t  OBVIOUS
  <2> HIDE DEF f, U
  <2>q. QED BY <1>6, <2>1, <2>2, <2>3, SameSize
<1>9. T = S \cup U
  <2>1. ASSUME NEW x PROVE x \in T <=> x \in S \/ x \in U
    <3>1. x \in T <=> \E i \in 1 .. n + 1 : \E j \in WrittenAt(new[i], d) : x = <<i, j>>
      BY <1>3 DEF AddedAt
    <3>2. x \in S <=> \E i \in 1 .. n : \E j \in WrittenAt(edits[i], d) : x = <<i, j>>
      BY <1>1 DEF AddedAt
    <3>3. x \in U <=> \E j \in WrittenAt(edit, d) : x = <<n + 1, j>>  BY DEF J
    <3> HIDE DEF T, S, U
    <3>4. \A i : i \in 1 .. n + 1 <=> i \in 1 .. n \/ i = n + 1  BY <1>1
    <3>q. QED BY <1>2, <3>1, <3>2, <3>3, <3>4
  <2> HIDE DEF T, S, U
  <2>q. QED BY <2>1
<1>10. S \cap U = {}
  <2> SUFFICES ASSUME NEW x \in S, x \in U PROVE FALSE  OBVIOUS
  <2>1. PICK i \in 1 .. n : \E j \in WrittenAt(edits[i], d) : x = <<i, j>>
    BY <1>1 DEF AddedAt
  <2>2. x[1] = i /\ x[1] = n + 1  BY <2>1
  <2>q. QED BY <1>1, <2>2
<1>11. Cardinality(S) \in Nat /\ Cardinality(U) \in Nat  BY <1>8, FS_CardinalityType
<1> HIDE DEF S, T, U
<1>12. /\ IsFiniteSet(S \cup U)
       /\ Cardinality(S \cup U) = Cardinality(S) + Cardinality(U) - Cardinality(S \cap U)
  BY <1>8, FS_Union DEF S
<1>13. Cardinality(S \cap U) = 0  BY <1>10, FS_EmptySet
<1>14. Cardinality(T) = Cardinality(S) + Cardinality(U)  BY <1>9, <1>11, <1>12, <1>13
<1>15. IsFiniteSet(T)  BY <1>9, <1>12
<1>16. Added(new, d) = Cardinality(T) /\ Added(edits, d) = Cardinality(S)
  BY CountsAre DEF S, T
<1>q. QED BY <1>7, <1>8, <1>11, <1>14, <1>15, <1>16 DEF T, new

\* The difference between a draft and its base is what was named and written.
CopiesOK(d) ==
    /\ \A says : IsFiniteSet(AddedAt(d.edits, says))
    /\ Parses(d.ledger) =>
          \A says : Copies(d.ledger, says)
              = Copies(history[d.rev], says) - Removed(d.asked, says) + Added(d.edits, says)

\* The inductive invariant of NamedIsEdited.
EditsInv == Typed /\ \A d \in draft : CopiesOK(d)

\* An operation that is taken changes the counts by what it names and writes.
LEMMA TakenCopies ==
    ASSUME HistoryTyped, NEW d, DraftTyped(d), CopiesOK(d), NEW op \in Operation,
           NEW next, Taken(d, op, next)
    PROVE  CopiesOK(next)
<1> DEFINE here  == Rebased(d, op)
           edit  == EditOf(d.ledger, here)
           after == Edited(d.ledger, edit)
<1>1. /\ RebaseCode(d, op) = "ok" /\ edit \in Edit /\ EditPossible(d.ledger, edit)
      /\ next.rev = d.rev /\ next.ledger = after
      /\ next.asked = Append(d.asked, op) /\ next.edits = Append(d.edits, edit)
  BY DEF Taken
<1>2. /\ Sound(d.ledger) /\ d.asked \in Seq(Operation) /\ d.edits \in Seq(Edit)
      /\ d.rev \in DOMAIN history /\ d.ledger \in Ledger
  BY DEF DraftTyped, Sound
<1>3. ASSUME NEW says PROVE RemovedBy(edit, Alike(says)) = RemovedNow(op, says)
  <2>1. CASE NamesTransaction(op)
    <3>1. PICK r : here = [op EXCEPT !.ref = r]  BY <2>1 DEF Rebased
    <3>2. \/ op \in [kind : {"delete"}, ref : Reference, text : Text]
          \/ op \in [kind : {"update"}, ref : Reference, text : Text, new : Transaction]
      BY <2>1 DEF Operation, Request, NamesTransaction
    <3>3. here.kind = op.kind /\ here.text = op.text /\ op.kind \in {"update", "delete"}
      BY <3>1, <3>2
    <3> HIDE DEF here
    <3>4. edit.kind \in {"replace", "delete"} /\ edit.old = op.text  BY <3>3 DEF EditOf
    <3> HIDE DEF edit
    <3>5. op.text.directive \in Directive  BY <3>2, TextShape, CommentedShape
    <3>6. op.text.directive \in Alike(says) <=> Plain(op.text.directive) = says
      BY <3>5 DEF Alike
    <3>q. QED BY <2>1, <3>4, <3>6 DEF RemovedBy, RemovedNow, One
  <2>2. CASE ~NamesTransaction(op)
    <3>1. here = op  BY <1>1, <1>2, <2>2, RebasedShape
    <3> HIDE DEF here
    <3>2. op.kind \in {"create", "open", "close", "price", "reconcile", "rebalance"}
      BY <2>2 DEF Operation, Request, NamesTransaction
    <3>3. edit.kind \in {"append", "close", "price", "open"}
      BY <3>1, <3>2 DEF EditOf, Append1
    <3> HIDE DEF edit
    <3>q. QED BY <2>2, <3>3 DEF RemovedBy, RemovedNow
  <2>q. QED BY <2>1, <2>2
<1> HIDE DEF edit, after
<1>4. \A says : IsFiniteSet(AddedAt(d.edits, says))  BY DEF CopiesOK
<1>5. ASSUME NEW says
      PROVE  /\ IsFiniteSet(AddedAt(next.edits, says))
             /\ Added(d.edits, says) \in Nat /\ AddedBy(edit, Alike(says)) \in Nat
             /\ Added(next.edits, says) = Added(d.edits, says) + AddedBy(edit, Alike(says))
             /\ Removed(d.asked, says) \in Nat
             /\ Removed(next.asked, says) = Removed(d.asked, says) + RemovedBy(edit, Alike(says))
  <2>1. /\ IsFiniteSet(AddedAt(Append(d.edits, edit), says))
        /\ Added(d.edits, says) \in Nat /\ AddedBy(edit, Alike(says)) \in Nat
        /\ Added(Append(d.edits, edit), says) = Added(d.edits, says) + AddedBy(edit, Alike(says))
    BY <1>1, <1>2, <1>4, AddedGrows
  <2>2. /\ Removed(d.asked, says) \in Nat
        /\ Removed(Append(d.asked, op), says) = Removed(d.asked, says) + RemovedNow(op, says)
    BY <1>2, RemovedGrows
  <2>q. QED BY <1>1, <1>3, <2>1, <2>2
<1>6. ASSUME Parses(next.ledger), NEW says
      PROVE  Copies(next.ledger, says)
                = Copies(history[next.rev], says) - Removed(next.asked, says)
                      + Added(next.edits, says)
  <2>1. Parses(after)  BY <1>1, <1>6
  <2>2. EditOK(edit)  BY <1>1, EditsAreOK
  <2>3. /\ Copies(after, says) = Copies(d.ledger, says) - RemovedBy(edit, Alike(says)) + AddedBy(edit, Alike(says))
        /\ RemovedBy(edit, Alike(says)) \in Nat /\ AddedBy(edit, Alike(says)) \in Nat
    BY <1>1, <1>2, <2>1, <2>2, EditedCopies DEF after
  <2>4. Parses(d.ledger)  BY <1>1, <1>2, <2>1, <2>2, EditSound DEF after
  <2>5. Copies(d.ledger, says)
           = Copies(history[d.rev], says) - Removed(d.asked, says) + Added(d.edits, says)
    BY <2>4 DEF CopiesOK
  <2>6. Copies(d.ledger, says) \in Nat /\ Copies(history[d.rev], says) \in Nat
    <3>1. history[d.rev] \in Ledger  BY <1>2, HistoryShape DEF WholeLedger
    <3>q. QED BY <1>2, <3>1, AlikeCopies, SaysCopies
  <2> DEFINE base == Copies(history[d.rev], says)
             was  == Copies(d.ledger, says)
             is   == Copies(after, says)
             r0   == Removed(d.asked, says)
             a0   == Added(d.edits, says)
             r1   == Removed(next.asked, says)
             a1   == Added(next.edits, says)
             r    == RemovedBy(edit, Alike(says))
             a    == AddedBy(edit, Alike(says))
  <2>7. /\ was = base - r0 + a0 /\ is = was - r + a /\ a1 = a0 + a /\ r1 = r0 + r
        /\ base \in Nat /\ was \in Nat /\ r0 \in Nat /\ a0 \in Nat /\ r \in Nat /\ a \in Nat
    BY <1>5, <2>3, <2>5, <2>6
  <2> HIDE DEF base, was, is, r0, a0, r1, a1, r, a
  <2>8. is = base - r1 + a1  BY <2>7
  <2>q. QED BY <1>1, <2>8 DEF base, is, r1, a1
<1>q. QED BY <1>5, <1>6 DEF CopiesOK

\* Every step keeps them.
LEMMA EditsKept ==
    ASSUME EditsInv, [Next]_vars
    PROVE  EditsInv'
<1>1. Typed /\ Typed' /\ \A d \in draft : CopiesOK(d) /\ DraftTyped(d)
  BY TypedKept DEF EditsInv, Typed
<1>2. CASE draft' = {}  BY <1>1, <1>2 DEF EditsInv
<1>3. CASE UNCHANGED <<draft, history>>  BY <1>1, <1>3 DEF EditsInv, CopiesOK
<1>4. CASE /\ UNCHANGED history
           /\ \E d : /\ draft' = {d} /\ d.ledger = history[d.rev] /\ d.rev \in DOMAIN history
                     /\ d.asked = <<>> /\ d.edits = <<>>
  <2>1. PICK d : /\ draft' = {d} /\ d.ledger = history[d.rev] /\ d.rev \in DOMAIN history
                 /\ d.asked = <<>> /\ d.edits = <<>>
    BY <1>4
  <2>2. ASSUME NEW says
        PROVE  /\ IsFiniteSet(AddedAt(d.edits, says))
               /\ Removed(d.asked, says) = 0 /\ Added(d.edits, says) = 0
               /\ Copies(d.ledger, says) \in Nat
    <3>1. AddedAt(<<>>, says) = {} /\ RemovedAt(<<>>, says) = {}  BY DEF AddedAt, RemovedAt
    <3>2. d.ledger \in Ledger  BY <1>1, <2>1, HistoryShape DEF WholeLedger, Typed
    <3>3. Copies(d.ledger, says) \in Nat  BY <3>2, AlikeCopies, SaysCopies
    <3>q. QED BY <2>1, <3>1, <3>3, CountsAre, FS_EmptySet
  <2>3. \A says : Copies(d.ledger, says)
                     = Copies(history[d.rev], says) - Removed(d.asked, says) + Added(d.edits, says)
    BY <2>1, <2>2
  <2>4. CopiesOK(d)  BY <2>2, <2>3 DEF CopiesOK
  <2>5. CopiesOK(d)'  BY <1>4, <2>4 DEF CopiesOK
  <2>q. QED BY <1>1, <2>1, <2>5 DEF EditsInv
<1>5. CASE /\ UNCHANGED history
           /\ \E d \in draft, op \in Operation : \E next : draft' = {next} /\ Taken(d, op, next)
  <2>1. PICK d, op, next :
            d \in draft /\ op \in Operation /\ draft' = {next} /\ Taken(d, op, next)
    BY <1>5
  <2>2. CopiesOK(next)  BY <1>1, <2>1, TakenCopies DEF Typed
  <2>3. CopiesOK(next)'  BY <1>5, <2>2 DEF CopiesOK
  <2>q. QED BY <1>1, <2>1, <2>3 DEF EditsInv
<1>q. QED BY <1>1, <1>2, <1>3, <1>4, <1>5, NextDraft

\* A change set edits what its caller named and nothing else.
THEOREM NamedIsEdited == Spec => []EditsWhatItNamed
<1>1. Init => EditsInv  BY InitTyped DEF Init, EditsInv
<1>2. EditsInv /\ [Next]_vars => EditsInv'  BY EditsKept
<1>3. EditsInv => EditsWhatItNamed  BY DEF EditsInv, CopiesOK, EditsWhatItNamed
<1>q. QED BY <1>1, <1>2, <1>3, PTL DEF Spec

\* The positions of a draft that parses are those of its references.
PositionsOK(d) == Parses(d.ledger) => Tracked(d.ledger, history[d.rev], d.positions)

\* The inductive invariant of ReferencesAreFollowed.
PositionsInv == Typed /\ \A d \in draft : PositionsOK(d)

\* On the base every reference is where it was read.
LEMMA BegunTracks ==
    ASSUME NEW ledger \in WholeLedger
    PROVE  Tracked(ledger, ledger, Positions(IndexOf(ledger)))
<1> DEFINE index == IndexOf(ledger)
           pos   == Positions(index)
<1> SUFFICES ASSUME NEW ref \in DOMAIN pos PROVE Tracks(ledger, ledger, pos, ref)
  BY DEF Tracked
<1>1. ref \in {e.ref : e \in index}  BY DEF Positions
<1>2. PICK x \in index : x.ref = ref  BY <1>1
<1> DEFINE e == CHOOSE y \in index : y.ref = ref
<1>3. e \in index /\ e.ref = ref  BY <1>2
<1>4. pos[ref].start = ref.start /\ pos[ref].end = e.end  BY <1>1 DEF Positions
<1> HIDE DEF e, pos
<1>5. /\ ref.path \in Path /\ ref.start \in Headers(ledger[ref.path])
      /\ e.end = EndOf(ledger[ref.path], ref.start)
  BY <1>3, IndexShape
<1>q. QED BY <1>4, <1>5 DEF Tracks

\* A transaction that is removed from a draft is the whole one at its place.
LEMMA TakenDeletes ==
    ASSUME NEW d, DraftTyped(d), NEW op \in Operation, NEW next, Taken(d, op, next),
           EditOf(d.ledger, Rebased(d, op)).kind = "delete"
    PROVE  LET edit == EditOf(d.ledger, Rebased(d, op))
           IN  /\ edit.start \in Headers(d.ledger[edit.path])
               /\ edit.old = TextAt(d.ledger[edit.path], edit.start)
<1> DEFINE here == Rebased(d, op)
           edit == EditOf(d.ledger, here)
<1>1. /\ RebaseCode(d, op) = "ok" /\ here \in Operation /\ Sound(d.ledger)
      /\ Allowed(d.ledger, here)
  BY DEF Taken, DraftTyped
<1> HIDE DEF here
<1>2. edit.kind = "delete"  BY DEF here
<1>3. here.kind \in {"create", "open", "close", "price", "reconcile", "rebalance",
                    "update", "delete"}
  BY <1>1 DEF Operation, Request
<1>4. here.kind = "delete"
  <2>1. here.kind # "delete" => edit.kind # "delete"  BY <1>3 DEF EditOf, Append1
  <2>q. QED BY <1>2, <2>1
<1>5. edit.path = here.ref.path /\ edit.old = here.text /\ edit.start = here.ref.start
  BY <1>4 DEF EditOf
<1>6. NamesCurrentRevision(d.ledger, here)  BY <1>1, <1>4 DEF Allowed
<1>7. PICK e \in IndexOf(d.ledger) : e.ref = here.ref /\ e.text = here.text
  BY <1>6 DEF NamesCurrentRevision, Named, Resolves
<1>8. d.ledger \in WholeLedger
  <2>1. BeanCheck(d.ledger)  BY <1>6 DEF NamesCurrentRevision, Named
  <2>q. QED BY <1>1, <2>1, SoundIsWhole DEF BeanCheck
<1>9. /\ here.ref.start \in Headers(d.ledger[here.ref.path])
      /\ here.text = TextAt(d.ledger[here.ref.path], here.ref.start)
  BY <1>7, <1>8, IndexShape
<1>q. QED BY <1>5, <1>9 DEF here

\* An operation that is taken moves the positions as it moves the lines.
LEMMA TakenTracks ==
    ASSUME HistoryTyped, NEW d, DraftTyped(d), PositionsOK(d), NEW op \in Operation,
           NEW next, Taken(d, op, next)
    PROVE  PositionsOK(next)
<1> DEFINE edit  == EditOf(d.ledger, Rebased(d, op))
           after == Edited(d.ledger, edit)
<1>1. /\ edit \in Edit /\ EditPossible(d.ledger, edit)
      /\ next.rev = d.rev /\ next.ledger = after
      /\ next.positions = Followed(d.positions, edit, d.ledger, after)
  BY DEF Taken
<1>2. Sound(d.ledger)  BY DEF DraftTyped
<1> SUFFICES ASSUME Parses(next.ledger)
             PROVE  Tracked(next.ledger, history[next.rev], next.positions)
  BY DEF PositionsOK
<1>3. Parses(after)  BY <1>1
<1>9. edit.kind = "delete" => /\ edit.start \in Headers(d.ledger[edit.path])
                              /\ edit.old = TextAt(d.ledger[edit.path], edit.start)
  BY TakenDeletes
<1> HIDE DEF edit
<1>4. EditOK(edit)  BY <1>1, EditsAreOK
<1>5. Sound(after) /\ Parses(d.ledger)  BY <1>1, <1>2, <1>3, <1>4, EditSound
<1>6. after \in WholeLedger /\ d.ledger \in WholeLedger  BY <1>2, <1>3, <1>5, SoundIsWhole
<1>7. Tracked(d.ledger, history[d.rev], d.positions)  BY <1>5 DEF PositionsOK
<1>8. Tracked(after, history[d.rev], Followed(d.positions, edit, d.ledger, after))
  BY <1>1, <1>6, <1>7, <1>9, EditTracks
<1>q. QED BY <1>1, <1>8

\* Every step keeps them.
LEMMA PositionsKept ==
    ASSUME PositionsInv, [Next]_vars
    PROVE  PositionsInv'
<1>1. Typed /\ Typed' /\ \A d \in draft : PositionsOK(d) /\ DraftTyped(d)
  BY TypedKept DEF PositionsInv, Typed
<1>2. CASE draft' = {}  BY <1>1, <1>2 DEF PositionsInv
<1>3. CASE UNCHANGED <<draft, history>>  BY <1>1, <1>3 DEF PositionsInv, PositionsOK
<1>4. CASE /\ UNCHANGED history
           /\ \E d : /\ draft' = {d} /\ d.ledger = history[d.rev] /\ d.ledger \in WholeLedger
                     /\ d.positions = Positions(IndexOf(d.ledger))
  <2>1. PICK d : /\ draft' = {d} /\ d.ledger = history[d.rev] /\ d.ledger \in WholeLedger
                 /\ d.positions = Positions(IndexOf(d.ledger))
    BY <1>4
  <2>2. PositionsOK(d)  BY <2>1, BegunTracks DEF PositionsOK
  <2>3. PositionsOK(d)'  BY <1>4, <2>2 DEF PositionsOK
  <2>q. QED BY <1>1, <2>1, <2>3 DEF PositionsInv
<1>5. CASE /\ UNCHANGED history
           /\ \E d \in draft, op \in Operation : \E next : draft' = {next} /\ Taken(d, op, next)
  <2>1. PICK d, op, next :
            d \in draft /\ op \in Operation /\ draft' = {next} /\ Taken(d, op, next)
    BY <1>5
  <2>2. PositionsOK(next)  BY <1>1, <2>1, TakenTracks DEF Typed
  <2>3. PositionsOK(next)'  BY <1>5, <2>2 DEF PositionsOK
  <2>q. QED BY <1>1, <2>1, <2>3 DEF PositionsInv
<1>q. QED BY <1>1, <1>2, <1>3, <1>4, <1>5, NextDraft

\* A reference that is still followed leads to the text it was read with.
THEOREM ReferencesAreFollowed == Spec => []PositionsFollow
<1>1. Init => PositionsInv  BY InitTyped DEF Init, PositionsInv
<1>2. PositionsInv /\ [Next]_vars => PositionsInv'  BY PositionsKept
<1>3. PositionsInv => PositionsFollow
  BY DEF PositionsInv, PositionsOK, Tracked, Tracks, PositionsFollow
<1>q. QED BY <1>1, <1>2, <1>3, PTL DEF Spec

\* The last operation of a draft, if it reconciles, has hit its target.
TargetOK(d) ==
    d.asked # <<>> /\ Last(d.asked).kind \in {"reconcile", "rebalance"} =>
        LET op   == Last(d.asked)
            date == IF op.kind = "reconcile" THEN AssertionDate(op) ELSE op.date
        IN  op.other \in Under[op.account]
            \/ LET total  == Total(d.ledger, Under[op.account], op.cur, date)
                   checks == Checkpoints(d.ledger, op.account, date, op.cur)
               IN  total \in checks /\ (op.kind = "reconcile" => checks = {total})

\* Such an operation hits it when it is taken.
LEMMA TakenHits ==
    ASSUME NEW d, DraftTyped(d), NEW op \in Operation, NEW next, Taken(d, op, next)
    PROVE  TargetOK(next)
<1> DEFINE here == Rebased(d, op)
           after == Edited(d.ledger, EditOf(d.ledger, here))
<1>1. /\ RebaseCode(d, op) = "ok" /\ Allowed(d.ledger, here)
      /\ next.ledger = after /\ next.asked = Append(d.asked, op)
  BY DEF Taken
<1>2. Sound(d.ledger) /\ d.asked \in Seq(Operation)  BY DEF DraftTyped
<1>3. Last(next.asked) = op
  <2> DEFINE n == Len(d.asked)
             s == Append(d.asked, op)
  <2>1. s[n + 1] = op /\ Len(s) = n + 1  BY <1>2, AppendedTo
  <2>q. QED BY <1>1, <2>1 DEF Last
<1> SUFFICES ASSUME op.kind \in {"reconcile", "rebalance"}, op.other \notin Under[op.account]
             PROVE  LET date == IF op.kind = "reconcile" THEN AssertionDate(op) ELSE op.date
                        total  == Total(after, Under[op.account], op.cur, date)
                        checks == Checkpoints(after, op.account, date, op.cur)
                    IN  total \in checks /\ (op.kind = "reconcile" => checks = {total})
  BY <1>1, <1>3 DEF TargetOK
<1>4. here = op
  <2>1. ~NamesTransaction(op)  BY DEF NamesTransaction
  <2>q. QED BY <1>1, <1>2, <2>1, RebasedShape
<1>5. Allowed(d.ledger, op) /\ after = Edited(d.ledger, EditOf(d.ledger, op))  BY <1>1, <1>4
<1> HIDE DEF after, here
<1>6. CASE op.kind = "reconcile"
  <2>1. /\ Total(after, Under[op.account], op.cur, AssertionDate(op)) = op.amount
        /\ Checkpoints(after, op.account, AssertionDate(op), op.cur) = {op.amount}
    BY <1>2, <1>5, <1>6, ReconcileHits
  <2>q. QED BY <1>6, <2>1
<1>7. CASE op.kind = "rebalance"
  <2>1. Total(after, Under[op.account], op.cur, op.date)
               \in Checkpoints(after, op.account, op.date, op.cur)
    BY <1>2, <1>5, <1>7, RebalanceHits
  <2>q. QED BY <1>7, <2>1
<1>q. QED BY <1>6, <1>7

\* The inductive invariant of ReconciliationsHit.
TargetInv == Typed /\ \A d \in draft : TargetOK(d)

\* Every step keeps it.
LEMMA TargetKept ==
    ASSUME TargetInv, [Next]_vars
    PROVE  TargetInv'
<1>1. Typed /\ Typed' /\ \A d \in draft : TargetOK(d) /\ DraftTyped(d)
  BY TypedKept DEF TargetInv, Typed
<1>2. CASE draft' = {}  BY <1>1, <1>2 DEF TargetInv
<1>3. CASE UNCHANGED <<draft, history>>
  BY <1>1, <1>3 DEF TargetInv
<1>4. CASE \E d : draft' = {d} /\ d.asked = <<>>
  BY <1>1, <1>4 DEF TargetInv, TargetOK
<1>5. CASE \E d \in draft, op \in Operation : \E next : draft' = {next} /\ Taken(d, op, next)
  <2>1. PICK d, op, next :
            d \in draft /\ op \in Operation /\ draft' = {next} /\ Taken(d, op, next)
    BY <1>5
  <2>2. TargetOK(next)  BY <1>1, <2>1, TakenHits
  <2>q. QED BY <1>1, <2>1, <2>2 DEF TargetInv
<1>q. QED BY <1>1, <1>2, <1>3, <1>4, <1>5, NextDraft

\* A reconciliation brings the account to the balance that was observed.
THEOREM ReconciliationsHit == Spec => []AdjustmentHitsTarget
<1>1. Init => TargetInv  BY InitTyped DEF Init, TargetInv
<1>2. TargetInv /\ [Next]_vars => TargetInv'  BY TargetKept
<1>3. TargetInv => AdjustmentHitsTarget  BY DEF TargetInv, TargetOK, AdjustmentHitsTarget
<1>q. QED BY <1>1, <1>2, <1>3, PTL DEF Spec

\* Every fact of an operation that could be read on its base was sealed.
AnsweredBy(base, op, facts) ==
    \A q \in QuestionsOf(op) :
        Reading(base, q) # {} => Fact(q, CHOOSE v \in Reading(base, q) : TRUE) \in facts

\* Sealed facts that hold of a ledger are read there as they were.
LEMMA FactsAnswer ==
    ASSUME NEW old, NEW new, NEW op, NEW facts, AnsweredBy(old, op, facts),
           SemanticFactsHold(new, facts)
    PROVE  Answered(old, new, op)
<1> SUFFICES ASSUME NEW q \in QuestionsOf(op), Reading(old, q) # {}
             PROVE  (CHOOSE v \in Reading(old, q) : TRUE) \in Reading(new, q)
  BY DEF Answered
<1> DEFINE x == CHOOSE v \in Reading(old, q) : TRUE
<1>1. Fact(q, x) \in facts  BY DEF AnsweredBy
<1> HIDE DEF x
<1>2. Fact(q, x).value = x /\ Fact(q, x).question = q  BY DEF Fact
<1>3. x \in Reading(new, q)  BY <1>1, <1>2 DEF SemanticFactsHold
<1>q. QED BY <1>3 DEF x

\* Capturing the facts of a plan seals those of its operation.
LEMMA ReadingsAnswer ==
    ASSUME NEW base, NEW op, NEW questions, QuestionsOf(op) \subseteq questions,
           NEW facts, facts = ReadingsOf(base, questions)
    PROVE  AnsweredBy(base, op, facts)
<1> DEFINE x(q) == CHOOSE v \in Reading(base, q) : TRUE
<1> SUFFICES ASSUME NEW q \in QuestionsOf(op), Reading(base, q) # {}
             PROVE  Fact(q, x(q)) \in facts
  BY DEF AnsweredBy
<1>1. facts = {Fact(y, x(y)) : y \in {z \in questions : Reading(base, z) # {}}}
  BY Zenon DEF ReadingsOf
<1> HIDE DEF x
<1>2. q \in {z \in questions : Reading(base, z) # {}}  OBVIOUS
<1>q. QED BY <1>1, <1>2

\* A plan of one operation rests on its policy at the revision it was made for.
Rests(base, asked, edits) ==
    Allowed(base, asked[1]) /\ IsAlone(edits, EditOf(base, asked[1]))

\* A pending action of one operation: allowed on its revision, and its facts sealed.
ActionRests(a) ==
    Len(a.asked) = 1 =>
        /\ Rests(history[a.rev], a.asked, a.edits)
        /\ AnsweredBy(history[a.rev], a.asked[1], a.facts)

\* What was published passes the policy on the revision it was applied to.
ReceiptHolds(r) ==
    /\ r.before \in DOMAIN history /\ r.action.asked \in Seq(Operation)
    /\ Len(r.action.asked) = 1 => PolicyHeld(history[r.before], r.action.asked[1])

\* What is published with its facts unchanged passes the policy still.
LEMMA PublishedHolds ==
    ASSUME HistoryTyped, NEW a, ActionTyped(a), ActionRests(a), NEW branch \in Branch,
           NEW request, NEW l, Publishes(a, branch, request, l)
    PROVE  \A r \in receipt' : ReceiptHolds(r)'
<1> DEFINE base == LedgerAt(branch)
           rec  == [action |-> a, request |-> request, age |-> age,
                    before |-> head[branch], after |-> Len(history) + 1]
<1>1. /\ receipt' = {rec} /\ l \in WholeLedger /\ BeanCheck(l)
      /\ Replayed(base, a.edits) = {l} /\ PreconditionsHold(a, base) /\ Commit(branch, l)
  BY DEF Publishes
<1>2. /\ base \in WholeLedger /\ head[branch] \in DOMAIN history
      /\ history[a.rev] \in WholeLedger
      /\ a.asked \in Seq(Operation) /\ a.edits \in Seq(Edit)
  BY HistoryShape DEF ActionTyped
<1>3. /\ DOMAIN history \subseteq DOMAIN history'
      /\ \A i \in DOMAIN history : history'[i] = history[i]
  BY <1>1, Committed
<1>4. history[head[branch]] = base  BY DEF LedgerAt
<1>5. rec.action = a /\ rec.before = head[branch]  OBVIOUS
<1> HIDE DEF rec, base
<1>6. ASSUME Len(a.asked) = 1 PROVE PolicyHeld(base, a.asked[1])
  <2> DEFINE op == a.asked[1]
             old == history[a.rev]
             e == EditOf(old, op)
  <2>1. op \in Operation  BY <1>2, <1>6
  <2>2. Allowed(old, op) /\ IsAlone(a.edits, e) /\ AnsweredBy(old, op, a.facts)
    BY <1>6 DEF ActionRests, Rests
  <2>3. SemanticFactsHold(base, a.facts)  BY <1>1 DEF PreconditionsHold
  <2> HIDE DEF op, old, e
  <2>4. Answered(old, base, op)  BY <2>2, <2>3, FactsAnswer
  <2>5. l = Edited(base, e)
    <3>1. Sound(base)  BY <1>2, WholeIsSound
    <3>2. PICK f : ReplaySteps(base, a.edits, f) /\ Replayed(base, a.edits) = f[Len(a.edits)]
      BY <1>2, <3>1, ReplayIs, EditsAreOK
    <3>3. Len(a.edits) = 1 /\ a.edits[1] = e  BY <2>2 DEF IsAlone
    <3>4. f[0] = {base}  BY <3>2 DEF ReplaySteps
    <3>5. f[1] = {Edited(x, e) : x \in {y \in f[0] : EditPossible(y, e)}}
      <4>1. 1 \in 1 .. Len(a.edits) /\ 1 - 1 = 0  BY <3>3
      <4>2. f[1] = {Edited(x, a.edits[1]) : x \in {y \in f[1 - 1] : EditPossible(y, a.edits[1])}}
        BY <3>2, <4>1 DEF ReplaySteps
      <4>q. QED BY <3>3, <4>1, <4>2
    <3>6. l \in f[1]  BY <1>1, <3>2, <3>3
    <3>q. QED BY <3>4, <3>5, <3>6
  <2>6. PolicyHeld(base, op)
    <3>1. old \in WholeLedger  BY <1>2 DEF old
    <3>q. QED BY <1>1, <1>2, <2>1, <2>2, <2>4, <2>5, <3>1, PolicyCarries DEF e
  <2>q. QED BY <2>6 DEF op
<1>7. history'[head[branch]] = base /\ head[branch] \in DOMAIN history'
  BY <1>2, <1>3, <1>4
<1>q. QED BY <1>1, <1>2, <1>5, <1>6, <1>7 DEF ReceiptHolds

\* What sealing and preparing put into an action.
SealedFrom(d, new) ==
    /\ new.asked = d.asked /\ new.edits = d.edits /\ new.rev = d.rev
    /\ new.facts = ReadingsOf(history[d.rev], d.questions)

\* An action prepared on the checkout, of one operation that is allowed there.
PreparedFrom(op, new) ==
    LET base == LedgerAt(MainBranch)
    IN  /\ Allowed(base, op) /\ new.rev = head[MainBranch]
        /\ new.asked = <<op>> /\ IsAlone(new.edits, EditOf(base, op))
        /\ \E questions : QuestionsOf(op) \subseteq questions
                          /\ new.facts = ReadingsOf(base, questions)

\* What sealing does.
LEMMA SealIs ==
    ASSUME NEW d, Seal(d)
    PROVE  /\ UNCHANGED <<history, head, receipt>> /\ draft' = {}
           /\ \E new : action' = {new} /\ SealedFrom(d, new)
<1> DEFINE new == Sealed("change_set", d.edits, ReadingsOf(history[d.rev], d.questions), d.rev,
                         d.owner, d.branch, d.layout, 0, d.asked, TRUE)
<1>1. action' = {new} /\ draft' = {} /\ UNCHANGED <<history, head, receipt>>  BY DEF Seal
<1>2. SealedFrom(d, new)  BY DEF SealedFrom, Sealed
<1> HIDE DEF new
<1>q. QED BY <1>1, <1>2

\* What preparing one operation puts into the action.
LEMMA PreparedOne ==
    ASSUME NEW u, NEW y, NEW type, NEW batch, NEW op, Allowed(LedgerAt(MainBranch), op),
           NEW new, new = PreparedAs(u, y, type, <<op>>, batch)
    PROVE  PreparedFrom(op, new)
<1> DEFINE base == LedgerAt(MainBranch)
           ops == <<op>>
           edits == [i \in DOMAIN ops |-> EditOf(base, ops[i])]
           questions == UNION {QuestionsOf(ops[i]) : i \in DOMAIN ops}
<1>1. /\ new.asked = <<op>> /\ new.rev = head[MainBranch] /\ new.edits = edits
      /\ new.facts = ReadingsOf(base, questions)
  BY DEF PreparedAs, Sealed
<1>2. DOMAIN ops = {1} /\ ops[1] = op  OBVIOUS
<1>3. QuestionsOf(op) \subseteq questions  BY <1>2
<1>4. edits = <<EditOf(base, op)>>
  <2>1. edits = [i \in {1} |-> EditOf(base, op)]  BY <1>2
  <2>2. {1} = 1 .. 1  OBVIOUS
  <2> HIDE DEF edits
  <2>q. QED BY <2>1, <2>2
<1> HIDE DEF edits, questions, base
<1>q. QED BY <1>1, <1>3, <1>4 DEF PreparedFrom, IsAlone, base

\* Revisions are added and never changed.
HistoryGrows == \A i \in DOMAIN history : i \in DOMAIN history' /\ history'[i] = history[i]

\* So it is with every commit.
LEMMA CommitGrows ==
    ASSUME HistoryTyped, NEW branch \in Branch, NEW ledger \in WholeLedger,
           Commit(branch, ledger)
    PROVE  HistoryGrows
  BY Committed DEF HistoryGrows

\* What may become of the pending action and of the receipt.
Prepared ==
    /\ UNCHANGED <<history, receipt>>
    /\ \E new : /\ action' = {new}
                /\ \/ \E d \in draft : SealedFrom(d, new)
                   \/ \E op \in Operation : PreparedFrom(op, new)
                   \/ Len(new.asked) # 1

\* An action was published.
Applied ==
    /\ UNCHANGED action
    /\ \E a \in action, branch \in Branch : \E request, l : Publishes(a, branch, request, l)

\* Nothing else becomes of the action, the receipt and the revisions.
ActionMoves ==
    /\ HistoryGrows
    /\ \/ action' = {} /\ UNCHANGED receipt
       \/ UNCHANGED <<action, receipt>>
       \/ Prepared
       \/ Applied

\* A set of one operation is allowed when that operation is.
LEMMA SetOfOne ==
    ASSUME 1 \in 1 .. MaxOps, NEW ops \in [1 .. 1 -> Requests], NEW base
    PROVE  /\ ops = <<ops[1]>> /\ ops[1] \in Operation
           /\ ChangeSetAllowed(base, ops) => Allowed(base, ops[1])
<1>1. /\ ops \in Seq(Operation) /\ Len(ops) = 1 /\ DOMAIN ops = 1 .. 1
      /\ ops[1] \in Request
  <2>1. 1 \in 1 .. 1  OBVIOUS
  <2>q. QED BY <2>1, SetShape
<1>2. ops = <<ops[1]>>
  <2>1. ops = [i \in 1 .. 1 |-> ops[i]]  OBVIOUS
  <2>2. \A i \in 1 .. 1 : i = 1  OBVIOUS
  <2>3. ops = [i \in 1 .. 1 |-> ops[1]]  BY <2>1, <2>2
  <2>q. QED BY <2>3
<1>3. ASSUME ChangeSetAllowed(base, ops) PROVE Allowed(base, ops[1])
  <2> DEFINE op == ops[1]
             before == {ops[j].account : j \in {k \in 1 .. (1 - 1) : ops[k].kind = "open"}}
             known == Known(base) \cup before
  <2>1. 1 \in DOMAIN ops  BY <1>1
  <2>2. before = {}
    <3>1. 1 .. (1 - 1) = {}  OBVIOUS
    <3>q. QED BY <3>1
  <2>3. known = Known(base)  BY <2>2
  <2>4. CASE op.kind = "open" /\ op.account \notin known
    BY <2>3, <2>4 DEF Allowed, OpenAllowed
  <2>5. CASE op.kind = "create" /\ PostsWithinPolicy(op.txns, known)
    BY <2>3, <2>5 DEF Allowed
  <2>6. \/ op.kind = "open" /\ op.account \notin known
        \/ op.kind = "create" /\ PostsWithinPolicy(op.txns, known)
    BY <1>3, <2>1 DEF ChangeSetAllowed
  <2>q. QED BY <2>4, <2>5, <2>6
<1>q. QED BY <1>1, <1>2, <1>3 DEF Operation

\* Every step is one of these.
LEMMA NextAction ==
    ASSUME Typed, [Next]_vars
    PROVE  ActionMoves
<1>1. HistoryTyped /\ OneWork /\ \A a \in action : ActionTyped(a)  BY DEF Typed
<1>2. UNCHANGED history => HistoryGrows  BY DEF HistoryGrows
<1>3. UNCHANGED <<history, action, receipt>> => ActionMoves  BY <1>2 DEF ActionMoves
<1>4. CASE UNCHANGED vars  BY <1>3, <1>4 DEF vars
<1>5. ASSUME NEW u \in User, NEW b \in Branch, NEW y \in Layout, Begin(u, b, y)
      PROVE  ActionMoves
  BY <1>3, <1>5 DEF Begin
<1>6. ASSUME NEW d \in draft, NEW op \in Asked, Take(d, op) \/ Refuse(d, op) PROVE ActionMoves
  BY <1>3, <1>6 DEF Take, Refuse
<1>7. ASSUME NEW d \in draft, Seal(d) \/ SealFails(d) PROVE ActionMoves
  <2>1. CASE Seal(d)
    <3>1. Prepared  BY <2>1, SealIs DEF Prepared
    <3>q. QED BY <1>2, <3>1 DEF ActionMoves, Prepared
  <2>2. CASE SealFails(d)  BY <1>3, <2>2 DEF SealFails
  <2>q. QED BY <1>7, <2>1, <2>2
<1>8. ASSUME NEW u \in User, NEW y \in Layout, NEW op \in Asked, PrepareOne(u, y, op)
      PROVE  ActionMoves
  <2>1. /\ op \in Operation /\ UNCHANGED <<history, receipt>>
        /\ \/ action' = {}
           \/ \E type, batch :
                 /\ Allowed(LedgerAt(MainBranch), op)
                 /\ \E new : new = PreparedAs(u, y, type, <<op>>, batch) /\ action' = {new}
    BY <1>1, <1>8, PrepareOneIs
  <2>2. action' = {} \/ \E new : action' = {new} /\ PreparedFrom(op, new)
    BY <2>1, PreparedOne
  <2>3. action' = {} \/ Prepared  BY <2>1, <2>2 DEF Prepared
  <2>q. QED BY <1>2, <2>1, <2>3 DEF ActionMoves
<1>9. ASSUME NEW u \in User, NEW y \in Layout, NEW n \in 1 .. MaxOps,
             NEW ops \in [1 .. n -> Requests], PrepareSet(u, y, ops)
      PROVE  ActionMoves
  <2> DEFINE base == LedgerAt(MainBranch)
  <2>1. /\ UNCHANGED <<history, receipt>>
        /\ \/ action' = {}
           \/ \E type, batch :
                 /\ ChangeSetAllowed(base, ops)
                 /\ \E new : new = PreparedAs(u, y, type, ops, batch) /\ action' = {new}
    BY <1>1, <1>9, PrepareSetIs
  <2>2. \A type, batch : PreparedAs(u, y, type, ops, batch).asked = ops
    BY DEF PreparedAs, Sealed
  <2>3. CASE n # 1
    <3>1. Len(ops) # 1  BY <1>9, <2>3, SetShape
    <3>2. action' = {} \/ \E new : action' = {new} /\ Len(new.asked) # 1
      BY <2>1, <2>2, <3>1
    <3>3. action' = {} \/ Prepared  BY <2>1, <3>2 DEF Prepared
    <3>q. QED BY <1>2, <2>1, <3>3 DEF ActionMoves
  <2>4. CASE n = 1
    <3>1. ops = <<ops[1]>> /\ ops[1] \in Operation
          /\ (ChangeSetAllowed(base, ops) => Allowed(base, ops[1]))
      BY <1>9, <2>4, SetOfOne
    <3> DEFINE op == ops[1]
    <3>2. \/ action' = {}
          \/ \E type, batch : /\ Allowed(base, op)
                               /\ \E new : /\ new = PreparedAs(u, y, type, <<op>>, batch)
                                           /\ action' = {new}
      BY <2>1, <3>1
    <3>3. op \in Operation  BY <3>1
    <3> HIDE DEF op
    <3>4. action' = {} \/ \E new : action' = {new} /\ PreparedFrom(op, new)
      BY <3>2, PreparedOne
    <3>5. action' = {} \/ Prepared  BY <2>1, <3>3, <3>4 DEF Prepared
    <3>q. QED BY <1>2, <2>1, <3>5 DEF ActionMoves
  <2>q. QED BY <2>3, <2>4
<1>10. ASSUME NEW b \in Branch, Push(b) PROVE ActionMoves
  BY <1>1, <1>10, PushIs, CommitGrows DEF ActionMoves
<1>11. CASE Tick  BY <1>3, <1>11 DEF Tick
<1>12. ASSUME NEW a \in action, Applies(a) PROVE ActionMoves
  <2>1. CASE UNCHANGED <<history, head, receipt>>
    BY <1>3, <1>12, <2>1 DEF Applies
  <2>2. ASSUME NEW branch \in Branch, NEW request, NEW l, Publishes(a, branch, request, l)
        PROVE  ActionMoves
    <3>1. Applied  BY <1>12, <2>2 DEF Applied, Applies
    <3>2. HistoryGrows  BY <1>1, <2>2, CommitGrows DEF Publishes
    <3>q. QED BY <3>1, <3>2 DEF ActionMoves
  <2>q. QED BY <1>12, <2>1, <2>2 DEF Applies
<1>13. ASSUME NEW a \in action, NEW u \in User, NEW b \in Branch, NEW y \in Layout,
              NEW rev \in DOMAIN history, ApplySealed(a, u, b, y, rev)
       PROVE  ActionMoves
  BY <1>12, <1>13, AppliesIs
<1>14. ASSUME NEW a \in action, NEW u \in User, NEW y \in Layout, NEW route \in Routes,
              NEW proof \in Proofs, ApplyApproved(a, u, y, route, proof)
       PROVE  ActionMoves
  <2>1. Applies(a)
    <3>1. PICK b \in Branch : TRUE  BY RequestsAssumption
    <3>q. QED BY <1>14, <3>1, AppliesIs
  <2>q. QED BY <1>12, <2>1
<1>q. QED
  BY <1>4, <1>5, <1>6, <1>7, <1>8, <1>9, <1>10, <1>11, <1>13, <1>14 DEF Next

\* A draft with no operation yet is its base; the first one made in it was
\* allowed there and asked under the names of the base.
DraftRests(d) ==
    /\ Len(d.asked) = 0 =>
          /\ d.ledger = history[d.rev] /\ Len(d.edits) = 0
          /\ d.positions = Positions(IndexOf(d.ledger))
    /\ Len(d.asked) = 1 =>
          /\ Rests(history[d.rev], d.asked, d.edits)
          /\ QuestionsOf(d.asked[1]) \subseteq d.questions

\* On its base a reference leads to itself.
LEMMA RebasedOnBase ==
    ASSUME NEW d, d.ledger \in WholeLedger, d.positions = Positions(IndexOf(d.ledger)),
           NEW op \in Operation, RebaseCode(d, op) = "ok"
    PROVE  Rebased(d, op) = op
<1>1. CASE ~NamesTransaction(op)  BY <1>1 DEF Rebased
<1>2. CASE NamesTransaction(op)
  <2> DEFINE pos == Positions(IndexOf(d.ledger))
  <2>1. op.ref \in DOMAIN d.positions  BY <1>2 DEF RebaseCode, RefCode
  <2>2. \A ref \in DOMAIN pos : pos[ref].start = ref.start /\ \E f \in IndexOf(d.ledger) : f.ref = ref
    BY DEF Positions
  <2>3. PICK f \in IndexOf(d.ledger) : f.ref = op.ref  BY <2>1, <2>2
  <2>4. d.positions[op.ref].start = op.ref.start  BY <2>1, <2>2
  <2>5. Sound(d.ledger)  BY WholeIsSound
  <2>6. PICK e \in Matches(d, op) : Rebased(d, op) = [op EXCEPT !.ref = e.ref]
    BY <1>2, <2>5, RebasedShape
  <2>7. e \in IndexOf(d.ledger) /\ e.ref.path = op.ref.path /\ e.ref.start = op.ref.start
    BY <2>4 DEF Matches
  <2>8. e.ref = Ref(d.ledger, e.ref.path, e.ref.start)  BY <2>7, IndexShape
  <2>9. f.ref = Ref(d.ledger, f.ref.path, f.ref.start)  BY IndexShape
  <2>10. e.ref = op.ref  BY <2>3, <2>7, <2>8, <2>9
  <2>11. [op EXCEPT !.ref = op.ref] = op
    <3>1. \/ op \in [kind : {"delete"}, ref : Reference, text : Text]
          \/ op \in [kind : {"update"}, ref : Reference, text : Text, new : Transaction]
      BY <1>2 DEF Operation, Request, NamesTransaction
    <3>q. QED BY <3>1
  <2>q. QED BY <2>6, <2>10, <2>11
<1>q. QED BY <1>1, <1>2

\* The questions of an operation are asked under its own names.
LEMMA SameQuestions ==
    ASSUME NEW op \in Operation, NEW names,
           NamesTransaction(op) => op.ref \in DOMAIN names /\ names[op.ref] = op.ref
    PROVE  QuestionsOf(op) \subseteq OriginalQuestions(names, QuestionsOf(op))
<1> SUFFICES ASSUME NEW q \in QuestionsOf(op)
             PROVE  q \in OriginalQuestions(names, QuestionsOf(op))
  OBVIOUS
<1>1. CASE q.kind # "transaction_revision"
  BY <1>1 DEF OriginalQuestions
<1>2. CASE q.kind = "transaction_revision"
  <2>1. /\ \A accounts : \A x \in AboutAccounts(accounts) : x.kind = "account_state"
        /\ \A x, date : \A y \in AboutAdjustment(x, date) : y.kind # "transaction_revision"
        /\ \A a, date : AboutClose(a, date).kind = "account_close_state"
        /\ \A a : AboutAccount(a).kind = "account_state"
        /\ \A p : AboutPrice(p).kind = "price_state"
    BY DEF AboutAccounts, AboutAccount, AboutAdjustment, AboutBalance, AboutCheckpoint,
           AboutClose, AboutPrice
  <2>2. NamesTransaction(op) /\ q = AboutRevision(op.ref)
    <3>1. op.kind \in {"create", "open", "close", "price", "reconcile", "rebalance",
                       "update", "delete"}
      BY DEF Operation, Request
    <3>2. ~NamesTransaction(op) => q.kind # "transaction_revision"
      BY <2>1, <3>1 DEF QuestionsOf, NamesTransaction
    <3>3. NamesTransaction(op) => q = AboutRevision(op.ref) \/ q.kind = "account_state"
      BY <2>1 DEF QuestionsOf, NamesTransaction
    <3>q. QED BY <1>2, <3>2, <3>3
  <2>3. q.subject.ref = op.ref  BY <2>2 DEF AboutRevision
  <2>4. AboutRevision(names[q.subject.ref]) = q  BY <2>2, <2>3
  <2>q. QED BY <2>2, <2>3, <2>4 DEF OriginalQuestions
<1>q. QED BY <1>1, <1>2

\* The first operation of a draft rests on its base.
LEMMA TakenRests ==
    ASSUME HistoryTyped, NEW d, DraftTyped(d), DraftRests(d), NEW op \in Operation,
           NEW next, Taken(d, op, next)
    PROVE  DraftRests(next)
<1> DEFINE base  == history[d.rev]
           here  == Rebased(d, op)
           edit  == EditOf(d.ledger, here)
           names == IF NamesTransaction(op) THEN Noted(d.names, here.ref, op.ref) ELSE d.names
<1>1. d.asked \in Seq(Operation) /\ d.edits \in Seq(Edit) /\ base \in WholeLedger
  BY HistoryShape DEF DraftTyped
<1>2. /\ RebaseCode(d, op) = "ok" /\ Allowed(d.ledger, here) /\ edit \in Edit
      /\ next.rev = d.rev /\ next.asked = Append(d.asked, op)
      /\ next.edits = Append(d.edits, edit)
      /\ next.questions = d.questions \cup OriginalQuestions(names, QuestionsOf(here))
  BY DEF Taken
<1> HIDE DEF here, edit, names
<1>3. Len(next.asked) = Len(d.asked) + 1 /\ Len(d.asked) \in Nat
  BY <1>1, <1>2, AppendedTo, LenProperties
<1>4. SUFFICES ASSUME Len(d.asked) = 0
               PROVE  /\ Rests(base, next.asked, next.edits)
                      /\ QuestionsOf(next.asked[1]) \subseteq next.questions
  BY <1>2, <1>3 DEF DraftRests
<1>5. d.ledger = base /\ Len(d.edits) = 0 /\ d.positions = Positions(IndexOf(d.ledger))
  BY <1>4 DEF DraftRests
<1>6. here = op  BY <1>1, <1>2, <1>5, RebasedOnBase DEF here
<1>7. next.asked[1] = op
  <2>1. next.asked[Len(d.asked) + 1] = op  BY <1>1, <1>2, AppendedTo
  <2>q. QED BY <1>4, <2>1
<1>8. next.edits = <<edit>>
  <2>1. d.edits = <<>>  BY <1>1, <1>5, EmptySeq
  <2>q. QED BY <1>2, <2>1
<1>9. edit = EditOf(base, op)  BY <1>5, <1>6 DEF edit
<1>10. QuestionsOf(op) \subseteq OriginalQuestions(names, QuestionsOf(op))
  <2>1. NamesTransaction(op) => op.ref \in DOMAIN names /\ names[op.ref] = op.ref
    BY <1>6 DEF names, Noted
  <2>q. QED BY <2>1, SameQuestions
<1>q. QED BY <1>2, <1>5, <1>6, <1>7, <1>8, <1>9, <1>10 DEF Rests, IsAlone

\* The inductive invariant of PolicyHolds.
PolicyInv ==
    /\ Typed
    /\ \A d \in draft : DraftRests(d)
    /\ \A a \in action : ActionRests(a)
    /\ \A r \in receipt : ReceiptHolds(r)

\* Every step keeps it.
LEMMA PolicyKept ==
    ASSUME PolicyInv, [Next]_vars
    PROVE  PolicyInv'
<1>1. /\ Typed /\ Typed' /\ HistoryTyped
      /\ \A d \in draft : DraftTyped(d) /\ DraftRests(d)
      /\ \A a \in action : ActionTyped(a) /\ ActionRests(a)
      /\ \A r \in receipt : ReceiptHolds(r)
  BY TypedKept DEF PolicyInv, Typed
<1>2. ActionMoves  BY <1>1, NextAction
<1>3. \A d \in draft' : DraftRests(d)'
  <2>1. CASE draft' = {}  BY <2>1
  <2>2. CASE UNCHANGED <<draft, history>>  BY <1>1, <2>2 DEF DraftRests
  <2>3. ASSUME UNCHANGED history, NEW d, draft' = {d}, d.ledger = history[d.rev],
               d.positions = Positions(IndexOf(d.ledger)), d.asked = <<>>, d.edits = <<>>
        PROVE  DraftRests(d)'
    BY <2>3 DEF DraftRests
  <2>4. ASSUME UNCHANGED history, NEW d \in draft, NEW op \in Operation, NEW next,
               draft' = {next}, Taken(d, op, next)
        PROVE  DraftRests(next)'
    <3>1. DraftRests(next)  BY <1>1, <2>4, TakenRests
    <3>q. QED BY <2>4, <3>1 DEF DraftRests
  <2>q. QED BY <1>1, <2>1, <2>2, <2>3, <2>4, NextDraft
<1>4. \A a \in action : ActionRests(a)'
  BY <1>1, <1>2 DEF ActionMoves, HistoryGrows, ActionTyped, ActionRests
<1>5. \A r \in receipt : ReceiptHolds(r)'
  BY <1>1, <1>2 DEF ActionMoves, HistoryGrows, ReceiptHolds
<1>6. \A a \in action' : ActionRests(a)'
  <2>1. ASSUME UNCHANGED history, NEW d \in draft, NEW new, SealedFrom(d, new)
        PROVE  ActionRests(new)'
    <3> SUFFICES ASSUME Len(new.asked) = 1
                 PROVE  /\ Rests(history[d.rev], d.asked, d.edits)
                        /\ AnsweredBy(history[d.rev], d.asked[1], new.facts)
      BY <2>1 DEF SealedFrom, ActionRests
    <3>1. /\ Rests(history[d.rev], d.asked, d.edits)
          /\ QuestionsOf(d.asked[1]) \subseteq d.questions
      BY <1>1, <2>1 DEF SealedFrom, DraftRests
    <3>q. QED BY <2>1, <3>1, ReadingsAnswer DEF SealedFrom
  <2>2. ASSUME UNCHANGED history, NEW op \in Operation, NEW new, PreparedFrom(op, new)
        PROVE  ActionRests(new)'
    <3> DEFINE base == history[new.rev]
    <3>1. base = LedgerAt(MainBranch)  BY <2>2 DEF PreparedFrom, LedgerAt
    <3>2. new.asked = <<op>> /\ new.asked[1] = op  BY <2>2 DEF PreparedFrom
    <3>3. Rests(base, new.asked, new.edits)  BY <2>2, <3>1, <3>2 DEF PreparedFrom, Rests
    <3>4. AnsweredBy(base, op, new.facts)
      <4>1. PICK questions : /\ QuestionsOf(op) \subseteq questions
                             /\ new.facts = ReadingsOf(LedgerAt(MainBranch), questions)
        BY <2>2 DEF PreparedFrom
      <4>q. QED BY <3>1, <4>1, ReadingsAnswer
    <3>q. QED BY <2>2, <3>2, <3>3, <3>4 DEF ActionRests
  <2>3. ASSUME NEW new, Len(new.asked) # 1 PROVE ActionRests(new)'
    BY <2>3 DEF ActionRests
  <2>4. CASE Prepared
    <3>1. UNCHANGED history  BY <2>4 DEF Prepared
    <3>q. QED BY <2>1, <2>2, <2>3, <2>4, <3>1 DEF Prepared
  <2>5. CASE UNCHANGED action  BY <1>4, <2>5
  <2>q. QED BY <1>2, <2>4, <2>5 DEF ActionMoves, Applied
<1>7. \A r \in receipt' : ReceiptHolds(r)'
  <2>1. CASE UNCHANGED receipt  BY <1>5, <2>1
  <2>2. CASE Applied
    <3>1. PICK a, branch, request, l :
                a \in action /\ branch \in Branch /\ Publishes(a, branch, request, l)
      BY <2>2 DEF Applied
    <3>q. QED BY <1>1, <3>1, PublishedHolds
  <2>q. QED BY <1>2, <2>1, <2>2 DEF ActionMoves, Prepared
<1>q. QED BY <1>1, <1>3, <1>6, <1>7 DEF PolicyInv

\* Whatever was pushed between the preparation and the approval: a price that
\* is published is the first of its day, an account that is closed is empty and
\* stays unused, an asserted balance was not asserted before, and a transaction
\* that is changed is the one that was named, as it was read.
THEOREM PolicyHolds == Spec => []PolicyHoldsWhenPublished
<1>1. Init => PolicyInv
  <2>1. Init => Typed  BY InitTyped
  <2>q. QED BY <2>1 DEF Init, PolicyInv
<1>2. PolicyInv /\ [Next]_vars => PolicyInv'  BY PolicyKept
<1>3. PolicyInv => PolicyHoldsWhenPublished
  <2> SUFFICES ASSUME PolicyInv, NEW r \in receipt, NEW i \in DOMAIN r.action.asked,
                      Len(r.action.asked) = 1
               PROVE  PolicyHeld(history[r.before], r.action.asked[i])
    BY DEF PolicyHoldsWhenPublished, PolicyHeld
  <2>1. /\ r.action.asked \in Seq(Operation)
        /\ PolicyHeld(history[r.before], r.action.asked[1])
    BY DEF PolicyInv, ReceiptHolds
  <2>2. DOMAIN r.action.asked = 1 .. 1  BY <2>1, LenProperties
  <2>3. i = 1  BY <2>2
  <2>q. QED BY <2>1, <2>3
<1>q. QED BY <1>1, <1>2, <1>3, PTL DEF Spec
=============================================================================
