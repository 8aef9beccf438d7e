--------------------------- MODULE ChatStreamProofs ---------------------------
(***************************************************************************)
(* For any number of tool calls, turns and pieces of text: the types of    *)
(* the stream, that the workspace outlives the tools that read it, and     *)
(* what the host can rely on in a turn that is closed: nothing is lost,    *)
(* the history comes back last and whole, and what it is asked to approve  *)
(* is what was prepared.                                                   *)
(***************************************************************************)
EXTENDS ChatStream, DataLemmas, SequenceTheorems, TLAPS

-----------------------------------------------------------------------------
(* The invariant.                                                          *)

Early == {"upload", "open", "preflight", "launch"}
Late  == {"lastTexts", "lastEvents", "failedEvents", "closing", "finishing", "ending", "over"}

\* The phases in which the workspace is there.
Opened == {"preflight", "launch", "poll", "texts", "events", "await", "lastTexts",
           "lastEvents", "failedEvents", "closing", "finishing"}

\* A call that neither runs nor has anything to report.
Quiet == {"unused", "spent"} \cup Answered

\* The handler leaves the poll loop when the graph is done, and gives the
\* workspace back after that.
PhaseOK ==
    /\ phase \in Opened => workspace
    /\ phase \in Early => graph = "none"
    /\ phase \in Late => graph \in {"none", "ended", "failed"}

\* Calls are at work while the graph is at the tools, and only those of the last
\* answer; a node that raises leaves the others running.
CallsOK ==
    /\ graph \notin {"tools", "tools.failed", "failed"} => \A c \in Call : call[c] \in Quiet
    /\ graph = "tools" => \A c \in Call \ round : call[c] \in Quiet

Inv == TypeOK /\ PhaseOK /\ CallsOK

\* At most one snapshot is held back.
LEMMA ShortSequences ==
    \A seq : seq = <<>> \/ (\E x : seq = <<x>>) => Len(seq) <= 1
<1>1. \A seq : seq = <<>> => Len(seq) <= 1  OBVIOUS
<1>2. ASSUME NEW x  PROVE Len(<<x>>) <= 1  OBVIOUS
<1>3. \A seq : (\E x : seq = <<x>>) => Len(seq) <= 1  BY <1>2
<1>q. QED BY <1>1, <1>3

LEMMA InitInv == Init => Inv
<1> SUFFICES ASSUME Init PROVE Inv  OBVIOUS
<1>0. 1 \in 1 .. MaxTurns /\ MaxTexts[1] \in Nat  BY ChatAssumption
<1>h. Len(held) <= 1  BY ShortSequences DEF Init
<1>1. TypeOK
  <2>1. turn \in 1 .. MaxTurns /\ spoken \in 0 .. MaxTexts[turn] /\ texts \in 0 .. spoken
    BY <1>0 DEF Init
  <2>2. /\ phase \in Phase /\ awaiting \in BOOLEAN /\ workspace \in BOOLEAN
        /\ graph \in NodeEvents \cup {"none", "model", "tools", "ended", "failed"}
        /\ round \subseteq Call /\ prepared \subseteq Call
    BY DEF Init, Phase
  <2>3. call \in [Call -> Reporting \cup Answered \cup {"unused", "working", "raised", "spent"}]
    BY DEF Init
  <2>q. QED BY <1>h, <2>1, <2>2, <2>3 DEF TypeOK
<1>2. PhaseOK /\ CallsOK  BY DEF Init, PhaseOK, CallsOK, Opened, Early, Late, Quiet
<1>q. QED BY <1>1, <1>2 DEF Inv

-----------------------------------------------------------------------------
(* The request handler.                                                    *)

\* A step that leaves the graph, its calls and what they said.
LEMMA HandlerKeeps ==
    ASSUME Inv, UNCHANGED <<turn, graph, round, prepared, call, spoken>>,
           texts' \in 0 .. texts, awaiting' \in BOOLEAN, workspace' \in BOOLEAN,
           phase' \in Phase, held' = held \/ \E x : held' = <<x>>,
           phase' \in Opened => workspace',
           phase' \in Early => graph = "none",
           phase' \in Late => graph \in {"none", "ended", "failed"}
    PROVE  Inv'
<1>1. Len(held') <= 1
  <2>1. CASE held' = held  BY <2>1 DEF Inv, TypeOK
  <2>2. CASE held' # held  BY <2>2, ShortSequences
  <2>q. QED BY <2>1, <2>2
<1>2. texts' \in 0 .. spoken'  BY DEF Inv, TypeOK
<1>3. TypeOK'  BY <1>1, <1>2 DEF Inv, TypeOK
<1>4. PhaseOK'  BY DEF PhaseOK
<1>5. CallsOK'  BY DEF Inv, CallsOK
<1>q. QED BY <1>3, <1>4, <1>5 DEF Inv

LEMMA DeliverKeeps ==
    ASSUME Inv, NEW chunk, Deliver(chunk)
    PROVE  /\ awaiting' \in BOOLEAN
           /\ held' = held \/ \E x : held' = <<x>>
           /\ workspace' = workspace
  BY DEF Deliver, RequiresInput, Inv, TypeOK

\* The handler goes from one phase to the next with the workspace it has.
LEMMA ProceedKeeps ==
    ASSUME Inv, NEW from \in Phase, NEW to \in Phase, NEW then, Proceed(from, to, then),
           UNCHANGED <<held, awaiting, turns, graph, messages, call, content>>,
           workspace' \in BOOLEAN,
           to \in Opened => workspace',
           to \in Early => graph = "none",
           to \in Late => graph \in {"none", "ended", "failed"}
    PROVE  Inv'
<1>1. UNCHANGED <<turn, graph, round, prepared, call, spoken>> /\ texts' = texts /\ held' = held
  BY DEF turns, messages, content
<1>2. texts \in Nat /\ awaiting' \in BOOLEAN  BY ChatAssumption DEF Inv, TypeOK
<1>3. texts' \in 0 .. texts  BY <1>1, <1>2
<1>4. phase' = to  BY DEF Proceed
<1>q. QED BY <1>1, <1>2, <1>3, <1>4, HandlerKeeps

LEMMA HandlerInv ==
    ASSUME Inv, HandlerStep  PROVE Inv'
<1> USE DEF Phase, Early, Late, Opened
<1>0. PhaseOK /\ workspace \in BOOLEAN /\ texts \in Nat /\ awaiting \in BOOLEAN /\ phase \in Phase
  BY ChatAssumption DEF Inv, TypeOK
<1>1. CASE YieldChunk
  <2>1. Deliver(Head(script)) /\ UNCHANGED <<turns, phase, graph, messages, call, content, queue>>
    BY <1>1 DEF YieldChunk
  <2>2. /\ UNCHANGED <<turn, phase, graph, round, prepared, call, spoken>>
        /\ texts' \in 0 .. texts
    BY <1>0, <2>1 DEF turns, messages, content
  <2>q. QED BY <1>0, <2>1, <2>2, DeliverKeeps, HandlerKeeps DEF PhaseOK
<1>2. CASE UploadFails \/ Upload \/ Open \/ Preflight
  BY <1>0, <1>2, ProceedKeeps DEF UploadFails, Upload, Open, Preflight, Aside, PhaseOK, Proceed
<1>3. CASE OpenFails \/ PreflightFails
  BY <1>0, <1>3, ProceedKeeps DEF OpenFails, PreflightFails, Fail, Aside, PhaseOK, Proceed
<1>4. CASE Launch
  <2>1. /\ phase = "launch" /\ phase' = "poll" /\ graph' = "agent.started"
        /\ UNCHANGED <<turn, held, awaiting, workspace, round, prepared, call, spoken, texts>>
    BY <1>4 DEF Launch, Proceed, turns, content
  <2>2. TypeOK'  BY <2>1 DEF Inv, TypeOK, NodeEvents
  <2>3. PhaseOK' /\ CallsOK'  BY <1>0, <2>1 DEF Inv, PhaseOK, CallsOK
  <2>q. QED BY <2>2, <2>3 DEF Inv
<1>5. CASE Poll \/ Await
  BY <1>0, <1>5, ProceedKeeps DEF Poll, Await, GoOn, GraphDone, Aside, PhaseOK, Proceed
<1>6. CASE TextsDrained \/ EventsDrained \/ LastTexts
  BY <1>0, <1>6, ProceedKeeps DEF TextsDrained, EventsDrained, LastTexts, GoOn, Aside, PhaseOK, Proceed
<1>7. CASE \E from \in {"texts", "lastTexts"} : DrainText(from)
  <2>1. /\ Deliver(Text) /\ texts > 0 /\ texts' = texts - 1
        /\ UNCHANGED <<turn, phase, graph, round, prepared, call, spoken>>
    BY <1>7 DEF DrainText, turns, messages
  <2>2. texts' \in 0 .. texts  BY <1>0, <2>1
  <2>q. QED BY <1>0, <2>1, <2>2, DeliverKeeps, HandlerKeeps DEF PhaseOK
<1>8. CASE \E from \in {"events", "lastEvents", "failedEvents"} : DrainEvent(from)
  <2>1. /\ Deliver(Head(queue))
        /\ UNCHANGED <<turn, phase, graph, round, prepared, call, spoken, texts>>
    BY <1>8 DEF DrainEvent, turns, messages, content
  <2>2. texts' \in 0 .. texts  BY <1>0, <2>1
  <2>q. QED BY <1>0, <2>1, <2>2, DeliverKeeps, HandlerKeeps DEF PhaseOK
<1>9. CASE Close \/ Apologise
  BY <1>0, <1>9, ProceedKeeps DEF Close, Apologise, Aside, PhaseOK, Proceed
<1>10. CASE Finish \/ Release \/ End
  BY <1>0, <1>10, ProceedKeeps DEF Finish, Release, End, Aside, PhaseOK, Proceed
<1>q. QED BY <1>1, <1>2, <1>3, <1>4, <1>5, <1>6, <1>7, <1>8, <1>9, <1>10 DEF HandlerStep, Drain

-----------------------------------------------------------------------------
(* The graph, its tools and the host.                                      *)

\* The graph's event starts the calls of the answer, but those of no tool.
LEMMA NodeCalls ==
    ASSUME NodeCallback,
           call \in [Call -> Reporting \cup Answered \cup {"unused", "working", "raised", "spent"}]
    PROVE  /\ call' \in [Call -> Reporting \cup Answered \cup {"unused", "working", "raised", "spent"}]
           /\ \A c \in Call : \/ call'[c] = call[c]
                            \/ /\ graph = "tools.started" /\ c \in round
                               /\ call'[c] \in {"started", "unknown"}
<1>1. CASE graph = "tools.started"
  <2>1. PICK unknown \in SUBSET round : call' = Dispatched(unknown)  BY <1>1 DEF NodeCallback
  <2>2. \A c \in Call : Dispatched(unknown)[c] = IF c \in unknown THEN "unknown"
                                                ELSE IF c \in round THEN "started" ELSE call[c]
    BY DEF Dispatched
  <2>3. Dispatched(unknown) = [c \in Call |-> Dispatched(unknown)[c]]  BY DEF Dispatched
  <2>4. \A c \in Call : Dispatched(unknown)[c] \in
           Reporting \cup Answered \cup {"unused", "working", "raised", "spent"}
    BY <2>2 DEF Reporting, Answered, CallEvents
  <2> DEFINE new == Dispatched(unknown)
  <2> HIDE DEF new
  <2>5. new \in [Call -> Reporting \cup Answered \cup {"unused", "working", "raised", "spent"}]
    BY <2>3, <2>4 DEF new
  <2>6. \A c \in Call : new[c] = IF c \in unknown THEN "unknown"
                                 ELSE IF c \in round THEN "started" ELSE call[c]
    BY <2>2 DEF new
  <2>7. call' = new  BY <2>1 DEF new
  <2>q. QED BY <1>1, <2>1, <2>5, <2>6, <2>7
<1>2. CASE graph # "tools.started"  BY <1>2 DEF NodeCallback
<1>q. QED BY <1>1, <1>2

LEMMA GraphInv ==
    ASSUME Inv, GraphStep  PROVE Inv'
<1> USE DEF Quiet
<1>1. CASE NodeCallback
  <2>1. /\ graph \in NodeEvents /\ graph' = AfterNodeEvent
        /\ UNCHANGED <<turn, phase, held, awaiting, workspace, round, prepared, spoken, texts>>
    BY <1>1 DEF NodeCallback, turns, handler, messages, content
  <2>0. /\ call' \in [Call -> Reporting \cup Answered \cup {"unused", "working", "raised", "spent"}]
        /\ \A c \in Call : call'[c] # call[c] => graph = "tools.started" /\ c \in round
    BY <1>1, NodeCalls DEF Inv, TypeOK
  <2>2. graph' \in NodeEvents \cup {"none", "model", "tools", "ended", "failed"}
    BY <2>1 DEF NodeEvents, AfterNodeEvent
  <2>3. TypeOK'  BY <2>0, <2>1, <2>2 DEF Inv, TypeOK
  <2>4. PhaseOK'  BY <2>1 DEF Inv, PhaseOK, NodeEvents
  <2>5. CallsOK'  BY <2>0, <2>1 DEF Inv, TypeOK, CallsOK, NodeEvents, AfterNodeEvent
  <2>q. QED BY <2>3, <2>4, <2>5 DEF Inv
<1>2. CASE ModelSpeaks
  <2>1. /\ spoken < MaxTexts[turn] /\ spoken' = spoken + 1 /\ texts' = texts + 1
        /\ UNCHANGED <<turn, phase, held, awaiting, workspace, graph, round, prepared, call>>
    BY <1>2 DEF ModelSpeaks, turns, handler, messages
  <2>2. MaxTexts[turn] \in Nat  BY ChatAssumption DEF Inv, TypeOK
  <2>3. spoken' \in 0 .. MaxTexts[turn] /\ texts' \in 0 .. spoken'  BY <2>1, <2>2 DEF Inv, TypeOK
  <2>4. TypeOK'  BY <2>1, <2>3 DEF Inv, TypeOK
  <2>5. PhaseOK' /\ CallsOK'  BY <2>1 DEF Inv, PhaseOK, CallsOK
  <2>q. QED BY <2>4, <2>5 DEF Inv
<1>3. CASE ModelAnswers \/ ModelFails
  <2>1. /\ graph = "model" /\ graph' \in {"agent.completed", "agent.failed"}
        /\ round' \subseteq Call
        /\ UNCHANGED <<turn, phase, held, awaiting, workspace, prepared, call, spoken, texts>>
    BY <1>3 DEF ModelAnswers, ModelFails, turns, handler, messages, content, Inv, TypeOK
  <2>2. TypeOK'  BY <2>1 DEF Inv, TypeOK, NodeEvents
  <2>3. PhaseOK' /\ CallsOK'  BY <2>1 DEF Inv, PhaseOK, CallsOK
  <2>q. QED BY <2>2, <2>3 DEF Inv
<1>4. CASE ToolsReturn \/ ToolsRaise
  <2>1. /\ graph = "tools"
        /\ \/ graph' = "tools.completed" /\ \A c \in round : call[c] \in Answered
           \/ graph' = "tools.failed"
        /\ UNCHANGED <<turn, phase, held, awaiting, workspace, round, prepared, call, spoken, texts>>
    BY <1>4 DEF ToolsReturn, ToolsRaise, turns, handler, messages, content
  <2>2. TypeOK'  BY <2>1 DEF Inv, TypeOK, NodeEvents
  <2>3. PhaseOK' /\ CallsOK'  BY <2>1 DEF Inv, PhaseOK, CallsOK
  <2>q. QED BY <2>2, <2>3 DEF Inv
<1>q. QED BY <1>1, <1>2, <1>3, <1>4 DEF GraphStep

LEMMA ToolInv ==
    ASSUME Inv, NEW c \in Call, ToolStep(c)  PROVE Inv'
<1>1. /\ call[c] \in {"working"} \cup Reporting
      /\ \E state \in Reporting \cup {"working", "returned", "refused", "raised"} :
            call' = [call EXCEPT ![c] = state]
      /\ prepared' \subseteq Call
      /\ UNCHANGED <<turn, phase, held, awaiting, workspace, graph, round, spoken, texts>>
  BY DEF ToolStep, ToolWorks, ToolCallback, Reporting, CallEvents, turns, handler, messages,
         content, Inv, TypeOK
<1>2. TypeOK'  BY <1>1 DEF Inv, TypeOK, Answered
<1>3. PhaseOK'  BY <1>1 DEF Inv, PhaseOK
<1>4. CallsOK'  BY <1>1 DEF Inv, TypeOK, CallsOK, Quiet, Reporting, CallEvents, Answered
<1>q. QED BY <1>2, <1>3, <1>4 DEF Inv

LEMMA HostInv ==
    ASSUME Inv, HangUp \/ NextTurn  PROVE Inv'
<1>1. CASE HangUp
  <2>1. /\ phase' = "gone" /\ held' = <<>> /\ awaiting' = FALSE /\ workspace' = FALSE
        /\ UNCHANGED <<turn, graph, round, prepared, call, spoken, texts>>
    BY <1>1 DEF HangUp, Aside, turns, messages, content
  <2>h. Len(held') <= 1  BY <2>1, ShortSequences
  <2>2. TypeOK'  BY <2>1, <2>h DEF Inv, TypeOK, Phase
  <2>3. PhaseOK' /\ CallsOK'  BY <2>1 DEF Inv, PhaseOK, CallsOK, Opened, Early, Late
  <2>q. QED BY <2>2, <2>3 DEF Inv
<1>2. CASE NextTurn
  <2>1. /\ turn < MaxTurns /\ turn' = turn + 1
        /\ call' = [c \in Call |-> IF call[c] = "unused" THEN "unused" ELSE "spent"]
        /\ phase' = "upload" /\ held' = <<>> /\ awaiting' = FALSE
        /\ workspace' = FALSE /\ graph' = "none" /\ round' = {}
        /\ spoken' = 0 /\ texts' = 0 /\ UNCHANGED prepared
    BY <1>2 DEF NextTurn, FreshQueues
  <2>2. turn' \in 1 .. MaxTurns  BY <2>1, ChatAssumption DEF Inv, TypeOK
  <2>3. MaxTexts[turn'] \in Nat  BY <2>2, ChatAssumption
  <2>h. Len(held') <= 1  BY <2>1, ShortSequences
  <2>4. TypeOK'
    <3>1. spoken' \in 0 .. MaxTexts[turn'] /\ texts' \in 0 .. spoken'  BY <2>1, <2>3
    <3>2. /\ phase' \in Phase /\ awaiting' \in BOOLEAN /\ workspace' \in BOOLEAN
          /\ graph' \in NodeEvents \cup {"none", "model", "tools", "ended", "failed"}
          /\ round' \subseteq Call /\ prepared' \subseteq Call
      BY <2>1 DEF Phase, Inv, TypeOK
    <3>3. call' \in [Call -> Reporting \cup Answered \cup {"unused", "working", "raised", "spent"}]
      BY <2>1
    <3>q. QED BY <2>2, <2>h, <3>1, <3>2, <3>3 DEF TypeOK
  <2>5. PhaseOK' /\ CallsOK'  BY <2>1 DEF PhaseOK, CallsOK, Opened, Early, Late, Quiet
  <2>q. QED BY <2>4, <2>5 DEF Inv
<1>q. QED BY <1>1, <1>2

LEMMA StepInv == Inv /\ [Next]_vars => Inv'
<1> SUFFICES ASSUME Inv, [Next]_vars PROVE Inv'  OBVIOUS
<1>1. CASE UNCHANGED vars
  BY <1>1 DEF vars, turns, handler, messages, content, Inv, TypeOK, PhaseOK, CallsOK
<1>q. QED BY <1>1, HandlerInv, GraphInv, ToolInv, HostInv DEF Next

-----------------------------------------------------------------------------
(* The theorems.                                                           *)

\* The inductive invariant: where the handler is tells how far the graph can be,
\* and where the graph is tells which calls may be at work.
THEOREM StreamInvariant == Spec => []Inv
  BY InitInv, StepInv, PTL DEF Spec

\* The types, for any number of calls, turns and pieces of text.
THEOREM StreamTypes == Spec => []TypeOK
<1>1. Inv => TypeOK  BY DEF Inv
<1>q. QED BY <1>1, StreamInvariant, PTL

\* Unless a tool raised or the host hung up, no tool is at work once the
\* workspace it reads is destroyed.
THEOREM WorkspaceOutlivesTools == Spec => []ToolsHaveWorkspace
<1>1. Inv => ToolsHaveWorkspace
  BY DEF Inv, TypeOK, PhaseOK, CallsOK, ToolsHaveWorkspace, Phase, Opened, Early, Late, Quiet
<1>q. QED BY <1>1, StreamInvariant, PTL

-----------------------------------------------------------------------------
(* Sequences that are filtered.                                             *)

\* What is kept of a sequence are its elements at those places, in their order.
LEMMA KeptInOrder ==
    ASSUME NEW M, NEW msgs \in Seq(M), NEW places \in SUBSET (1 .. Len(msgs))
    PROVE  /\ Kept(msgs, places) \in Seq(M)
           /\ \E at \in [1 .. Len(Kept(msgs, places)) -> places] :
                 /\ \A i \in 1 .. Len(Kept(msgs, places)) : Kept(msgs, places)[i] = msgs[at[i]]
                 /\ \A p \in places : \E i \in 1 .. Len(Kept(msgs, places)) : at[i] = p
                 /\ \A i, j \in 1 .. Len(Kept(msgs, places)) : i < j => at[i] < at[j]
<1> DEFINE n == Len(msgs)
           step == [k \in 1 .. n |-> [s \in Seq(M) |->
                       IF k \in places THEN Append(s, msgs[k]) ELSE s]]
           IsKept(f) == f = [k \in 0 .. n |->
                       IF k = 0 THEN <<>>
                       ELSE IF k \in places THEN Append(f[k - 1], msgs[k]) ELSE f[k - 1]]
           kept == CHOOSE f : IsKept(f)
<1>0. n \in Nat /\ \A k \in 1 .. n : msgs[k] \in M  BY Elements, ElementOfSeq
<1>1. step \in [1 .. n -> [Seq(M) -> Seq(M)]]
  <2>1. ASSUME NEW k \in 1 .. n, NEW s \in Seq(M) PROVE Append(s, msgs[k]) \in Seq(M)
    BY <1>0, AppendedTo
  <2>q. QED BY <2>1
<1>2. \E f \in [0 .. n -> Seq(M)] : IsKept(f)
  <2>1. <<>> \in Seq(M)  BY Tuple0
  <2>0. Steps(step, n, Seq(M))  BY <1>1 DEF Steps
  <2>i. PICK f : Iterated(f, n, Seq(M), <<>>, step)
    <3> HIDE DEF step, n
    <3>q. QED BY <1>0, <2>0, <2>1, Iterates
  <2>2. /\ f \in [0 .. n -> Seq(M)] /\ f[0] = <<>>
        /\ \A k \in 1 .. n : f[k] = step[k][f[k - 1]]
    <3> HIDE DEF step, n
    <3>q. QED BY <2>i DEF Iterated
  <2>3. ASSUME NEW k \in 0 .. n
        PROVE  f[k] = IF k = 0 THEN <<>>
                      ELSE IF k \in places THEN Append(f[k - 1], msgs[k]) ELSE f[k - 1]
    <3>1. CASE k = 0
      <4> HIDE DEF step
      <4>q. QED BY <2>2, <3>1
    <3>2. CASE k # 0
      <4>1. k \in 1 .. n /\ k - 1 \in 0 .. n  BY <1>0, <3>2
      <4>2. f[k] = step[k][f[k - 1]]
        <5> HIDE DEF step
        <5>q. QED BY <2>2, <4>1
      <4>3. f[k - 1] \in Seq(M)  BY <2>2, <4>1
      <4>q. QED BY <3>2, <4>1, <4>2, <4>3
    <3>q. QED BY <3>1, <3>2
  <2>4. IsKept(f)
    <3>1. f = [k \in 0 .. n |-> f[k]]  BY <2>2
    <3>q. QED BY <2>3, <3>1
  <2>q. QED BY <2>2, <2>4
<1>3. IsKept(kept)  BY <1>2
<1>4. /\ kept[0] = <<>>
      /\ \A k \in 1 .. n : kept[k] = IF k \in places THEN Append(kept[k - 1], msgs[k])
                                     ELSE kept[k - 1]
  <2> HIDE DEF kept
  <2>1. kept[0] = <<>>  BY <1>0, <1>3
  <2>2. ASSUME NEW k \in 1 .. n
        PROVE  kept[k] = IF k \in places THEN Append(kept[k - 1], msgs[k]) ELSE kept[k - 1]
    <3>1. k \in 0 .. n /\ k # 0  OBVIOUS
    <3>q. QED BY <1>3, <3>1
  <2>q. QED BY <2>1, <2>2
<1>5. Kept(msgs, places) = kept[n]  BY DEF Kept
<1> DEFINE InOrderAt(k, at) ==
              /\ \A i \in 1 .. Len(kept[k]) : kept[k][i] = msgs[at[i]]
              /\ \A p \in places : p <= k => \E i \in 1 .. Len(kept[k]) : at[i] = p
              /\ \A i \in 1 .. Len(kept[k]) : at[i] <= k
              /\ \A i, j \in 1 .. Len(kept[k]) : i < j => at[i] < at[j]
           Done(k) == /\ kept[k] \in Seq(M)
                      /\ \E at \in [1 .. Len(kept[k]) -> places] : InOrderAt(k, at)
           T == {k \in 0 .. n : Done(k)}
<1> HIDE DEF kept, step, IsKept
<1>6. 0 \in T
  <2>1. kept[0] \in Seq(M) /\ Len(kept[0]) = 0  BY <1>4, Tuple0
  <2> DEFINE at == [i \in 1 .. 0 |-> CHOOSE p \in places : TRUE]
  <2>2. at \in [1 .. 0 -> places]  OBVIOUS
  <2>3. 1 .. Len(kept[0]) = {} /\ 1 .. 0 = {}  BY <2>1
  <2>4. \A p \in places : ~(p <= 0)  OBVIOUS
  <2> HIDE DEF at
  <2>5. InOrderAt(0, at)  BY <2>3, <2>4
  <2>6. Done(0)  BY <2>1, <2>2, <2>5
  <2>q. QED BY <1>0, <2>6
<1>7. ASSUME NEW k \in 0 .. n - 1, k \in T PROVE k + 1 \in T
  <2>1. k + 1 \in 1 .. n /\ k + 1 \in 0 .. n /\ k + 1 - 1 = k  BY <1>0
  <2>2. kept[k] \in Seq(M)  BY <1>7
  <2>3. PICK at \in [1 .. Len(kept[k]) -> places] : InOrderAt(k, at)  BY <1>7
  <2>6. \A i \in 1 .. Len(kept[k]) : at[i] \in Nat /\ at[i] <= k /\ at[i] <= k + 1
    <3>0. \A p \in places : p \in Nat  OBVIOUS
    <3>1. \A i \in 1 .. Len(kept[k]) : at[i] \in Nat  BY <3>0
    <3>q. QED BY <2>3, <3>1
  <2>7. kept[k + 1] = IF k + 1 \in places THEN Append(kept[k], msgs[k + 1]) ELSE kept[k]
    BY <1>4, <2>1
  <2>4. CASE k + 1 \notin places
    <3>1. kept[k + 1] = kept[k]  BY <2>4, <2>7
    <3>2. \A p \in places : p <= k + 1 => p <= k  BY <2>4
    <3>3. InOrderAt(k + 1, at)  BY <2>3, <2>6, <3>1, <3>2
    <3>4. Done(k + 1)  BY <2>2, <3>1, <3>3
    <3>q. QED BY <2>1, <3>4
  <2>5. CASE k + 1 \in places
    <3> DEFINE m == Len(kept[k])
               new == [i \in 1 .. m + 1 |-> IF i = m + 1 THEN k + 1 ELSE at[i]]
    <3>1. kept[k + 1] = Append(kept[k], msgs[k + 1])  BY <2>5, <2>7
    <3>2. /\ kept[k + 1] \in Seq(M) /\ Len(kept[k + 1]) = m + 1
          /\ \A i \in 1 .. m : kept[k + 1][i] = kept[k][i]
          /\ kept[k + 1][m + 1] = msgs[k + 1] /\ m \in Nat
      BY <1>0, <2>1, <2>2, <3>1, AppendedTo, Elements
    <3> HIDE DEF m
    <3>3. \A i \in 1 .. m + 1 : i = m + 1 \/ i \in 1 .. m  BY <3>2
    <3>4. at \in [1 .. m -> places]  BY DEF m
    <3>5. new \in [1 .. m + 1 -> places]  BY <2>5, <3>3, <3>4
    <3>6. /\ new[m + 1] = k + 1 /\ \A i \in 1 .. m : new[i] = at[i]
          /\ m + 1 \in 1 .. m + 1 /\ \A i \in 1 .. m : i \in 1 .. m + 1
      BY <3>2
    <3> HIDE DEF new
    <3>7. \A i \in 1 .. m + 1 : kept[k + 1][i] = msgs[new[i]]
      BY <2>3, <3>2, <3>3, <3>6 DEF m
    <3>8. \A p \in places : p <= k + 1 => \E i \in 1 .. m + 1 : new[i] = p
      <4> SUFFICES ASSUME NEW p \in places, p <= k + 1
                   PROVE  \E i \in 1 .. m + 1 : new[i] = p
        OBVIOUS
      <4>1. CASE p = k + 1  BY <3>6, <4>1
      <4>2. CASE p # k + 1
        <5>1. p <= k  BY <4>2
        <5>2. PICK i \in 1 .. m : at[i] = p  BY <2>3, <5>1 DEF m
        <5>q. QED BY <3>6, <5>2
      <4>q. QED BY <4>1, <4>2
    <3>a. \A i \in 1 .. m : at[i] <= k /\ at[i] \in Nat  BY <2>3, <2>6 DEF m
    <3>9. \A i \in 1 .. m + 1 : new[i] <= k + 1  BY <3>a, <3>3, <3>6
    <3>10. \A i, j \in 1 .. m + 1 : i < j => new[i] < new[j]
      <4> SUFFICES ASSUME NEW i \in 1 .. m + 1, NEW j \in 1 .. m + 1, i < j
                   PROVE  new[i] < new[j]
        OBVIOUS
      <4>1. i \in 1 .. m  BY <3>2
      <4>2. new[i] = at[i] /\ at[i] <= k /\ at[i] \in Nat  BY <3>6, <3>a, <4>1
      <4>3. CASE j = m + 1  BY <3>6, <4>2, <4>3
      <4>4. CASE j # m + 1
        <5>1. j \in 1 .. m  BY <3>3, <4>4
        <5>q. QED BY <2>3, <3>6, <4>1, <5>1 DEF m
      <4>q. QED BY <4>3, <4>4
    <3>11. InOrderAt(k + 1, new)  BY <3>2, <3>7, <3>8, <3>9, <3>10
    <3>12. Done(k + 1)
      <4>1. new \in [1 .. Len(kept[k + 1]) -> places]  BY <3>2, <3>5
      <4> HIDE DEF InOrderAt
      <4>q. QED BY <3>2, <3>11, <4>1
    <3>q. QED BY <2>1, <3>12
  <2>q. QED BY <2>4, <2>5
<1>8. n \in T
  <2>1. 0 .. n \subseteq T
    <3> HIDE DEF T, n
    <3>q. QED BY <1>0, <1>6, <1>7, Induction
  <2>q. QED BY <1>0, <2>1
<1>9. Done(n)  BY <1>8
<1>10. \A p \in places : p <= n  OBVIOUS
<1> HIDE DEF n
<1>q. QED BY <1>5, <1>9, <1>10

-----------------------------------------------------------------------------
(* What is sent, and what is said.                                         *)

About == Call \cup 1 .. MaxTurns
Plain == [role : {"user", "assistant"}, about : About]
Said  == [role : {"user", "assistant", "tool"}, about : About]

\* What the handler reports itself.
Reports ==
    {"run.started", "run.failed", "run.completed", "run.awaiting_input",
     "sync.started", "sync.completed", "sync.failed",
     "preflight.started", "preflight.completed", "preflight.failed",
     "prepare.started", "execution.started", "execution.failed", "execution.completed",
     "loop.completed", "tools.completed", "awaiting_approval"}

Queued ==
    [kind : {"activity"}, by : Call, what : CallEvents]
    \cup [kind : {"activity"}, by : {Graph}, what : NodeEvents]
Chunk ==
    Queued
    \cup [kind : {"activity"}, by : {Main}, what : Reports]
    \cup [kind : {"state"}, name : {"syncing", "validating", "working", "failed"}]
    \cup [kind : {"text"}]
    \cup [kind : {"content"}, asks : BOOLEAN] \cup [kind : {"approval"}, about : Call]
    \cup [kind : {"history"}, messages : Seq(Plain)]
    \cup [kind : {"fatal"}, code : {"SETUP_REQUIRED", "INTERNAL_ERROR", "REPO_UNREACHABLE"}] \cup [kind : {"done"}]

LEMMA Chunks ==
    /\ Queued \subseteq Chunk
    /\ Text \in Chunk /\ Finis \in Chunk
    /\ \A asks \in BOOLEAN : Content(asks) \in Chunk
    /\ \A c \in Call : Approval(c) \in Chunk
    /\ \A msgs \in Seq(Plain) : History(msgs) \in Chunk
  BY DEF Text, Finis, Content, Approval, History, Chunk

LEMMA HistoryChunk ==
    ASSUME NEW chunk \in Chunk, chunk.kind = "history"
    PROVE  chunk.messages \in Seq(Plain)
  BY DEF Chunk, Queued

Typed ==
    /\ wire \in Seq(Chunk) /\ script \in Seq(Chunk) /\ held \in Seq(Chunk)
    /\ queue \in Seq(Queued)
    /\ prior \in Seq(Plain) /\ said \in Seq(Said)

\* The event that closes a run.
Ends(chunk) ==
    Says(chunk, Main, "run.completed") \/ Says(chunk, Main, "run.awaiting_input")

IsHistory(chunk)  == chunk.kind = "history"
IsApproval(chunk) == chunk.kind = "approval"
Asking(chunk)     == chunk.kind = "content" /\ chunk.asks

Running == {"upload", "open", "preflight", "launch", "poll", "texts", "events",
            "await", "lastTexts", "lastEvents", "failedEvents"}

\* What a script may hold in a phase: only the closing script asks anything, only
\* the finishing one ends the run, and a history comes last.
Fits(p, then) ==
    /\ \A chunk \in Range(then) :
          /\ chunk.kind \notin {"text", "done"}
          /\ IsEvent(chunk) => chunk.by = Main
          /\ IsHistory(chunk) => p \notin Running
          /\ RequiresInput(chunk) => p = "closing"
          /\ Ends(chunk) => p = "finishing"
    /\ \A i \in 1 .. Len(then) - 1 : ~IsHistory(then[i])

\* The chunks that every script but the closing and the finishing is made of.
Ordinary(chunk) ==
    /\ chunk \in Chunk
    /\ chunk.kind \notin {"text", "done", "history"}
    /\ IsEvent(chunk) => chunk.by = Main
    /\ ~RequiresInput(chunk) /\ ~Ends(chunk)

LEMMA Ordinaries ==
    /\ Ordinary(Activity("run.failed")) /\ Ordinary(Activity("run.started"))
    /\ Ordinary(Activity("sync.started")) /\ Ordinary(Activity("sync.completed"))
    /\ Ordinary(Activity("sync.failed")) /\ Ordinary(Activity("preflight.started"))
    /\ Ordinary(Activity("preflight.completed")) /\ Ordinary(Activity("preflight.failed"))
    /\ Ordinary(Activity("prepare.started")) /\ Ordinary(Activity("execution.started"))
    /\ Ordinary(Activity("execution.failed")) /\ Ordinary(Activity("execution.completed"))
    /\ Ordinary(Activity("loop.completed")) /\ Ordinary(Activity("tools.completed"))
    /\ Ordinary(Activity("awaiting_approval"))
    /\ Ordinary(State("syncing")) /\ Ordinary(State("validating"))
    /\ Ordinary(State("working")) /\ Ordinary(State("failed"))
    /\ Ordinary(Fatal("SETUP_REQUIRED")) /\ Ordinary(Fatal("INTERNAL_ERROR"))
    /\ Ordinary(Fatal("REPO_UNREACHABLE"))
    /\ Ordinary(Content(FALSE))
<1>a1. Ordinary(Activity("run.failed")) /\ Ordinary(Activity("run.started"))
       /\ Ordinary(Activity("sync.started"))
  BY DEF Ordinary, Chunk, Activity, Event, Reports, IsEvent, RequiresInput, Ends, Says
<1>a2. Ordinary(Activity("sync.completed")) /\ Ordinary(Activity("sync.failed"))
       /\ Ordinary(Activity("preflight.started"))
  BY DEF Ordinary, Chunk, Activity, Event, Reports, IsEvent, RequiresInput, Ends, Says
<1>a3. Ordinary(Activity("preflight.completed")) /\ Ordinary(Activity("preflight.failed"))
       /\ Ordinary(Activity("prepare.started"))
  BY DEF Ordinary, Chunk, Activity, Event, Reports, IsEvent, RequiresInput, Ends, Says
<1>a4. Ordinary(Activity("execution.started")) /\ Ordinary(Activity("execution.failed"))
       /\ Ordinary(Activity("execution.completed"))
  BY DEF Ordinary, Chunk, Activity, Event, Reports, IsEvent, RequiresInput, Ends, Says
<1>a5. Ordinary(Activity("loop.completed")) /\ Ordinary(Activity("tools.completed"))
       /\ Ordinary(Activity("awaiting_approval"))
  BY DEF Ordinary, Chunk, Activity, Event, Reports, IsEvent, RequiresInput, Ends, Says
<1>2. /\ Ordinary(State("syncing")) /\ Ordinary(State("validating"))
      /\ Ordinary(State("working")) /\ Ordinary(State("failed"))
  BY DEF Ordinary, Chunk, State, IsEvent, RequiresInput, Ends, Says
<1>3. /\ Ordinary(Fatal("SETUP_REQUIRED")) /\ Ordinary(Fatal("INTERNAL_ERROR"))
      /\ Ordinary(Fatal("REPO_UNREACHABLE"))
  BY DEF Ordinary, Chunk, Fatal, IsEvent, RequiresInput, Ends, Says
<1>4. Ordinary(Content(FALSE))
  BY DEF Ordinary, Chunk, Content, IsEvent, RequiresInput, Ends, Says
<1>q. QED BY <1>a1, <1>a2, <1>a3, <1>a4, <1>a5, <1>2, <1>3, <1>4

\* A script of ordinary chunks fits everywhere, and one that a history follows
\* fits once the turn closes.
LEMMA OrdinaryFits ==
    ASSUME NEW p, NEW then \in Seq(Chunk), \A chunk \in Range(then) : Ordinary(chunk)
    PROVE  Fits(p, then)
<1>1. \A i \in 1 .. Len(then) - 1 : ~IsHistory(then[i])
  <2> SUFFICES ASSUME NEW i \in 1 .. Len(then) - 1 PROVE ~IsHistory(then[i])  OBVIOUS
  <2>1. Len(then) \in Nat /\ Range(then) = {then[k] : k \in 1 .. Len(then)}  BY Elements
  <2>2. i \in 1 .. Len(then)  BY <2>1
  <2>3. Ordinary(then[i])  BY <2>1, <2>2
  <2>q. QED BY <2>3 DEF Ordinary, IsHistory
<1>q. QED BY <1>1 DEF Fits, Ordinary, IsHistory

LEMMA HistoryFits ==
    ASSUME NEW p, p \notin Running, NEW then \in Seq(Chunk), then # <<>>,
           \A i \in 1 .. Len(then) - 1 : Ordinary(then[i]), IsHistory(then[Len(then)])
    PROVE  Fits(p, then)
<1> DEFINE last == then[Len(then)]
<1>1. /\ Len(then) \in Nat \ {0} /\ Range(then) = {then[i] : i \in 1 .. Len(then)}
  BY Elements, EmptySeq
<1>2. ASSUME NEW i \in 1 .. Len(then) - 1 PROVE ~IsHistory(then[i])
  BY DEF Ordinary, IsHistory
<1>3. /\ last.kind = "history" /\ ~IsEvent(last) /\ ~RequiresInput(last) /\ ~Ends(last)
  BY DEF IsHistory, IsEvent, RequiresInput, Ends, Says
<1> SUFFICES ASSUME NEW chunk \in Range(then)
             PROVE  /\ chunk.kind \notin {"text", "done"}
                    /\ IsEvent(chunk) => chunk.by = Main
                    /\ IsHistory(chunk) => p \notin Running
                    /\ RequiresInput(chunk) => p = "closing"
                    /\ Ends(chunk) => p = "finishing"
  BY <1>2 DEF Fits
<1>4. CASE chunk = last  BY <1>3, <1>4
<1>5. CASE chunk # last
  <2>1. PICK i \in 1 .. Len(then) : chunk = then[i]  BY <1>1
  <2>2. i \in 1 .. Len(then) - 1  BY <1>1, <1>5, <2>1
  <2>3. Ordinary(chunk)  BY <2>1, <2>2
  <2>q. QED BY <2>3 DEF Ordinary, IsHistory
<1>q. QED BY <1>4, <1>5

-----------------------------------------------------------------------------
(* The scripts.                                                            *)

LEMMA HistoryIs ==
    ASSUME NEW msgs \in Seq(Plain)
    PROVE  /\ History(msgs) \in Chunk /\ IsHistory(History(msgs))
           /\ History(msgs).messages = msgs
           /\ ~RequiresInput(History(msgs)) /\ ~IsApproval(History(msgs))
           /\ ~Asking(History(msgs)) /\ ~IsEvent(History(msgs)) /\ ~Ends(History(msgs))
<1>1. History(msgs) \in Chunk  BY Chunks
<1>2. History(msgs).kind = "history" /\ History(msgs).messages = msgs  BY DEF History
<1>q. QED BY <1>1, <1>2 DEF IsHistory, RequiresInput, IsApproval, Asking, IsEvent, Ends, Says

LEMMA Excused ==
    ASSUME prior \in Seq(Plain), NEW reason \in {"setup", "busy", "git", "other"}
    PROVE  /\ Excuses(reason) \in Seq(Chunk) /\ Fits("ending", Excuses(reason))
           /\ \A chunk \in Range(Excuses(reason)) : IsHistory(chunk) => chunk.messages = prior
<1> DEFINE Fine(seq) == /\ seq \in Seq(Chunk) /\ Fits("ending", seq)
                        /\ \A chunk \in Range(seq) : IsHistory(chunk) => chunk.messages = prior
<1>1. ASSUME NEW a, NEW b, NEW c, Ordinary(a), Ordinary(b), Ordinary(c)
      PROVE  Fine(<<a, b, c>>)
  <2>1. a \in Chunk /\ b \in Chunk /\ c \in Chunk  BY <1>1 DEF Ordinary
  <2>2. <<a, b, c>> \in Seq(Chunk) /\ Range(<<a, b, c>>) = {a, b, c}  BY <2>1, Tuple3
  <2>3. Fits("ending", <<a, b, c>>)  BY <1>1, <2>2, OrdinaryFits
  <2>q. QED BY <1>1, <2>2, <2>3 DEF Ordinary, IsHistory
<1>2. ASSUME NEW a, NEW b, NEW c, Ordinary(a), Ordinary(b), Ordinary(c)
      PROVE  Fine(<<a, b, c, History(prior)>>)
  <2> DEFINE h == History(prior)
  <2>1. /\ a \in Chunk /\ b \in Chunk /\ c \in Chunk /\ h \in Chunk
        /\ h.messages = prior /\ IsHistory(h)
    BY <1>2, HistoryIs DEF Ordinary
  <2> DEFINE seq == <<a, b, c, h>>
  <2> HIDE DEF h
  <2>2. /\ seq \in Seq(Chunk) /\ Range(seq) = {a, b, c, h} /\ Len(seq) = 4
        /\ seq[1] = a /\ seq[2] = b /\ seq[3] = c /\ seq[4] = h
    BY <2>1, Tuple4
  <2>3. "ending" \notin Running  BY DEF Running
  <2> HIDE DEF seq
  <2>4. seq # <<>>  BY <2>2, Tuple0
  <2>5. \A i \in 1 .. Len(seq) - 1 : Ordinary(seq[i])
    <3>1. \A i \in 1 .. Len(seq) - 1 : i = 1 \/ i = 2 \/ i = 3  BY <2>2
    <3>q. QED BY <1>2, <2>2, <3>1
  <2>6. Fits("ending", seq)  BY <2>1, <2>2, <2>3, <2>4, <2>5, HistoryFits
  <2>q. QED BY <1>2, <2>1, <2>2, <2>6 DEF Ordinary, IsHistory, h, seq
<1>3. /\ Ordinary(Activity("preflight.failed")) /\ Ordinary(Activity("run.failed"))
      /\ Ordinary(Activity("sync.failed")) /\ Ordinary(State("failed"))
      /\ Ordinary(Fatal("SETUP_REQUIRED")) /\ Ordinary(Fatal("INTERNAL_ERROR"))
      /\ Ordinary(Fatal("REPO_UNREACHABLE"))
  BY Ordinaries
<1> HIDE DEF Fine
<1>4. CASE reason = "setup"  BY <1>1, <1>3, <1>4 DEF Excuses, Fine
<1>5. CASE reason = "busy"   BY <1>1, <1>3, <1>5 DEF Excuses, Fine
<1>6. CASE reason = "git"    BY <1>1, <1>3, <1>6 DEF Excuses, Fine
<1>7. CASE reason = "other"  BY <1>2, <1>3, <1>7 DEF Excuses, Fine
<1>q. QED BY <1>4, <1>5, <1>6, <1>7

LEMMA Apologised ==
    ASSUME prior \in Seq(Plain)
    PROVE  LET seq == <<Activity("execution.failed"), Content(FALSE), History(prior)>>
           IN  /\ seq \in Seq(Chunk) /\ Fits("closing", seq)
               /\ Len(seq) = 3 /\ seq[3] = History(prior)
               /\ \A chunk \in Range(seq) :
                     /\ IsHistory(chunk) => chunk.messages = prior
                     /\ ~IsApproval(chunk) /\ ~Asking(chunk)
<1> DEFINE a == Activity("execution.failed")
           b == Content(FALSE)
           h == History(prior)
<1>1. Ordinary(a) /\ Ordinary(b)  BY Ordinaries
<1>2. /\ h \in Chunk /\ IsHistory(h) /\ h.messages = prior
      /\ ~IsApproval(h) /\ ~Asking(h)
  BY HistoryIs
<1> HIDE DEF a, b, h
<1>3. a \in Chunk /\ b \in Chunk  BY <1>1 DEF Ordinary
<1> DEFINE s == <<a, b, h>>
<1>4. /\ s \in Seq(Chunk) /\ Range(s) = {a, b, h} /\ Len(s) = 3
      /\ s[1] = a /\ s[2] = b /\ s[3] = h
  BY <1>2, <1>3, Tuple3
<1> HIDE DEF s
<1>5. s # <<>> /\ "closing" \notin Running  BY <1>4, Tuple0 DEF Running
<1>6. \A i \in 1 .. Len(s) - 1 : Ordinary(s[i])
  <2>1. \A i \in 1 .. Len(s) - 1 : i = 1 \/ i = 2  BY <1>4
  <2>q. QED BY <1>1, <1>4, <2>1
<1>7. Fits("closing", s)  BY <1>2, <1>4, <1>5, <1>6, HistoryFits
<1>9. ASSUME NEW chunk \in {a, b, h}
      PROVE  /\ IsHistory(chunk) => chunk.messages = prior
             /\ ~IsApproval(chunk) /\ ~Asking(chunk)
  BY <1>1, <1>2, <1>9 DEF Ordinary, IsHistory, IsApproval, Asking, RequiresInput
<1>10. LET seq == s
       IN  /\ seq \in Seq(Chunk) /\ Fits("closing", seq)
           /\ Len(seq) = 3 /\ seq[3] = h
           /\ \A chunk \in Range(seq) :
                 /\ IsHistory(chunk) => chunk.messages = prior
                 /\ ~IsApproval(chunk) /\ ~Asking(chunk)
  BY <1>4, <1>7, <1>9
<1>q. QED BY <1>10 DEF s, a, b, h

\* A message as the host gets it back is the user's or the assistant's.
LEMMA Serialized ==
    ASSUME NEW msgs \in Seq(Said)
    PROVE  Serialize(msgs) \in Seq(Plain)
<1>1. Len(msgs) \in Nat /\ DOMAIN msgs = 1 .. Len(msgs)  BY Elements
<1>2. ASSUME NEW i \in 1 .. Len(msgs)
      PROVE  (IF msgs[i].role = "tool" THEN Message("user", msgs[i].about) ELSE msgs[i]) \in Plain
  <2>1. msgs[i] \in Said  BY ElementOfSeq
  <2>q. QED BY <2>1 DEF Said, Plain, Message
<1> DEFINE F(i) == IF msgs[i].role = "tool" THEN Message("user", msgs[i].about) ELSE msgs[i]
<1>3. Serialize(msgs) = [i \in 1 .. Len(msgs) |-> F(i)]  BY <1>1 DEF Serialize
<1>4. \A i \in 1 .. Len(msgs) : F(i) \in Plain  BY <1>2
<1> HIDE DEF F
<1>5. [i \in 1 .. Len(msgs) |-> F(i)] \in Seq(Plain)  BY <1>1, <1>4
<1>q. QED BY <1>3, <1>5

\* Messages of which a tool's are about calls, each once.
Telling(msgs) ==
    \A i \in 1 .. Len(msgs) : msgs[i].role = "tool" =>
        /\ msgs[i].about \in Call
        /\ \A j \in 1 .. Len(msgs) :
              msgs[j].role = "tool" /\ msgs[i].about = msgs[j].about => i = j

\* The pending actions are the tools' messages whose calls were prepared, each
\* once.
LEMMA Pending ==
    ASSUME NEW msgs \in Seq(Said), Telling(msgs)
    PROVE  LET P == PendingActions(msgs)
           IN  /\ P \in Seq(Said)
               /\ \A k \in 1 .. Len(P) :
                     P[k].about \in Call
                     /\ \E i \in 1 .. Len(msgs) : IsPending(msgs[i]) /\ msgs[i].about = P[k].about
               /\ \A i \in 1 .. Len(msgs) : IsPending(msgs[i]) =>
                     \E k \in 1 .. Len(P) : P[k].about = msgs[i].about
               /\ \A k, l \in 1 .. Len(P) : P[k].about = P[l].about => k = l
<1> DEFINE places == {i \in DOMAIN msgs : IsPending(msgs[i])}
           P == Kept(msgs, places)
<1>1. DOMAIN msgs = 1 .. Len(msgs) /\ Len(msgs) \in Nat  BY Elements
<1>2. places \in SUBSET (1 .. Len(msgs))  BY <1>1
<1>3. \A i \in 1 .. Len(msgs) : i \in places <=> IsPending(msgs[i])  BY <1>1
<1> HIDE DEF places
<1>4. /\ P \in Seq(Said)
      /\ \E at \in [1 .. Len(P) -> places] :
            /\ \A i \in 1 .. Len(P) : P[i] = msgs[at[i]]
            /\ \A p \in places : \E i \in 1 .. Len(P) : at[i] = p
            /\ \A i, j \in 1 .. Len(P) : i < j => at[i] < at[j]
  BY <1>2, KeptInOrder
<1> HIDE DEF P
<1>5. PICK at \in [1 .. Len(P) -> places] :
         /\ \A i \in 1 .. Len(P) : P[i] = msgs[at[i]]
         /\ \A p \in places : \E i \in 1 .. Len(P) : at[i] = p
         /\ \A i, j \in 1 .. Len(P) : i < j => at[i] < at[j]
  BY <1>4
<1>6. Len(P) \in Nat  BY <1>4, Elements
<1>7. ASSUME NEW k \in 1 .. Len(P)
      PROVE  /\ at[k] \in 1 .. Len(msgs) /\ IsPending(msgs[at[k]]) /\ P[k] = msgs[at[k]]
             /\ msgs[at[k]].role = "tool" /\ msgs[at[k]].about \in Call
  <2>1. at[k] \in places  OBVIOUS
  <2>2. at[k] \in 1 .. Len(msgs) /\ IsPending(msgs[at[k]])  BY <1>2, <1>3, <2>1
  <2>3. msgs[at[k]].role = "tool"  BY <2>2 DEF IsPending
  <2>q. QED BY <1>5, <2>2, <2>3 DEF Telling
<1>8. ASSUME NEW k \in 1 .. Len(P), NEW l \in 1 .. Len(P), P[k].about = P[l].about
      PROVE  k = l
  <2>1. at[k] = at[l]  BY <1>7, <1>8 DEF Telling
  <2>2. ~(k < l)  BY <1>2, <1>5, <1>7, <2>1
  <2>3. ~(l < k)  BY <1>2, <1>5, <1>7, <2>1
  <2>q. QED BY <1>6, <2>2, <2>3
<1>9. ASSUME NEW i \in 1 .. Len(msgs), IsPending(msgs[i])
      PROVE  \E k \in 1 .. Len(P) : P[k].about = msgs[i].about
  BY <1>3, <1>5, <1>9
<1>10. PendingActions(msgs) = P  BY DEF PendingActions, P, places
<1>11. \A k \in 1 .. Len(P) :
          P[k].about \in Call
          /\ \E i \in 1 .. Len(msgs) : IsPending(msgs[i]) /\ msgs[i].about = P[k].about
  BY <1>7
<1>q. QED BY <1>4, <1>8, <1>9, <1>10, <1>11

\* The closing script asks for each pending action once, says so in its content,
\* and ends with the history.
LEMMA ClosingScript ==
    ASSUME NEW msgs \in Seq(Said), Telling(msgs)
    PROVE  LET s == Closing(msgs)
           IN  /\ s \in Seq(Chunk) /\ Fits("closing", s)
               /\ s # <<>> /\ IsHistory(s[Len(s)])
               /\ \A chunk \in Range(s) : IsHistory(chunk) => chunk.messages = Serialize(msgs)
               /\ (\E chunk \in Range(s) : IsApproval(chunk)) <=> (\E chunk \in Range(s) : Asking(chunk))
               /\ \A chunk \in Range(s) : IsApproval(chunk) =>
                     \E i \in 1 .. Len(msgs) : IsPending(msgs[i]) /\ msgs[i].about = chunk.about
               /\ \A i \in 1 .. Len(msgs) : IsPending(msgs[i]) =>
                     \E chunk \in Range(s) : IsApproval(chunk) /\ chunk.about = msgs[i].about
               /\ \A i, j \in 1 .. Len(s) :
                     IsApproval(s[i]) /\ IsApproval(s[j]) /\ s[i].about = s[j].about => i = j
<1> DEFINE P == PendingActions(msgs)
           asks == RequiresUserInput(msgs)
           A == <<Activity(IF asks THEN "awaiting_approval" ELSE "execution.completed"),
                  Activity("loop.completed")>>
           B == IF \E i \in DOMAIN msgs : msgs[i].role = "tool"
                THEN <<Activity("tools.completed")>> ELSE <<>>
           C == <<Content(asks)>>
           D == [i \in DOMAIN P |-> Approval(P[i].about)]
           h == History(Serialize(msgs))
           E == <<h>>
<1>1. /\ P \in Seq(Said) /\ Len(P) \in Nat /\ DOMAIN P = 1 .. Len(P)
      /\ \A k \in 1 .. Len(P) :
            P[k].about \in Call
            /\ \E i \in 1 .. Len(msgs) : IsPending(msgs[i]) /\ msgs[i].about = P[k].about
      /\ \A i \in 1 .. Len(msgs) : IsPending(msgs[i]) =>
            \E k \in 1 .. Len(P) : P[k].about = msgs[i].about
      /\ \A k, l \in 1 .. Len(P) : P[k].about = P[l].about => k = l
  <2>1. P \in Seq(Said)  BY Pending
  <2>q. QED BY <2>1, Pending, Elements
<1>2. asks \in BOOLEAN /\ (asks <=> Len(P) # 0)
  <2>1. asks <=> P # <<>>  BY DEF RequiresUserInput
  <2>2. P # <<>> <=> Len(P) # 0
    <3> HIDE DEF P
    <3>q. QED BY <1>1, EmptySeq
  <2>3. asks \in BOOLEAN  BY DEF RequiresUserInput
  <2>q. QED BY <2>1, <2>2, <2>3
<1>3. A \in Seq(Chunk) /\ Len(A) = 2 /\ \A chunk \in Range(A) : Ordinary(chunk)
  <2> DEFINE a == Activity(IF asks THEN "awaiting_approval" ELSE "execution.completed")
             b == Activity("loop.completed")
  <2>1. Ordinary(a) /\ Ordinary(b)  BY Ordinaries
  <2> HIDE DEF a, b
  <2>2. a \in Chunk /\ b \in Chunk  BY <2>1 DEF Ordinary
  <2>3. <<a, b>> \in Seq(Chunk) /\ Len(<<a, b>>) = 2 /\ Range(<<a, b>>) = {a, b}
    BY <2>2, Tuple2
  <2>q. QED BY <2>1, <2>3 DEF a, b
<1>4. B \in Seq(Chunk) /\ Len(B) \in Nat /\ \A chunk \in Range(B) : Ordinary(chunk)
  <2> DEFINE b == Activity("tools.completed")
  <2>1. Ordinary(b)  BY Ordinaries
  <2> HIDE DEF b
  <2>2. b \in Chunk  BY <2>1 DEF Ordinary
  <2>3. <<b>> \in Seq(Chunk) /\ Len(<<b>>) = 1 /\ Range(<<b>>) = {b}
    BY <2>2, Tuple1
  <2>4. <<>> \in Seq(Chunk) /\ Len(<<>>) = 0 /\ Range(<<>>) = {}  BY Tuple0
  <2>5. B = <<b>> \/ B = <<>>  BY DEF b
  <2> HIDE DEF B
  <2>6. CASE B = <<b>>  BY <2>1, <2>3, <2>6
  <2>7. CASE B = <<>>   BY <2>4, <2>7
  <2>q. QED BY <2>5, <2>6, <2>7
<1>5. /\ C \in Seq(Chunk) /\ Len(C) = 1 /\ Range(C) = {Content(asks)} /\ C[1] = Content(asks)
      /\ Content(asks) \in Chunk
  <2>1. Content(asks) \in Chunk  BY <1>2, Chunks
  <2> DEFINE c == Content(asks)
  <2> HIDE DEF c
  <2>2. c \in Chunk  BY <2>1 DEF c
  <2>3. <<c>> \in Seq(Chunk) /\ Len(<<c>>) = 1 /\ Range(<<c>>) = {c} /\ <<c>>[1] = c
    BY <2>2, Tuple1
  <2>q. QED BY <2>1, <2>3 DEF c
<1>6. /\ D \in Seq(Chunk) /\ Len(D) = Len(P)
      /\ \A k \in 1 .. Len(P) : D[k] = Approval(P[k].about)
  <2>1. ASSUME NEW k \in 1 .. Len(P) PROVE Approval(P[k].about) \in Chunk
    <3> HIDE DEF P
    <3>q. QED BY <1>1, Chunks
  <2> DEFINE F(k) == Approval(P[k].about)
  <2>2. D = [k \in 1 .. Len(P) |-> F(k)]  BY <1>1
  <2>3. \A k \in 1 .. Len(P) : F(k) \in Chunk  BY <2>1
  <2>4. \A k \in 1 .. Len(P) : D[k] = F(k)  BY <2>2
  <2> HIDE DEF F, D, P
  <2>5. D \in Seq(Chunk) /\ Len(D) = Len(P)  BY <1>1, <2>2, <2>3
  <2>q. QED BY <2>4, <2>5 DEF F
<1>7. /\ h \in Chunk /\ IsHistory(h) /\ h.messages = Serialize(msgs)
      /\ ~RequiresInput(h) /\ ~IsApproval(h) /\ ~Asking(h) /\ ~IsEvent(h) /\ ~Ends(h)
  BY Serialized, HistoryIs
<1>8. E \in Seq(Chunk) /\ Len(E) = 1 /\ Range(E) = {h} /\ E[1] = h
  <2> HIDE DEF h
  <2>q. QED BY <1>7, Tuple1
<1> DEFINE front == A \o B \o C
           most == front \o D
           s == most \o E
           m == Len(front)
           n == Len(P)
<1>9. s = Closing(msgs)  BY DEF Closing
<1> HIDE DEF P, A, B, C, D, E, h, asks
<1>10. /\ front \in Seq(Chunk) /\ m \in Nat
       /\ Range(front) = Range(A) \cup Range(B) \cup {Content(asks)}
  <2>1. A \o B \in Seq(Chunk) /\ Range(A \o B) = Range(A) \cup Range(B)
    BY <1>3, <1>4, Concatenated
  <2> DEFINE AB == A \o B
  <2> HIDE DEF AB
  <2>2. AB \in Seq(Chunk)  BY <2>1 DEF AB
  <2>3. AB \o C \in Seq(Chunk) /\ Range(AB \o C) = Range(AB) \cup Range(C)
    BY <2>2, <1>5, Concatenated
  <2>4. front = AB \o C  BY DEF AB
  <2> HIDE DEF front
  <2>5. front \in Seq(Chunk) /\ Range(front) = Range(AB) \cup Range(C)  BY <2>3, <2>4
  <2>6. Len(front) \in Nat  BY <2>5, Elements
  <2>q. QED BY <1>5, <2>1, <2>5, <2>6 DEF AB
<1> HIDE DEF front
<1>11. /\ most \in Seq(Chunk) /\ Len(most) = m + n
       /\ Range(most) = Range(front) \cup Range(D)
       /\ \A i \in 1 .. m : most[i] = front[i]
       /\ \A k \in 1 .. n : most[m + k] = Approval(P[k].about)
  <2>1. /\ front \o D \in Seq(Chunk)
        /\ Len(front \o D) = Len(front) + Len(D)
        /\ Range(front \o D) = Range(front) \cup Range(D)
        /\ \A i \in 1 .. Len(front) : (front \o D)[i] = front[i]
        /\ \A i \in 1 .. Len(D) : (front \o D)[Len(front) + i] = D[i]
    <3>1. front \in Seq(Chunk) /\ D \in Seq(Chunk)  BY <1>6, <1>10
    <3>q. QED BY <3>1, Concatenated
  <2>2. most = front \o D  OBVIOUS
  <2> HIDE DEF most
  <2>q. QED BY <1>6, <2>1, <2>2
<1> HIDE DEF most
<1>12. /\ s \in Seq(Chunk) /\ Len(s) = m + n + 1
       /\ Range(s) = Range(most) \cup {h}
       /\ \A i \in 1 .. m + n : s[i] = most[i]
       /\ s[m + n + 1] = h
  <2>1. /\ most \o E \in Seq(Chunk)
        /\ Len(most \o E) = Len(most) + Len(E)
        /\ Range(most \o E) = Range(most) \cup Range(E)
        /\ \A i \in 1 .. Len(most) : (most \o E)[i] = most[i]
        /\ \A i \in 1 .. Len(E) : (most \o E)[Len(most) + i] = E[i]
    <3>1. most \in Seq(Chunk) /\ E \in Seq(Chunk)  BY <1>8, <1>11
    <3>q. QED BY <3>1, Concatenated
  <2>2. s = most \o E  OBVIOUS
  <2> HIDE DEF s
  <2>3. 1 \in 1 .. Len(E)  BY <1>8
  <2>4. s[Len(most) + 1] = h  BY <1>8, <2>1, <2>2, <2>3
  <2>q. QED BY <1>8, <1>11, <2>1, <2>2, <2>4
<1> HIDE DEF s, m, n
<1>13. n \in Nat /\ (asks <=> n # 0)  BY <1>1, <1>2 DEF n
<1>14. Range(D) = {Approval(P[k].about) : k \in 1 .. n}
  <2>1. Range(D) = {D[k] : k \in 1 .. n}  BY <1>6, Elements DEF n
  <2>q. QED BY <1>6, <2>1 DEF n
\* Its chunks, by their kind.
<1>15. ASSUME NEW chunk \in Range(s)
       PROVE  \/ Ordinary(chunk)
              \/ chunk = Content(asks)
              \/ \E k \in 1 .. n : chunk = Approval(P[k].about)
              \/ chunk = h
  BY <1>3, <1>4, <1>10, <1>11, <1>12, <1>14
<1>16. /\ ~IsHistory(Content(asks)) /\ ~IsApproval(Content(asks)) /\ (Asking(Content(asks)) <=> asks)
       /\ Content(asks).kind \notin {"text", "done"} /\ ~IsEvent(Content(asks)) /\ ~Ends(Content(asks))
  BY <1>2 DEF Content, IsHistory, IsApproval, Asking, IsEvent, Ends, Says
<1>17. ASSUME NEW c
       PROVE  /\ IsApproval(Approval(c)) /\ Approval(c).about = c /\ ~IsHistory(Approval(c))
              /\ Approval(c).kind \notin {"text", "done"} /\ ~IsEvent(Approval(c)) /\ ~Ends(Approval(c))
              /\ ~Asking(Approval(c))
  BY DEF Approval, IsHistory, IsApproval, Asking, IsEvent, Ends, Says
<1>18. ASSUME NEW chunk, Ordinary(chunk)
       PROVE  ~IsHistory(chunk) /\ ~IsApproval(chunk) /\ ~Asking(chunk)
  BY <1>18 DEF Ordinary, IsHistory, IsApproval, Asking, RequiresInput
<1>19. /\ Range(s) = {s[i] : i \in 1 .. m + n + 1}
       /\ \A k \in 1 .. n : m + k \in 1 .. m + n + 1 /\ s[m + k] = Approval(P[k].about)
  <2>1. Range(s) = {s[i] : i \in 1 .. m + n + 1}  BY <1>12, Elements
  <2>2. ASSUME NEW k \in 1 .. n
        PROVE  m + k \in 1 .. m + n /\ m + k \in 1 .. m + n + 1
    BY <1>10, <1>13
  <2>q. QED BY <1>11, <1>12, <2>1, <2>2
<1>20. Fits("closing", s)
  <2>1. ASSUME NEW chunk \in Range(s)
        PROVE  /\ chunk.kind \notin {"text", "done"}
               /\ IsEvent(chunk) => chunk.by = Main
               /\ IsHistory(chunk) => "closing" \notin Running
               /\ RequiresInput(chunk) => "closing" = "closing"
               /\ Ends(chunk) => "closing" = "finishing"
    <3>0. "closing" \notin Running  BY DEF Running
    <3>1. CASE Ordinary(chunk)  BY <3>1, <1>18 DEF Ordinary
    <3>2. CASE chunk = Content(asks)  BY <3>2, <1>16
    <3>3. CASE \E k \in 1 .. n : chunk = Approval(P[k].about)  BY <3>3, <1>17
    <3>4. CASE chunk = h
      <4>1. chunk.kind = "history"  BY <3>4, <1>7 DEF IsHistory
      <4>q. QED BY <3>0, <3>4, <4>1, <1>7
    <3>q. QED BY <1>15, <3>1, <3>2, <3>3, <3>4
  <2>2. ASSUME NEW i \in 1 .. Len(s) - 1 PROVE ~IsHistory(s[i])
    <3>1. i \in 1 .. m + n /\ s[i] = most[i]  BY <1>10, <1>12, <1>13
    <3>2. most[i] \in Range(most)
      <4>1. Range(most) = {most[k] : k \in 1 .. m + n}  BY <1>11, Elements DEF m, n
      <4>q. QED BY <3>1, <4>1
    <3>3. \/ Ordinary(most[i]) \/ most[i] = Content(asks)
          \/ \E k \in 1 .. n : most[i] = Approval(P[k].about)
      BY <1>3, <1>4, <1>10, <1>11, <1>14, <3>2
    <3>q. QED BY <1>16, <1>17, <1>18, <3>1, <3>3
  <2>q. QED BY <2>1, <2>2 DEF Fits
<1>21. s # <<>> /\ IsHistory(s[Len(s)])
  <2>1. Len(s) # 0  BY <1>10, <1>12, <1>13
  <2>q. QED BY <1>7, <1>12, <2>1, Tuple0
<1>22. \A chunk \in Range(s) : IsHistory(chunk) => chunk.messages = Serialize(msgs)
  BY <1>7, <1>15, <1>16, <1>17, <1>18
<1>23. \A chunk \in Range(s) : IsApproval(chunk) =>
          \E k \in 1 .. n : chunk = Approval(P[k].about)
  BY <1>7, <1>15, <1>16, <1>18
<1>24. \A k \in 1 .. n : Approval(P[k].about) \in Range(s)  BY <1>19
<1>25. (\E chunk \in Range(s) : IsApproval(chunk)) <=> (\E chunk \in Range(s) : Asking(chunk))
  <2>1. (\E chunk \in Range(s) : IsApproval(chunk)) <=> n # 0
    <3>1. n # 0 => 1 \in 1 .. n  BY <1>13
    <3>2. n # 0 => \E chunk \in Range(s) : IsApproval(chunk)  BY <1>17, <1>24, <3>1
    <3>3. (\E k \in 1 .. n : TRUE) => n # 0  BY <1>13
    <3>q. QED BY <1>23, <3>2, <3>3
  <2>2. (\E chunk \in Range(s) : Asking(chunk)) <=> asks
    <3>1. Content(asks) \in Range(s)  BY <1>10, <1>11, <1>12
    <3>2. ASSUME NEW chunk \in Range(s), Asking(chunk) PROVE asks
      BY <1>7, <1>15, <1>16, <1>17, <1>18, <3>2
    <3>q. QED BY <1>16, <3>1, <3>2
  <2>q. QED BY <1>13, <2>1, <2>2
<1>26. \A chunk \in Range(s) : IsApproval(chunk) =>
          \E i \in 1 .. Len(msgs) : IsPending(msgs[i]) /\ msgs[i].about = chunk.about
  BY <1>1, <1>17, <1>23 DEF n
<1>27. \A i \in 1 .. Len(msgs) : IsPending(msgs[i]) =>
          \E chunk \in Range(s) : IsApproval(chunk) /\ chunk.about = msgs[i].about
  BY <1>1, <1>17, <1>24 DEF n
<1>28. ASSUME NEW i \in 1 .. Len(s), NEW j \in 1 .. Len(s),
              IsApproval(s[i]), IsApproval(s[j]), s[i].about = s[j].about
       PROVE  i = j
  <2>1. ASSUME NEW k \in 1 .. Len(s), IsApproval(s[k])
        PROVE  \E l \in 1 .. n : k = m + l /\ s[k].about = P[l].about
    <3>1. k # m + n + 1  BY <1>7, <1>12, <2>1
    <3>2. k \in 1 .. m + n  BY <1>10, <1>12, <1>13, <3>1
    <3>3. k \notin 1 .. m
      <4> SUFFICES ASSUME k \in 1 .. m PROVE FALSE  OBVIOUS
      <4>1. s[k] = front[k]  BY <1>11, <1>12, <3>2
      <4>2. front[k] \in Range(front)
        <5>1. Range(front) = {front[l] : l \in 1 .. m}  BY <1>10, Elements DEF m
        <5>q. QED BY <5>1
      <4>q. QED BY <1>3, <1>4, <1>10, <1>16, <1>18, <2>1, <4>1, <4>2
    <3>4. k - m \in 1 .. n /\ k = m + (k - m)  BY <1>10, <1>13, <3>2, <3>3
    <3>5. s[k] = Approval(P[k - m].about)  BY <1>19, <3>4
    <3>q. QED BY <1>17, <3>4, <3>5
  <2>2. PICK k \in 1 .. n : i = m + k /\ s[i].about = P[k].about  BY <1>28, <2>1
  <2>3. PICK l \in 1 .. n : j = m + l /\ s[j].about = P[l].about  BY <1>28, <2>1
  <2>4. k = l  BY <1>1, <1>28, <2>2, <2>3 DEF n
  <2>q. QED BY <2>2, <2>3, <2>4
<1>q. QED BY <1>9, <1>12, <1>20, <1>21, <1>22, <1>25, <1>26, <1>27, <1>28

\* What the handler has still to yield fits its phase.
ScriptOK ==
    /\ Fits(phase, script)
    /\ phase \in {"over", "gone"} => script = <<>>

WireOK ==
    /\ \A chunk \in Range(wire) :
          /\ IsHistory(chunk) => phase \notin Running \cup {"closing"}
          /\ RequiresInput(chunk) => phase \notin Running
          /\ Ends(chunk) => /\ phase \in {"finishing", "ending", "over"}
                            /\ phase = "ending" => script = <<>>
    /\ \A i \in 1 .. Len(wire) : IsHistory(wire[i]) =>
          /\ script = <<>>
          /\ \A j \in i + 1 .. Len(wire) : wire[j].kind = "done"
          /\ phase \in {"finishing", "ending"} => i = Len(wire)
    /\ phase = "gone" => \A chunk \in Range(wire) : IsHistory(chunk)

HeldOK ==
    /\ \A chunk \in Range(held) : IsHistory(chunk)
    /\ phase \in Running => held = <<>>
    /\ phase = "closing" =>
          IF held = <<>> THEN script # <<>> /\ IsHistory(script[Len(script)])
                         ELSE script = <<>>
    /\ phase = "finishing" => \E chunk \in Range(wire) \cup Range(script) : IsHistory(chunk)
    /\ (phase \in {"ending", "over"} /\ \E chunk \in Range(wire) : Ends(chunk)) =>
          \E chunk \in Range(wire) : IsHistory(chunk)

\* Where the handler is tells how the graph ended and what is drained.
EndOK ==
    /\ phase \in {"lastTexts", "lastEvents"} => graph = "ended"
    /\ phase = "failedEvents" => graph = "failed"
    /\ phase \in {"closing", "finishing"} => graph \in {"ended", "failed"}
    /\ graph = "ended" =>
          /\ phase \in {"lastEvents", "closing", "finishing", "ending", "over"} => texts = 0
          /\ phase \in {"closing", "finishing", "ending", "over"} => queue = <<>>

IsTool(i) == said[i].role = "tool"

\* The tools' messages of this turn are about calls that were answered, each once;
\* the model's next calls are not among them until their tools return.
SaidOK ==
    /\ graph \in {"agent.completed", "ended"} =>
          said # <<>> /\ said[Len(said)].role = "assistant"
    /\ \A i \in 1 .. Len(said) : IsTool(i) =>
          /\ said[i].about \in Call
          /\ call[said[i].about] \in Answered
          /\ graph \in {"agent.completed", "tools.started", "tools"} => said[i].about \notin round
          /\ \A j \in 1 .. Len(said) : IsTool(j) /\ said[i].about = said[j].about => i = j

Whole(msgs) ==
    \/ msgs = prior
    \/ /\ msgs = Serialize(prior \o said)
       /\ said[Len(said)].role = "assistant"
       /\ graph = "ended"

HistOK ==
    \A chunk \in Range(wire) \cup Range(script) \cup Range(held) :
        IsHistory(chunk) => Whole(chunk.messages)

\* The host's answer is asked for by the content and by the approvals together,
\* and the run ends as the handler has noted.
AskOK ==
    phase # "gone" =>
        LET all == Range(wire) \cup Range(script)
        IN  /\ awaiting <=> \E chunk \in Range(wire) : RequiresInput(chunk)
            /\ (\E chunk \in all : IsApproval(chunk)) <=> (\E chunk \in all : Asking(chunk))
            /\ \A chunk \in all :
                  /\ Says(chunk, Main, "run.awaiting_input") => awaiting
                  /\ Says(chunk, Main, "run.completed") => ~awaiting

Wanted == CalledNow \cap prepared

ApproveOK ==
    /\ \A chunk \in Range(wire) \cup Range(script) : IsApproval(chunk) => chunk.about \in Wanted
    /\ \A i \in 1 .. Len(wire), j \in 1 .. Len(wire) :
          IsApproval(wire[i]) /\ IsApproval(wire[j]) /\ wire[i].about = wire[j].about => i = j
    /\ \A i \in 1 .. Len(script), j \in 1 .. Len(script) :
          IsApproval(script[i]) /\ IsApproval(script[j]) /\ script[i].about = script[j].about => i = j
    /\ \A x \in Range(wire), y \in Range(script) :
          IsApproval(x) /\ IsApproval(y) => x.about # y.about
    /\ (graph = "ended" /\ phase \in {"closing", "finishing", "ending", "over"}) =>
          \A c \in Wanted : \E chunk \in Range(wire) \cup Range(script) :
             IsApproval(chunk) /\ chunk.about = c

CountOK == phase # "gone" => Cardinality(Sent("text")) + texts = spoken

\* The events of a call are on the wire, or behind it in the queue.
Started(c) == (\E i \in 1 .. Len(wire) : Says(wire[i], c, "started"))
           \/ (\E i \in 1 .. Len(queue) : Says(queue[i], c, "started"))

InOrder(c, end) ==
    \/ \E i, j \in 1 .. Len(wire) : i < j /\ Says(wire[i], c, "started") /\ Says(wire[j], c, end)
    \/ \E i \in 1 .. Len(wire), j \in 1 .. Len(queue) :
          Says(wire[i], c, "started") /\ Says(queue[j], c, end)
    \/ \E i, j \in 1 .. Len(queue) : i < j /\ Says(queue[i], c, "started") /\ Says(queue[j], c, end)

OrderOK ==
    phase # "gone" => \A c \in Call :
        /\ call[c] \in {"working", "completed", "failed", "rejected"} => Started(c)
        /\ call[c] = "returned" => InOrder(c, "completed")
        /\ call[c] = "refused" => InOrder(c, "failed")

StreamOK ==
    /\ ScriptOK /\ WireOK /\ HeldOK /\ EndOK /\ SaidOK
    /\ HistOK /\ AskOK /\ ApproveOK /\ CountOK /\ OrderOK

Full == Inv /\ Typed /\ StreamOK

-----------------------------------------------------------------------------
(* A chunk that is delivered.                                              *)

LEMMA Delivers ==
    ASSUME Typed, NEW chunk \in Chunk, Deliver(chunk)
    PROVE  /\ wire' \in Seq(Chunk) /\ held' \in Seq(Chunk)
           /\ awaiting' <=> (awaiting \/ RequiresInput(chunk))
           /\ IF phase = "closing" /\ IsHistory(chunk)
              THEN wire' = wire /\ held' = <<chunk>> /\ Range(held') = {chunk} /\ held' # <<>>
              ELSE /\ held' = held /\ wire' = Append(wire, chunk)
                   /\ Len(wire') = Len(wire) + 1 /\ Range(wire') = Range(wire) \cup {chunk}
                   /\ \A i \in 1 .. Len(wire) : wire'[i] = wire[i]
                   /\ wire'[Len(wire) + 1] = chunk
<1>0. wire \in Seq(Chunk) /\ held \in Seq(Chunk)  BY DEF Typed
<1>1. /\ <<chunk>> \in Seq(Chunk) /\ Range(<<chunk>>) = {chunk} /\ Len(<<chunk>>) = 1
  BY Tuple1
<1>2. <<chunk>> # <<>>  OBVIOUS
<1>3. /\ Append(wire, chunk) \in Seq(Chunk)
      /\ Len(Append(wire, chunk)) = Len(wire) + 1
      /\ \A i \in 1 .. Len(wire) : Append(wire, chunk)[i] = wire[i]
      /\ Append(wire, chunk)[Len(wire) + 1] = chunk
      /\ Range(Append(wire, chunk)) = Range(wire) \cup {chunk}
  BY <1>0, AppendedTo
<1>4. awaiting' <=> (awaiting \/ RequiresInput(chunk))  BY DEF Deliver
<1>5. CASE phase = "closing" /\ IsHistory(chunk)
  <2>1. held' = <<chunk>> /\ wire' = wire  BY <1>5 DEF Deliver, IsHistory
  <2>q. QED BY <1>0, <1>1, <1>2, <1>4, <1>5, <2>1
<1>6. CASE ~(phase = "closing" /\ IsHistory(chunk))
  <2>1. held' = held /\ wire' = Append(wire, chunk)  BY <1>6 DEF Deliver, IsHistory
  <2>q. QED BY <1>0, <1>3, <1>4, <1>6, <2>1
<1>q. QED BY <1>5, <1>6

-----------------------------------------------------------------------------
(* The handler yields the next chunk of its script.                        *)

\* What of the other variables the request handler's yielding leaves.
LEMMA YieldLeaves ==
    ASSUME YieldChunk
    PROVE  UNCHANGED <<turn, prior, phase, graph, round, said, prepared, call, spoken, texts, queue>>
  BY DEF YieldChunk, turns, messages, content

LEMMA YieldScript ==
    ASSUME Typed, ScriptOK, YieldChunk
    PROVE  LET chunk == Head(script)
           IN  /\ chunk \in Chunk /\ Range(script) = {chunk} \cup Range(script')
               /\ script' \in Seq(Chunk) /\ Len(script) \in Nat \ {0}
               /\ Len(script') = Len(script) - 1
               /\ \A i \in 1 .. Len(script') : script'[i] = script[i + 1]
               /\ chunk = script[1]
               /\ IsHistory(chunk) => script' = <<>>
               /\ script' = <<>> => chunk = script[Len(script)]
               /\ script' # <<>> => script'[Len(script')] = script[Len(script)]
<1>0. script \in Seq(Chunk) /\ script # <<>> /\ script' = Tail(script)
  BY DEF Typed, YieldChunk
<1>1. /\ Head(script) \in Chunk /\ Head(script) = script[1] /\ script' \in Seq(Chunk)
      /\ Len(script) \in Nat \ {0} /\ Len(script') = Len(script) - 1
      /\ \A i \in 1 .. Len(script) - 1 : script'[i] = script[i + 1]
      /\ Range(script) = {Head(script)} \cup Range(script')
  BY <1>0, Consumed
<1>2. script' = <<>> <=> Len(script') = 0  BY <1>1, EmptySeq
<1>3. IsHistory(Head(script)) => script' = <<>>
  <2>1. Len(script) - 1 # 0 => 1 \in 1 .. Len(script) - 1  BY <1>1
  <2>2. \A i \in 1 .. Len(script) - 1 : ~IsHistory(script[i])  BY DEF ScriptOK, Fits
  <2>q. QED BY <1>1, <1>2, <2>1, <2>2
<1>4. script' = <<>> => Head(script) = script[Len(script)]
  <2>1. script' = <<>> => Len(script) = 1  BY <1>1, <1>2
  <2>q. QED BY <1>1, <2>1
<1>5. script' # <<>> => script'[Len(script')] = script[Len(script)]
  <2> SUFFICES ASSUME script' # <<>> PROVE script'[Len(script')] = script[Len(script)]
    OBVIOUS
  <2>1. Len(script') \in 1 .. Len(script) - 1 /\ Len(script') + 1 = Len(script)  BY <1>1, <1>2
  <2>q. QED BY <1>1, <2>1
<1>q. QED BY <1>1, <1>3, <1>4, <1>5

LEMMA YieldKeeps ==
    ASSUME Full, YieldChunk
    PROVE  Typed' /\ StreamOK'
<1> DEFINE chunk == Head(script)
<1>0. Typed /\ ScriptOK /\ WireOK /\ HeldOK /\ EndOK /\ SaidOK /\ HistOK /\ AskOK /\ ApproveOK /\ CountOK /\ OrderOK
  BY DEF Full, StreamOK
<1>1. UNCHANGED <<turn, prior, phase, graph, round, said, prepared, call, spoken, texts, queue>>
  BY YieldLeaves
<1>2. /\ chunk \in Chunk /\ Range(script) = {chunk} \cup Range(script')
      /\ script' \in Seq(Chunk) /\ Len(script) \in Nat \ {0}
      /\ Len(script') = Len(script) - 1
      /\ \A i \in 1 .. Len(script') : script'[i] = script[i + 1]
      /\ chunk = script[1]
      /\ IsHistory(chunk) => script' = <<>>
      /\ script' = <<>> => chunk = script[Len(script)]
      /\ script' # <<>> => script'[Len(script')] = script[Len(script)]
  BY <1>0, YieldScript
<1>3. script # <<>> /\ Deliver(chunk)  BY DEF YieldChunk
<1>4. /\ wire' \in Seq(Chunk) /\ held' \in Seq(Chunk)
      /\ awaiting' <=> (awaiting \/ RequiresInput(chunk))
      /\ IF phase = "closing" /\ IsHistory(chunk)
         THEN wire' = wire /\ held' = <<chunk>> /\ Range(held') = {chunk} /\ held' # <<>>
         ELSE /\ held' = held /\ wire' = Append(wire, chunk)
              /\ Len(wire') = Len(wire) + 1 /\ Range(wire') = Range(wire) \cup {chunk}
              /\ \A i \in 1 .. Len(wire) : wire'[i] = wire[i]
              /\ wire'[Len(wire) + 1] = chunk
  BY <1>0, <1>2, <1>3, Delivers
<1> HIDE DEF chunk
<1>5. /\ Len(wire) \in Nat /\ DOMAIN wire = 1 .. Len(wire) /\ Range(wire) = {wire[i] : i \in 1 .. Len(wire)}
      /\ Len(wire') \in Nat /\ DOMAIN wire' = 1 .. Len(wire') /\ Range(wire') = {wire'[i] : i \in 1 .. Len(wire')}
      /\ Range(script) = {script[i] : i \in 1 .. Len(script)}
      /\ Range(script') = {script'[i] : i \in 1 .. Len(script')}
  <2>1. wire \in Seq(Chunk) /\ script \in Seq(Chunk) /\ wire' \in Seq(Chunk) /\ script' \in Seq(Chunk)
    BY <1>0, <1>2, <1>4 DEF Typed
  <2>q. QED BY <2>1, Elements
\* The chunk, as its place in the script tells.
<1>6. /\ chunk.kind \notin {"text", "done"}
      /\ IsEvent(chunk) => chunk.by = Main
      /\ IsHistory(chunk) => phase \notin Running
      /\ RequiresInput(chunk) => phase = "closing"
      /\ Ends(chunk) => phase = "finishing"
      /\ phase \notin {"over", "gone"}
  BY <1>0, <1>2, <1>3 DEF ScriptOK, Fits
<1>7. \A x \in Range(wire) : ~IsHistory(x)
  BY <1>0, <1>3, <1>5 DEF WireOK
<1>8. Typed'  BY <1>0, <1>1, <1>2, <1>4 DEF Typed
<1>9. ScriptOK'
  <2>1. ASSUME NEW i \in 1 .. Len(script') - 1 PROVE ~IsHistory(script'[i])
    <3>1. i \in 1 .. Len(script') /\ i + 1 \in 1 .. Len(script) - 1  BY <1>2
    <3>q. QED BY <1>0, <1>2, <3>1 DEF ScriptOK, Fits
  <2>q. QED BY <1>0, <1>1, <1>2, <1>6, <2>1 DEF ScriptOK, Fits
<1>10. WireOK'
  <2>1. CASE phase = "closing" /\ IsHistory(chunk)
    BY <1>0, <1>1, <1>4, <1>7, <2>1, <1>5 DEF WireOK
  <2>2. CASE ~(phase = "closing" /\ IsHistory(chunk))
    <3>1. ASSUME NEW x \in Range(wire')
          PROVE  /\ IsHistory(x) => phase \notin Running \cup {"closing"}
                 /\ RequiresInput(x) => phase \notin Running
                 /\ Ends(x) => phase \in {"finishing", "ending", "over"}
                 /\ Ends(x) /\ phase = "ending" => script' = <<>>
      <4>1. CASE x = chunk  BY <1>6, <2>2, <4>1 DEF Running
      <4>2. CASE x \in Range(wire)  BY <1>0, <1>3, <4>2 DEF WireOK
      <4>q. QED BY <1>4, <2>2, <4>1, <4>2
    <3>2. ASSUME NEW i \in 1 .. Len(wire'), IsHistory(wire'[i])
          PROVE  i = Len(wire') /\ script' = <<>>
      <4>0. /\ Len(wire') = Len(wire) + 1 /\ wire'[Len(wire) + 1] = chunk
            /\ \A k \in 1 .. Len(wire) : wire'[k] = wire[k]
        BY <1>4, <2>2
      <4>1. i \notin 1 .. Len(wire)  BY <1>5, <1>7, <3>2, <4>0
      <4>2. i = Len(wire) + 1
        <5>1. Len(wire) \in Nat /\ i \in 1 .. Len(wire) + 1  BY <1>5, <4>0
        <5>q. QED BY <4>1, <5>1
      <4>q. QED BY <1>2, <3>2, <4>0, <4>2
    <3>3. \A i \in 1 .. Len(wire') : IsHistory(wire'[i]) =>
             \A j \in i + 1 .. Len(wire') : wire'[j].kind = "done"
      <4>1. Len(wire') \in Nat  BY <1>5
      <4>2. Len(wire') + 1 .. Len(wire') = {}  BY <4>1
      <4>q. QED BY <3>2, <4>2
    <3>q. QED BY <1>1, <1>6, <3>1, <3>2, <3>3 DEF WireOK
  <2>q. QED BY <2>1, <2>2
<1>11. HeldOK'
  <2>1. \A x \in Range(held') : IsHistory(x)  BY <1>0, <1>4 DEF HeldOK
  <2>2. phase' \in Running => held' = <<>>  BY <1>0, <1>1, <1>4 DEF HeldOK, Running
  <2>3. phase' = "closing" =>
          IF held' = <<>> THEN script' # <<>> /\ IsHistory(script'[Len(script')])
                          ELSE script' = <<>>
    <3> SUFFICES ASSUME phase = "closing"
                 PROVE  IF held' = <<>> THEN script' # <<>> /\ IsHistory(script'[Len(script')])
                                        ELSE script' = <<>>
      BY <1>1
    <3>1. held = <<>> /\ IsHistory(script[Len(script)])  BY <1>0, <1>3 DEF HeldOK
    <3>q. QED BY <1>2, <1>4, <3>1
  <2>4. phase' = "finishing" => \E x \in Range(wire') \cup Range(script') : IsHistory(x)
    <3> SUFFICES ASSUME phase = "finishing"
                 PROVE  \E x \in Range(wire') \cup Range(script') : IsHistory(x)
      BY <1>1
    <3>1. PICK x \in Range(wire) \cup Range(script) : IsHistory(x)  BY <1>0 DEF HeldOK
    <3>2. x \in Range(wire') \cup Range(script')  BY <1>2, <1>4, <3>1
    <3>q. QED BY <3>1, <3>2
  <2>5. (phase' \in {"ending", "over"} /\ \E x \in Range(wire') : Ends(x)) =>
          \E x \in Range(wire') : IsHistory(x)
    <3>1. phase = "ending" => \A x \in Range(wire') : ~Ends(x)
      BY <1>0, <1>3, <1>4, <1>6 DEF WireOK
    <3>q. QED BY <1>1, <1>6, <3>1
  <2>q. QED BY <2>1, <2>2, <2>3, <2>4, <2>5 DEF HeldOK
<1>12. EndOK' /\ SaidOK'
  BY <1>0, <1>1 DEF EndOK, SaidOK, IsTool
<1>13. HistOK'
  <2>1. ASSUME NEW x \in Range(wire') \cup Range(script') \cup Range(held')
        PROVE  x \in Range(wire) \cup Range(script) \cup Range(held)
    BY <1>2, <1>4
  <2>2. \A msgs : Whole(msgs)' <=> Whole(msgs)
    <3>1. Serialize(prior \o said)' = Serialize(prior \o said)  BY <1>1 DEF Serialize, Message
    <3>q. QED BY <1>1, <3>1 DEF Whole
  <2>q. QED BY <1>0, <2>1, <2>2 DEF HistOK
<1>14. /\ (\E x \in Range(wire') \cup Range(script') : IsApproval(x))
            <=> (\E x \in Range(wire) \cup Range(script) : IsApproval(x))
       /\ (\E x \in Range(wire') \cup Range(script') : Asking(x))
            <=> (\E x \in Range(wire) \cup Range(script) : Asking(x))
       /\ \A x \in Range(wire') \cup Range(script') : x \in Range(wire) \cup Range(script)
  <2>1. ~IsHistory(chunk) =>
           Range(wire') \cup Range(script') = Range(wire) \cup Range(script)
    BY <1>2, <1>4
  <2>2. IsHistory(chunk) => ~IsApproval(chunk) /\ ~Asking(chunk)
    BY DEF IsHistory, IsApproval, Asking
  <2>3. /\ Range(wire') \cup Range(script') \subseteq Range(wire) \cup Range(script)
        /\ Range(wire) \cup Range(script) \subseteq Range(wire') \cup Range(script') \cup {chunk}
    BY <1>2, <1>4
  <2>q. QED BY <2>1, <2>2, <2>3
<1>15. AskOK'
  <2>1. awaiting' <=> \E x \in Range(wire') : RequiresInput(x)
    <3>1. awaiting <=> \E x \in Range(wire) : RequiresInput(x)  BY <1>0, <1>6 DEF AskOK
    <3>2. IsHistory(chunk) => ~RequiresInput(chunk)  BY DEF IsHistory, RequiresInput
    <3>q. QED BY <1>4, <3>1, <3>2
  <2>2. ASSUME NEW x \in Range(wire') \cup Range(script')
        PROVE  /\ Says(x, Main, "run.awaiting_input") => awaiting'
               /\ Says(x, Main, "run.completed") => ~awaiting'
    <3>1. /\ Says(x, Main, "run.awaiting_input") => awaiting
          /\ Says(x, Main, "run.completed") => ~awaiting
      BY <1>0, <1>6, <1>14 DEF AskOK
    <3>2. RequiresInput(chunk) => ~Ends(x)
      <4>1. RequiresInput(chunk) => phase = "closing"  BY <1>6
      <4>2. CASE x \in Range(wire)  BY <1>0, <4>1, <4>2 DEF WireOK
      <4>3. CASE x \in Range(script)  BY <1>0, <4>1, <4>3 DEF ScriptOK, Fits
      <4>q. QED BY <1>14, <4>2, <4>3
    <3>q. QED BY <1>4, <3>1, <3>2 DEF Ends
  <2>q. QED BY <1>0, <1>1, <1>6, <1>14, <2>1, <2>2 DEF AskOK
<1>16. ApproveOK'
  <2>0. Wanted' = Wanted
    BY <1>1 DEF Wanted, CalledNow
  <2>1. \A x \in Range(wire') \cup Range(script') : IsApproval(x) => x.about \in Wanted
    BY <1>0, <1>14 DEF ApproveOK
  <2>2. ASSUME NEW i \in 1 .. Len(wire'), NEW j \in 1 .. Len(wire'),
               IsApproval(wire'[i]), IsApproval(wire'[j]), wire'[i].about = wire'[j].about
        PROVE  i = j
    <3>1. CASE wire' = wire  BY <1>0, <2>2, <3>1 DEF ApproveOK
    <3>2. CASE wire' # wire
      <4>1. /\ Len(wire') = Len(wire) + 1 /\ wire'[Len(wire) + 1] = chunk
            /\ \A k \in 1 .. Len(wire) : wire'[k] = wire[k]
        BY <1>4, <3>2
      <4>2. \A k \in 1 .. Len(wire) : ~(IsApproval(wire[k]) /\ IsApproval(chunk) /\ wire[k].about = chunk.about)
        <5>1. \A k \in 1 .. Len(wire) : wire[k] \in Range(wire)  BY <1>5
        <5>2. chunk \in Range(script)  BY <1>2
        <5>q. QED BY <1>0, <5>1, <5>2 DEF ApproveOK
      <4>3. \A k \in 1 .. Len(wire') : k \in 1 .. Len(wire) \/ k = Len(wire) + 1  BY <1>5, <4>1
      <4>4. CASE i \in 1 .. Len(wire) /\ j \in 1 .. Len(wire)
        BY <1>0, <2>2, <4>1, <4>4 DEF ApproveOK
      <4>5. CASE i \in 1 .. Len(wire) /\ j = Len(wire) + 1  BY <2>2, <4>1, <4>2, <4>5
      <4>6. CASE i = Len(wire) + 1 /\ j \in 1 .. Len(wire)  BY <2>2, <4>1, <4>2, <4>6
      <4>q. QED BY <4>3, <4>4, <4>5, <4>6
    <3>q. QED BY <3>1, <3>2
  <2>3. ASSUME NEW i \in 1 .. Len(script'), NEW j \in 1 .. Len(script'),
               IsApproval(script'[i]), IsApproval(script'[j]), script'[i].about = script'[j].about
        PROVE  i = j
    <3>1. i + 1 \in 1 .. Len(script) /\ j + 1 \in 1 .. Len(script)  BY <1>2
    <3>2. script'[i] = script[i + 1] /\ script'[j] = script[j + 1]  BY <1>2
    <3>3. i + 1 = j + 1  BY <1>0, <2>3, <3>1, <3>2 DEF ApproveOK
    <3>q. QED BY <3>3
  <2>4. ASSUME NEW x \in Range(wire'), NEW y \in Range(script'), IsApproval(x), IsApproval(y)
        PROVE  x.about # y.about
    <3>1. CASE x \in Range(wire)  BY <1>0, <1>2, <2>4, <3>1 DEF ApproveOK
    <3>2. CASE x = chunk
      <4>1. PICK i \in 1 .. Len(script') : y = script'[i]  BY <1>5
      <4>2. i + 1 \in 1 .. Len(script) /\ y = script[i + 1] /\ i + 1 # 1 /\ 1 \in 1 .. Len(script)
        BY <1>2, <4>1
      <4>q. QED BY <1>0, <1>2, <2>4, <3>2, <4>2 DEF ApproveOK
    <3>q. QED BY <1>4, <3>1, <3>2
  <2>5. ASSUME graph = "ended", phase \in {"closing", "finishing", "ending", "over"}, NEW c \in Wanted
        PROVE  \E x \in Range(wire') \cup Range(script') : IsApproval(x) /\ x.about = c
    <3>1. PICK x \in Range(wire) \cup Range(script) : IsApproval(x) /\ x.about = c
      BY <1>0, <2>5 DEF ApproveOK
    <3>2. IsApproval(x) => ~IsHistory(x)  BY DEF IsApproval, IsHistory
    <3>3. x \in Range(wire') \cup Range(script')  BY <1>2, <1>4, <3>1, <3>2
    <3>q. QED BY <3>1, <3>3
  <2>q. QED BY <1>1, <2>0, <2>1, <2>2, <2>3, <2>4, <2>5 DEF ApproveOK
<1>17. CountOK'
  <2>1. Sent("text")' = Sent("text")
    <3>1. CASE wire' = wire  BY <3>1 DEF Sent
    <3>2. CASE wire' # wire
      <4>1. /\ Len(wire') = Len(wire) + 1 /\ wire'[Len(wire) + 1] = chunk
            /\ \A k \in 1 .. Len(wire) : wire'[k] = wire[k]
        BY <1>4, <3>2
      <4>2. \A k \in 1 .. Len(wire') : k \in 1 .. Len(wire) \/ k = Len(wire) + 1  BY <1>5, <4>1
      <4>3. \A k \in 1 .. Len(wire) : k \in 1 .. Len(wire')  BY <1>5, <4>1
      <4>4. chunk.kind # "text"  BY <1>6
      <4>5. Sent("text")' = {i \in 1 .. Len(wire') : wire'[i].kind = "text"}  BY <1>5 DEF Sent
      <4>6. Sent("text") = {i \in 1 .. Len(wire) : wire[i].kind = "text"}  BY <1>5 DEF Sent
      <4>q. QED BY <4>1, <4>2, <4>3, <4>4, <4>5, <4>6
    <3>q. QED BY <3>1, <3>2
  <2>q. QED BY <1>0, <1>1, <2>1 DEF CountOK
<1>18. OrderOK'
  <2>1. \A k \in 1 .. Len(wire) : k \in 1 .. Len(wire') /\ wire'[k] = wire[k]
    <3>1. CASE wire' = wire  BY <3>1
    <3>2. CASE wire' # wire
      <4>1. Len(wire') = Len(wire) + 1 /\ \A k \in 1 .. Len(wire) : wire'[k] = wire[k]
        BY <1>4, <3>2
      <4>2. Len(wire) \in Nat  BY <1>5
      <4>q. QED BY <4>1, <4>2
    <3>q. QED BY <3>1, <3>2
  <2>2. \A c : (Started(c) => Started(c)') /\ \A end : InOrder(c, end) => InOrder(c, end)'
    <3>1. \A x, by, what : Says(x, by, what)' <=> Says(x, by, what)  BY DEF Says, IsEvent
    <3>q. QED BY <1>1, <2>1 DEF Started, InOrder, Says, IsEvent
  <2>q. QED BY <1>0, <1>1, <2>2 DEF OrderOK
<1>q. QED
  BY <1>8, <1>9, <1>10, <1>11, <1>12, <1>13, <1>15, <1>16, <1>17, <1>18 DEF StreamOK

-----------------------------------------------------------------------------
(* The handler drains a queue.                                             *)

DrainPhases == {"texts", "lastTexts", "events", "lastEvents", "failedEvents"}

\* What a drained chunk leaves true, whatever the queue it comes from.
LEMMA DrainedKeeps ==
    ASSUME Full, NEW chunk \in Chunk, Deliver(chunk), phase \in DrainPhases, script = <<>>,
           chunk.kind \in {"text", "activity"}, IsEvent(chunk) => chunk.by # Main,
           UNCHANGED <<turn, prior, phase, script, graph, round, said, prepared, call, spoken>>
    PROVE  /\ wire' \in Seq(Chunk) /\ held' = held
           /\ Len(wire) \in Nat /\ Len(wire') = Len(wire) + 1 /\ wire'[Len(wire) + 1] = chunk
           /\ \A i \in 1 .. Len(wire) : wire'[i] = wire[i]
           /\ ScriptOK' /\ WireOK' /\ HeldOK' /\ SaidOK' /\ HistOK' /\ AskOK' /\ ApproveOK'
<1>0. Typed /\ ScriptOK /\ WireOK /\ HeldOK /\ SaidOK /\ HistOK /\ AskOK /\ ApproveOK
  BY DEF Full, StreamOK
<1>1. /\ ~IsHistory(chunk) /\ ~RequiresInput(chunk) /\ ~Ends(chunk) /\ ~IsApproval(chunk)
      /\ ~Asking(chunk) /\ \A what : ~Says(chunk, Main, what)
      /\ phase \in Running /\ phase # "gone" /\ phase # "over" /\ phase # "closing"
  BY DEF IsHistory, RequiresInput, Ends, IsApproval, Asking, Says, DrainPhases, Running
<1>2. /\ wire' \in Seq(Chunk) /\ held' = held /\ wire' = Append(wire, chunk)
      /\ Len(wire') = Len(wire) + 1 /\ Range(wire') = Range(wire) \cup {chunk}
      /\ \A i \in 1 .. Len(wire) : wire'[i] = wire[i]
      /\ wire'[Len(wire) + 1] = chunk
      /\ awaiting' <=> awaiting
  BY <1>0, <1>1, Delivers
<1>3. Len(wire) \in Nat /\ Range(wire) = {wire[i] : i \in 1 .. Len(wire)}
  BY <1>0, Elements DEF Typed
<1>4. \A i \in 1 .. Len(wire') : i \in 1 .. Len(wire) \/ i = Len(wire) + 1
  BY <1>2, <1>3
<1>5. Range(script) = {} /\ script' = script  BY Tuple0
<1>6. ScriptOK'  BY <1>0 DEF ScriptOK, Fits
<1>7. \A i \in 1 .. Len(wire') : ~IsHistory(wire'[i])
  <2>1. \A i \in 1 .. Len(wire) : ~IsHistory(wire[i])  BY <1>0, <1>1, <1>3 DEF WireOK
  <2>q. QED BY <1>1, <1>2, <1>4, <2>1
<1>8. WireOK'
  <2>1. ASSUME NEW x \in Range(wire')
        PROVE  ~IsHistory(x) /\ ~RequiresInput(x) /\ ~Ends(x)
    BY <1>0, <1>1, <1>2, <2>1 DEF WireOK, Running
  <2>q. QED BY <1>1, <1>7, <2>1 DEF WireOK
<1>9. HeldOK'  BY <1>0, <1>1, <1>2 DEF HeldOK, Running
<1>10. SaidOK'  BY <1>0 DEF SaidOK, IsTool
<1>11. HistOK'
  <2>1. ASSUME NEW x \in Range(wire') \cup Range(script') \cup Range(held'), IsHistory(x)
        PROVE  x \in Range(wire) \cup Range(script) \cup Range(held)
    BY <1>1, <1>2, <2>1
  <2>2. \A msgs : Whole(msgs)' <=> Whole(msgs)
    <3>1. Serialize(prior \o said)' = Serialize(prior \o said)  BY DEF Serialize, Message
    <3>q. QED BY <3>1 DEF Whole
  <2>q. QED BY <1>0, <2>1, <2>2 DEF HistOK
<1>12. AskOK'
  <2>1. Range(script') = Range(script)  OBVIOUS
  <2>2. \A x, what : Says(x, Main, what)' <=> Says(x, Main, what)  BY DEF Says, IsEvent
  <2>q. QED BY <1>0, <1>1, <1>2, <2>1 DEF AskOK
<1>13. ApproveOK'
  <2>1. Wanted' = Wanted  BY DEF Wanted, CalledNow
  <2>2. ASSUME NEW i \in 1 .. Len(wire'), NEW j \in 1 .. Len(wire'),
               IsApproval(wire'[i]), IsApproval(wire'[j]), wire'[i].about = wire'[j].about
        PROVE  i = j
    <3>1. i \in 1 .. Len(wire) /\ j \in 1 .. Len(wire)  BY <1>1, <1>2, <1>4, <2>2
    <3>q. QED BY <1>0, <1>2, <2>2, <3>1 DEF ApproveOK
  <2>3. phase \notin {"closing", "finishing", "ending", "over"}  BY <1>1 DEF Running
  <2>q. QED BY <1>0, <1>1, <1>2, <1>5, <2>1, <2>2, <2>3 DEF ApproveOK
<1>q. QED BY <1>2, <1>3, <1>6, <1>8, <1>9, <1>10, <1>11, <1>12, <1>13

LEMMA DrainTextKeeps ==
    ASSUME Full, NEW from \in {"texts", "lastTexts"}, DrainText(from)
    PROVE  Typed' /\ StreamOK'
<1>0. Typed /\ EndOK /\ CountOK /\ OrderOK /\ texts \in Nat /\ spoken \in Nat
  BY ChatAssumption DEF Full, StreamOK, Inv, TypeOK
<1>1. /\ Deliver(Text) /\ phase \in {"texts", "lastTexts"} /\ script = <<>> /\ texts > 0
      /\ texts' = texts - 1
      /\ UNCHANGED <<turn, prior, phase, script, graph, round, said, prepared, call, spoken, queue>>
  BY DEF DrainText, turns, messages
<1>2. Text \in Chunk /\ Text.kind = "text"  BY Chunks DEF Text
<1>3. ~IsEvent(Text)  BY <1>2 DEF IsEvent
<1>4. phase \in DrainPhases  BY <1>1 DEF DrainPhases
<1>5. /\ wire' \in Seq(Chunk) /\ held' = held
      /\ Len(wire) \in Nat /\ Len(wire') = Len(wire) + 1 /\ wire'[Len(wire) + 1] = Text
      /\ \A i \in 1 .. Len(wire) : wire'[i] = wire[i]
      /\ ScriptOK' /\ WireOK' /\ HeldOK' /\ SaidOK' /\ HistOK' /\ AskOK' /\ ApproveOK'
  BY <1>1, <1>2, <1>3, <1>4, DrainedKeeps
<1>6. Typed'  BY <1>0, <1>1, <1>5 DEF Typed
<1>7. EndOK'  BY <1>0, <1>1 DEF EndOK
<1>8. CountOK'
  <2>0. DOMAIN wire = 1 .. Len(wire) /\ DOMAIN wire' = 1 .. Len(wire')
    BY <1>0, <1>5, Elements DEF Typed
  <2>1. Sent("text") = {i \in 1 .. Len(wire) : wire[i].kind = "text"}  BY <2>0 DEF Sent
  <2>2. Sent("text")' = Sent("text") \cup {Len(wire) + 1}
    <3>1. Sent("text")' = {i \in 1 .. Len(wire) + 1 : wire'[i].kind = "text"}  BY <1>5, <2>0 DEF Sent
    <3>2. \A i \in 1 .. Len(wire) + 1 : i \in 1 .. Len(wire) \/ i = Len(wire) + 1  BY <1>5
    <3>3. Len(wire) + 1 \in 1 .. Len(wire) + 1 /\ \A i \in 1 .. Len(wire) : i \in 1 .. Len(wire) + 1
      BY <1>5
    <3>q. QED BY <1>2, <1>5, <2>1, <3>1, <3>2, <3>3
  <2>3. Len(wire) + 1 \notin Sent("text")
    <3>1. Len(wire) + 1 \notin 1 .. Len(wire)  BY <1>5
    <3>q. QED BY <2>1, <3>1
  <2>4. IsFiniteSet(Sent("text"))
    <3>1. IsFiniteSet(1 .. Len(wire))  BY <1>5, FS_Interval
    <3>q. QED BY <2>1, <3>1, FS_Subset
  <2>5. Cardinality(Sent("text")') = Cardinality(Sent("text")) + 1 /\ Cardinality(Sent("text")) \in Nat
    BY <2>2, <2>3, <2>4, FS_AddElement, FS_CardinalityType
  <2>6. Cardinality(Sent("text")) + texts = spoken  BY <1>0, <1>1 DEF CountOK
  <2>7. Cardinality(Sent("text")') + texts' = spoken'  BY <1>0, <1>1, <2>5, <2>6
  <2>q. QED BY <2>7 DEF CountOK
<1>9. OrderOK'
  <2>1. \A k \in 1 .. Len(wire) : k \in 1 .. Len(wire') /\ wire'[k] = wire[k]  BY <1>5
  <2>2. \A c : (Started(c) => Started(c)') /\ \A end : InOrder(c, end) => InOrder(c, end)'
    BY <1>1, <2>1 DEF Started, InOrder, Says, IsEvent
  <2>q. QED BY <1>0, <1>1, <2>2 DEF OrderOK
<1>q. QED BY <1>5, <1>6, <1>7, <1>8, <1>9 DEF StreamOK

LEMMA DrainEventKeeps ==
    ASSUME Full, NEW from \in {"events", "lastEvents", "failedEvents"}, DrainEvent(from)
    PROVE  Typed' /\ StreamOK'
<1> DEFINE chunk == Head(queue)
<1>0. Typed /\ EndOK /\ CountOK /\ OrderOK  BY DEF Full, StreamOK
<1>1. /\ Deliver(chunk) /\ phase \in {"events", "lastEvents", "failedEvents"} /\ script = <<>>
      /\ queue # <<>> /\ queue' = Tail(queue)
      /\ UNCHANGED <<turn, prior, phase, script, graph, round, said, prepared, call, spoken, texts>>
  BY DEF DrainEvent, turns, messages, content
<1>2. /\ chunk \in Queued /\ chunk = queue[1] /\ queue' \in Seq(Queued) /\ Len(queue) \in Nat \ {0}
      /\ Len(queue') = Len(queue) - 1
      /\ \A i \in 1 .. Len(queue) - 1 : queue'[i] = queue[i + 1]
  BY <1>0, <1>1, Consumed DEF Typed
<1> HIDE DEF chunk
<1>3. chunk \in Chunk /\ chunk.kind = "activity" /\ chunk.by \in Call \cup {Graph}
  BY <1>2, Chunks DEF Queued
<1>4. chunk.by # Main  BY <1>3, ChatAssumption DEF Main, Graph
<1>5. phase \in DrainPhases  BY <1>1 DEF DrainPhases
<1>6. /\ wire' \in Seq(Chunk) /\ held' = held
      /\ Len(wire) \in Nat /\ Len(wire') = Len(wire) + 1 /\ wire'[Len(wire) + 1] = chunk
      /\ \A i \in 1 .. Len(wire) : wire'[i] = wire[i]
      /\ ScriptOK' /\ WireOK' /\ HeldOK' /\ SaidOK' /\ HistOK' /\ AskOK' /\ ApproveOK'
  BY <1>1, <1>3, <1>4, <1>5, DrainedKeeps
<1>7. Typed'  BY <1>0, <1>1, <1>2, <1>6 DEF Typed
<1>8. EndOK'  BY <1>0, <1>1 DEF EndOK
<1>9. CountOK'
  <2>0. DOMAIN wire = 1 .. Len(wire) /\ DOMAIN wire' = 1 .. Len(wire')
    BY <1>0, <1>6, Elements DEF Typed
  <2>1. Sent("text") = {i \in 1 .. Len(wire) : wire[i].kind = "text"}  BY <2>0 DEF Sent
  <2>2. Sent("text")' = Sent("text")
    <3>1. Sent("text")' = {i \in 1 .. Len(wire) + 1 : wire'[i].kind = "text"}  BY <1>6, <2>0 DEF Sent
    <3>2. \A i \in 1 .. Len(wire) + 1 : i \in 1 .. Len(wire) \/ i = Len(wire) + 1  BY <1>6
    <3>3. \A i \in 1 .. Len(wire) : i \in 1 .. Len(wire) + 1  BY <1>6
    <3>q. QED BY <1>3, <1>6, <2>1, <3>1, <3>2, <3>3
  <2>q. QED BY <1>0, <1>1, <2>2 DEF CountOK
<1>10. OrderOK'
  <2>1. \A k \in 1 .. Len(wire) : k \in 1 .. Len(wire') /\ wire'[k] = wire[k]  BY <1>6
  <2>2. Len(wire) + 1 \in 1 .. Len(wire') /\ wire'[Len(wire) + 1] = queue[1]  BY <1>2, <1>6
  <2>3. \A k \in 1 .. Len(queue) : k = 1 \/ (k - 1 \in 1 .. Len(queue') /\ queue'[k - 1] = queue[k])
    <3> SUFFICES ASSUME NEW k \in 1 .. Len(queue), k # 1
                 PROVE  k - 1 \in 1 .. Len(queue') /\ queue'[k - 1] = queue[k]
      OBVIOUS
    <3>1. k - 1 \in 1 .. Len(queue) - 1 /\ (k - 1) + 1 = k  BY <1>2
    <3>q. QED BY <1>2, <3>1
  <2>4. ASSUME NEW c, Started(c) PROVE Started(c)'
    <3>1. CASE \E i \in 1 .. Len(wire) : Says(wire[i], c, "started")
      BY <2>1, <3>1 DEF Started, Says, IsEvent
    <3>2. CASE \E i \in 1 .. Len(queue) : Says(queue[i], c, "started")
      BY <2>2, <2>3, <3>2 DEF Started, Says, IsEvent
    <3>q. QED BY <2>4, <3>1, <3>2 DEF Started
  <2>5. ASSUME NEW c, NEW end, InOrder(c, end) PROVE InOrder(c, end)'
    <3>1. CASE \E i, j \in 1 .. Len(wire) : i < j /\ Says(wire[i], c, "started") /\ Says(wire[j], c, end)
      BY <2>1, <3>1 DEF InOrder, Says, IsEvent
    <3>2. CASE \E i \in 1 .. Len(wire), j \in 1 .. Len(queue) :
                  Says(wire[i], c, "started") /\ Says(queue[j], c, end)
      <4>1. PICK i \in 1 .. Len(wire), j \in 1 .. Len(queue) :
                  Says(wire[i], c, "started") /\ Says(queue[j], c, end)
        BY <3>2
      <4>2. CASE j = 1
        <5>1. i < Len(wire) + 1  BY <1>6
        <5>2. Says(wire'[i], c, "started") /\ Says(wire'[Len(wire) + 1], c, end)
          BY <2>1, <2>2, <4>1, <4>2
        <5>q. QED BY <2>1, <2>2, <5>1, <5>2 DEF InOrder, Says, IsEvent
      <4>3. CASE j # 1
        <5>1. j - 1 \in 1 .. Len(queue') /\ Says(queue'[j - 1], c, end)
          BY <2>3, <4>1, <4>3
        <5>q. QED BY <2>1, <4>1, <5>1 DEF InOrder, Says, IsEvent
      <4>q. QED BY <4>2, <4>3
    <3>3. CASE \E i, j \in 1 .. Len(queue) : i < j /\ Says(queue[i], c, "started") /\ Says(queue[j], c, end)
      <4>1. PICK i \in 1 .. Len(queue), j \in 1 .. Len(queue) :
                  i < j /\ Says(queue[i], c, "started") /\ Says(queue[j], c, end)
        BY <3>3
      <4>2. j # 1 /\ j - 1 \in 1 .. Len(queue') /\ Says(queue'[j - 1], c, end)
        <5>1. j # 1  BY <4>1
        <5>q. QED BY <2>3, <4>1, <5>1
      <4>3. CASE i = 1
        <5>1. Says(wire'[Len(wire) + 1], c, "started")  BY <2>2, <4>1, <4>3
        <5>q. QED BY <2>2, <4>2, <5>1 DEF InOrder, Says, IsEvent
      <4>4. CASE i # 1
        <5>1. i - 1 \in 1 .. Len(queue') /\ Says(queue'[i - 1], c, "started") /\ i - 1 < j - 1
          BY <2>3, <4>1, <4>4
        <5>q. QED BY <4>2, <5>1 DEF InOrder, Says, IsEvent
      <4>q. QED BY <4>3, <4>4
    <3>q. QED BY <2>5, <3>1, <3>2, <3>3 DEF InOrder
  <2>q. QED BY <1>0, <1>1, <2>4, <2>5 DEF OrderOK
<1>q. QED BY <1>6, <1>7, <1>8, <1>9, <1>10 DEF StreamOK

-----------------------------------------------------------------------------
(* The handler goes on to another phase.                                   *)

LEMMA StillSaid ==
    ASSUME UNCHANGED <<prior, graph, said, round, call, prepared>>, SaidOK
    PROVE  /\ SaidOK' /\ Wanted' = Wanted
           /\ \A msgs : Whole(msgs)' <=> Whole(msgs)
<1>1. SaidOK'  BY DEF SaidOK, IsTool
<1>2. Wanted' = Wanted  BY DEF Wanted, CalledNow
<1>3. Serialize(prior \o said)' = Serialize(prior \o said)  BY DEF Serialize, Message
<1>4. \A msgs : Whole(msgs)' <=> Whole(msgs)  BY <1>3 DEF Whole
<1>q. QED BY <1>1, <1>2, <1>4

LEMMA StillOrdered ==
    ASSUME OrderOK, phase # "gone", UNCHANGED <<wire, queue, call>>
    PROVE  OrderOK'
<1>1. \A c : (Started(c) => Started(c)') /\ \A end : InOrder(c, end) => InOrder(c, end)'
  BY DEF Started, InOrder, Says, IsEvent
<1>q. QED BY <1>1 DEF OrderOK

\* A move that neither asks nor closes anything: the histories it yields are the
\* one the host sent.
LEMMA QuietMove ==
    ASSUME Full, NEW to \in Running \cup {"ending"}, NEW then \in Seq(Chunk), Fits(to, then),
           phase \in Running, script = <<>>, phase' = to, script' = then,
           UNCHANGED <<turn, prior, held, awaiting, wire, prepared, call, spoken, texts, queue>>,
           \A chunk \in Range(then) : IsHistory(chunk) => chunk.messages = prior,
           said' \in Seq(Said), SaidOK', EndOK', to = "ending" => graph' # "ended"
    PROVE  Typed' /\ StreamOK'
<1>0. Typed /\ ScriptOK /\ WireOK /\ HeldOK /\ HistOK /\ AskOK /\ ApproveOK /\ CountOK /\ OrderOK
  BY DEF Full, StreamOK
<1>1. /\ to \notin {"over", "gone", "closing", "finishing"} /\ phase # "gone"
  BY DEF Running
<1>2. Range(script) = {}  BY Tuple0
<1>3. \A x \in Range(wire) : ~IsHistory(x) /\ ~RequiresInput(x) /\ ~Ends(x)
  BY <1>0 DEF WireOK, Running
<1>4. \A x \in Range(then) : ~RequiresInput(x) /\ ~Ends(x) /\ (IsHistory(x) => to = "ending")
  BY <1>1 DEF Fits
<1>5. \A x : RequiresInput(x) <=> IsApproval(x) \/ Asking(x)
  BY DEF RequiresInput, IsApproval, Asking
<1>6. Range(wire') = Range(wire) /\ Range(script') = Range(then) /\ Range(held') = Range(held)
  OBVIOUS
<1>7. Typed'  BY <1>0 DEF Typed
<1>8. ScriptOK'  BY <1>1 DEF ScriptOK
<1>9. WireOK'
  <2>1. Len(wire) \in Nat /\ Range(wire) = {wire[i] : i \in 1 .. Len(wire)}
    BY <1>0, Elements DEF Typed
  <2>2. \A i \in 1 .. Len(wire) : ~IsHistory(wire[i])  BY <1>3, <2>1
  <2>q. QED BY <1>1, <1>3, <1>6, <2>2 DEF WireOK
<1>10. HeldOK'
  <2>1. held' = <<>>  BY <1>0 DEF HeldOK
  <2>2. Range(held') = {}  BY <2>1, Tuple0
  <2>q. QED BY <1>1, <1>3, <1>6, <2>1, <2>2 DEF HeldOK, Running
<1>11. HistOK'
  <2>1. held = <<>>  BY <1>0 DEF HeldOK
  <2>2. Range(held) = {}  BY <2>1, Tuple0
  <2>3. ASSUME NEW x \in Range(wire') \cup Range(script') \cup Range(held'), IsHistory(x)
        PROVE  x.messages = prior'
    BY <1>3, <1>6, <2>2, <2>3
  <2>q. QED BY <2>3 DEF HistOK, Whole
<1>12. AskOK'
  <2>1. awaiting' <=> \E x \in Range(wire') : RequiresInput(x)  BY <1>0, <1>1, <1>6 DEF AskOK
  <2>2. \A x \in Range(wire') \cup Range(script') :
           ~IsApproval(x) /\ ~Asking(x) /\ ~Says(x, Main, "run.awaiting_input")
           /\ ~Says(x, Main, "run.completed")
    BY <1>3, <1>4, <1>5, <1>6 DEF Ends
  <2>q. QED BY <2>1, <2>2 DEF AskOK
<1>13. ApproveOK'
  <2>1. \A x \in Range(wire') \cup Range(script') : ~IsApproval(x)  BY <1>3, <1>4, <1>5, <1>6
  <2>2. /\ Range(wire') = {wire'[i] : i \in 1 .. Len(wire')}
        /\ Range(script') = {script'[i] : i \in 1 .. Len(script')}
    <3>1. wire' \in Seq(Chunk) /\ script' \in Seq(Chunk)  BY <1>7 DEF Typed
    <3>q. QED BY <3>1, Elements
  <2>3. ~(graph' = "ended" /\ phase' \in {"closing", "finishing", "ending", "over"})  BY <1>1
  <2>q. QED BY <2>1, <2>2, <2>3 DEF ApproveOK
<1>14. CountOK'  BY <1>0, <1>1 DEF CountOK, Sent
<1>15. OrderOK'  BY <1>0, <1>1, StillOrdered
<1>q. QED BY <1>7, <1>8, <1>9, <1>10, <1>11, <1>12, <1>13, <1>14, <1>15 DEF StreamOK

\* The closing script, of a turn that succeeded or not.
LEMMA ClosingMove ==
    ASSUME Full, NEW then \in Seq(Chunk), Fits("closing", then), then # <<>>,
           IsHistory(then[Len(then)]),
           phase \in {"lastEvents", "failedEvents"}, script = <<>>, queue = <<>>,
           phase' = "closing", script' = then,
           UNCHANGED <<turn, prior, held, awaiting, wire, graph, round, said, prepared, call,
                       spoken, texts, queue>>,
           \A chunk \in Range(then) : IsHistory(chunk) => Whole(chunk.messages),
           (\E chunk \in Range(then) : IsApproval(chunk)) <=> (\E chunk \in Range(then) : Asking(chunk)),
           \A chunk \in Range(then) : IsApproval(chunk) => chunk.about \in Wanted,
           \A i, j \in 1 .. Len(then) :
              IsApproval(then[i]) /\ IsApproval(then[j]) /\ then[i].about = then[j].about => i = j,
           graph = "ended" =>
              \A c \in Wanted : \E chunk \in Range(then) : IsApproval(chunk) /\ chunk.about = c
    PROVE  Typed' /\ StreamOK'
<1>0. Typed /\ ScriptOK /\ WireOK /\ HeldOK /\ EndOK /\ SaidOK /\ HistOK /\ AskOK /\ ApproveOK
      /\ CountOK /\ OrderOK
  BY DEF Full, StreamOK
<1>1. phase \in Running /\ "closing" \notin Running \cup {"gone", "over", "ending", "finishing"}
  BY DEF Running
<1>2. Range(script) = {}  BY Tuple0
<1>3. \A x \in Range(wire) : ~IsHistory(x) /\ ~RequiresInput(x) /\ ~Ends(x)
  BY <1>0, <1>1 DEF WireOK, Running
<1>4. \A x \in Range(then) : ~Ends(x)  BY DEF Fits
<1>5. \A x : RequiresInput(x) <=> IsApproval(x) \/ Asking(x)
  BY DEF RequiresInput, IsApproval, Asking
<1>6. Range(wire') = Range(wire) /\ Range(script') = Range(then) /\ Range(held') = Range(held)
  OBVIOUS
<1>7. Typed'  BY <1>0 DEF Typed
<1>8. ScriptOK'  BY DEF ScriptOK
<1>a. Len(wire) \in Nat /\ Range(wire) = {wire[i] : i \in 1 .. Len(wire)}
  BY <1>0, Elements DEF Typed
<1>9. WireOK'
  <2>2. \A i \in 1 .. Len(wire) : ~IsHistory(wire[i])  BY <1>3, <1>a
  <2>q. QED BY <1>1, <1>3, <1>6, <2>2 DEF WireOK
<1>h. held = <<>>  BY <1>0, <1>1 DEF HeldOK
<1>10. HeldOK'
  <2>2. Range(held') = {}  BY <1>h, Tuple0
  <2>q. QED BY <1>1, <1>h, <2>2 DEF HeldOK
<1>11. EndOK'  BY <1>0 DEF EndOK
<1>12. SaidOK' /\ Wanted' = Wanted /\ \A msgs : Whole(msgs)' <=> Whole(msgs)
  BY <1>0, StillSaid
<1>13. HistOK'
  <2>1. Range(held) = {}  BY <1>h, Tuple0
  <2>2. ASSUME NEW x \in Range(wire') \cup Range(script') \cup Range(held'), IsHistory(x)
        PROVE  Whole(x.messages)'
    <3>1. x \in Range(then)  BY <1>3, <1>6, <2>1, <2>2
    <3>2. Whole(x.messages)  BY <2>2, <3>1
    <3>q. QED BY <1>12, <3>2
  <2>q. QED BY <2>2 DEF HistOK
<1>14. AskOK'
  <2>1. awaiting' <=> \E x \in Range(wire') : RequiresInput(x)  BY <1>0, <1>1, <1>6 DEF AskOK
  <2>2. \A x \in Range(wire') \cup Range(script') :
           ~Says(x, Main, "run.awaiting_input") /\ ~Says(x, Main, "run.completed")
    BY <1>3, <1>4, <1>6 DEF Ends
  <2>q. QED BY <1>3, <1>5, <1>6, <2>1, <2>2 DEF AskOK
<1>15. ApproveOK'
  <2>1. \A x \in Range(wire) : ~IsApproval(x)  BY <1>3, <1>5
  <2>2. \A i \in 1 .. Len(wire) : ~IsApproval(wire[i])  BY <1>a, <2>1
  <2>q. QED BY <1>6, <1>12, <2>1, <2>2 DEF ApproveOK
<1>16. CountOK'  BY <1>0, <1>1 DEF CountOK, Sent
<1>17. OrderOK'  BY <1>0, StillOrdered
<1>q. QED BY <1>7, <1>8, <1>9, <1>10, <1>11, <1>12, <1>13, <1>14, <1>15, <1>16, <1>17 DEF StreamOK

LEMMA CloseKeeps ==
    ASSUME Full, Close  PROVE Typed' /\ StreamOK'
<1>0. Typed /\ SaidOK /\ EndOK  BY DEF Full, StreamOK
<1>1. /\ phase = "lastEvents" /\ script = <<>> /\ queue = <<>>
      /\ phase' = "closing" /\ script' = Closing(Result)
      /\ UNCHANGED <<turn, prior, held, awaiting, wire, graph, round, said, prepared, call,
                     spoken, texts, queue>>
  BY DEF Close, Proceed, Aside, turns, messages, content
<1>2. graph = "ended"  BY <1>0, <1>1 DEF EndOK
<1>3. /\ prior \in Seq(Said) /\ said \in Seq(Said)
      /\ \A i \in 1 .. Len(prior) : prior[i].role # "tool"
  <2>1. Plain \subseteq Said /\ \A x \in Plain : x.role # "tool"  BY DEF Plain, Said
  <2>2. prior \in Seq(Plain)  BY <1>0 DEF Typed
  <2>3. \A i \in 1 .. Len(prior) : prior[i] \in Plain  BY <2>2, ElementOfSeq
  <2>4. prior \in Seq(Said)  BY <2>1, <2>2
  <2>q. QED BY <1>0, <2>1, <2>3, <2>4 DEF Typed
<1> DEFINE msgs == Result
           m == Len(prior)
           n == Len(said)
<1>4. /\ msgs \in Seq(Said) /\ Len(msgs) = m + n /\ m \in Nat /\ n \in Nat
      /\ \A i \in 1 .. m : msgs[i] = prior[i]
      /\ \A i \in 1 .. n : msgs[m + i] = said[i]
  <2>1. msgs = prior \o said  BY DEF Result
  <2>2. m \in Nat /\ n \in Nat  BY <1>3, Elements
  <2> HIDE DEF msgs
  <2>q. QED BY <1>3, <2>1, <2>2, Concatenated
<1> HIDE DEF msgs, m, n
\* The tools' messages are those of this turn.
<1>5. \A i \in 1 .. Len(msgs) : msgs[i].role = "tool" =>
         i - m \in 1 .. n /\ msgs[i] = said[i - m]
  <2> SUFFICES ASSUME NEW i \in 1 .. Len(msgs), msgs[i].role = "tool"
               PROVE  i - m \in 1 .. n /\ msgs[i] = said[i - m]
    OBVIOUS
  <2>1. i \notin 1 .. m  BY <1>3, <1>4 DEF m
  <2>2. i - m \in 1 .. n /\ m + (i - m) = i  BY <1>4, <2>1
  <2>q. QED BY <1>4, <2>2
<1>6. \A i \in 1 .. n : m + i \in 1 .. Len(msgs) /\ msgs[m + i] = said[i]  BY <1>4
<1>7. Telling(msgs)
  <2> SUFFICES ASSUME NEW i \in 1 .. Len(msgs), msgs[i].role = "tool"
               PROVE  /\ msgs[i].about \in Call
                      /\ \A j \in 1 .. Len(msgs) :
                            msgs[j].role = "tool" /\ msgs[i].about = msgs[j].about => i = j
    BY DEF Telling
  <2>1. i - m \in 1 .. n /\ msgs[i] = said[i - m] /\ IsTool(i - m)  BY <1>5 DEF IsTool
  <2>2. msgs[i].about \in Call  BY <1>0, <2>1 DEF SaidOK, n
  <2>3. ASSUME NEW j \in 1 .. Len(msgs), msgs[j].role = "tool", msgs[i].about = msgs[j].about
        PROVE  i = j
    <3>1. j - m \in 1 .. n /\ msgs[j] = said[j - m] /\ IsTool(j - m)  BY <1>5, <2>3 DEF IsTool
    <3>2. i - m = j - m  BY <1>0, <2>1, <2>3, <3>1 DEF SaidOK, n
    <3>q. QED BY <1>4, <3>2
  <2>q. QED BY <2>2, <2>3
<1>8. \A c : (\E i \in 1 .. Len(msgs) : IsPending(msgs[i]) /\ msgs[i].about = c) <=> c \in Wanted
  <2>0. DOMAIN said = 1 .. n  BY <1>3, Elements DEF n
  <2>1. \A c : c \in Wanted <=> (\E i \in 1 .. n : said[i].role = "tool" /\ said[i].about = c) /\ c \in prepared
    BY <2>0 DEF Wanted, CalledNow
  <2>2. ASSUME NEW i \in 1 .. Len(msgs), IsPending(msgs[i]) PROVE msgs[i].about \in Wanted
    <3>1. msgs[i].role = "tool" /\ msgs[i].about \in prepared  BY <2>2 DEF IsPending
    <3>q. QED BY <1>5, <2>1, <3>1
  <2>3. ASSUME NEW c \in Wanted
        PROVE  \E i \in 1 .. Len(msgs) : IsPending(msgs[i]) /\ msgs[i].about = c
    <3>1. PICK i \in 1 .. n : said[i].role = "tool" /\ said[i].about = c  BY <2>1
    <3>2. IsPending(msgs[m + i])  BY <1>6, <2>1, <3>1 DEF IsPending
    <3>q. QED BY <1>6, <3>1, <3>2
  <2>q. QED BY <2>2, <2>3
<1> DEFINE s == Closing(msgs)
<1>9. /\ s \in Seq(Chunk) /\ Fits("closing", s)
      /\ s # <<>> /\ IsHistory(s[Len(s)])
      /\ \A chunk \in Range(s) : IsHistory(chunk) => chunk.messages = Serialize(msgs)
      /\ (\E chunk \in Range(s) : IsApproval(chunk)) <=> (\E chunk \in Range(s) : Asking(chunk))
      /\ \A chunk \in Range(s) : IsApproval(chunk) =>
            \E i \in 1 .. Len(msgs) : IsPending(msgs[i]) /\ msgs[i].about = chunk.about
      /\ \A i \in 1 .. Len(msgs) : IsPending(msgs[i]) =>
            \E chunk \in Range(s) : IsApproval(chunk) /\ chunk.about = msgs[i].about
      /\ \A i, j \in 1 .. Len(s) :
            IsApproval(s[i]) /\ IsApproval(s[j]) /\ s[i].about = s[j].about => i = j
  BY <1>4, <1>7, ClosingScript
<1> HIDE DEF s
<1>10. Whole(Serialize(msgs))
  <2>1. said[Len(said)].role = "assistant"  BY <1>0, <1>2 DEF SaidOK
  <2>q. QED BY <1>2, <2>1 DEF Whole, msgs, Result
<1>11. \A chunk \in Range(s) : IsHistory(chunk) => Whole(chunk.messages)  BY <1>9, <1>10
<1>12. \A chunk \in Range(s) : IsApproval(chunk) => chunk.about \in Wanted  BY <1>8, <1>9
<1>13. \A c \in Wanted : \E chunk \in Range(s) : IsApproval(chunk) /\ chunk.about = c
  BY <1>8, <1>9
<1>14. script' = s  BY <1>1 DEF s, msgs
<1>15. phase \in {"lastEvents", "failedEvents"}  BY <1>1
<1>q. QED BY <1>1, <1>9, <1>11, <1>12, <1>13, <1>14, <1>15, ClosingMove

LEMMA ApologiseKeeps ==
    ASSUME Full, Apologise  PROVE Typed' /\ StreamOK'
<1>0. Typed /\ EndOK  BY DEF Full, StreamOK
<1> DEFINE s == <<Activity("execution.failed"), Content(FALSE), History(prior)>>
<1>1. /\ phase = "failedEvents" /\ script = <<>> /\ queue = <<>>
      /\ phase' = "closing" /\ script' = s
      /\ UNCHANGED <<turn, prior, held, awaiting, wire, graph, round, said, prepared, call,
                     spoken, texts, queue>>
  BY DEF Apologise, Proceed, Aside, turns, messages, content
<1>2. graph = "failed"  BY <1>0, <1>1 DEF EndOK
<1>3. /\ s \in Seq(Chunk) /\ Fits("closing", s)
      /\ Len(s) = 3 /\ s[3] = History(prior)
      /\ \A chunk \in Range(s) : /\ IsHistory(chunk) => chunk.messages = prior
                                 /\ ~IsApproval(chunk) /\ ~Asking(chunk)
  BY <1>0, Apologised DEF Typed
<1> HIDE DEF s
<1>4. s # <<>> /\ IsHistory(s[Len(s)])
  <2>1. IsHistory(History(prior))  BY DEF History, IsHistory
  <2>q. QED BY <1>3, <2>1, Tuple0
<1>5. \A chunk \in Range(s) : IsHistory(chunk) => Whole(chunk.messages)  BY <1>3 DEF Whole
<1>6. \A i \in 1 .. Len(s) : ~IsApproval(s[i])
  <2>1. Range(s) = {s[i] : i \in 1 .. Len(s)}  BY <1>3, Elements
  <2>q. QED BY <1>3, <2>1
<1>7. phase \in {"lastEvents", "failedEvents"} /\ graph # "ended"  BY <1>1, <1>2
<1>q. QED BY <1>1, <1>3, <1>4, <1>5, <1>6, <1>7, ClosingMove

-----------------------------------------------------------------------------
(* The handler closes the run.                                             *)

\* The finishing script: the event that closes the run, and the held history.
LEMMA FinishKeeps ==
    ASSUME Full, Finish  PROVE Typed' /\ StreamOK'
<1> DEFINE a == Activity(IF awaiting THEN "run.awaiting_input" ELSE "run.completed")
           s == <<a>> \o held
<1>0. Typed /\ ScriptOK /\ WireOK /\ HeldOK /\ EndOK /\ SaidOK /\ HistOK /\ AskOK /\ ApproveOK
      /\ CountOK /\ OrderOK
  BY DEF Full, StreamOK
<1>1. /\ phase = "closing" /\ script = <<>> /\ phase' = "finishing" /\ script' = s
      /\ UNCHANGED <<turn, prior, held, awaiting, wire, graph, round, said, prepared, call,
                     spoken, texts, queue>>
  BY DEF Finish, Proceed, Aside, turns, messages, content
<1>2. /\ a \in Chunk /\ a.kind = "activity" /\ a.by = Main /\ ~IsHistory(a) /\ ~RequiresInput(a)
      /\ ~IsApproval(a) /\ ~Asking(a) /\ Ends(a)
      /\ Says(a, Main, "run.awaiting_input") <=> awaiting
      /\ Says(a, Main, "run.completed") <=> ~awaiting
  <2>1. awaiting \in BOOLEAN  BY DEF Full, Inv, TypeOK
  <2>2. CASE awaiting
    BY <2>2 DEF Activity, Event, Chunk, Reports, IsHistory, RequiresInput, IsApproval, Asking,
                Ends, Says, IsEvent
  <2>3. CASE ~awaiting
    BY <2>3 DEF Activity, Event, Chunk, Reports, IsHistory, RequiresInput, IsApproval, Asking,
                Ends, Says, IsEvent
  <2>q. QED BY <2>2, <2>3
<1> HIDE DEF a
<1>3. held # <<>> /\ held \in Seq(Chunk) /\ Len(held) = 1
  <2>1. held # <<>> /\ held \in Seq(Chunk)  BY <1>0, <1>1 DEF HeldOK, Typed
  <2>2. Len(held) \in Nat /\ Len(held) # 0  BY <2>1, Elements, EmptySeq
  <2>3. Len(held) <= 1  BY DEF Full, Inv, TypeOK
  <2> DEFINE k == Len(held)
  <2>4. k \in Nat /\ k # 0 /\ k <= 1  BY <2>2, <2>3
  <2> HIDE DEF k
  <2>5. k = 1  BY <2>4
  <2>6. Len(held) = 1  BY <2>5 DEF k
  <2>q. QED BY <2>1, <2>6
<1>4. /\ <<a>> \in Seq(Chunk) /\ Len(<<a>>) = 1 /\ Range(<<a>>) = {a} /\ <<a>>[1] = a
  BY <1>2, Tuple1
<1>5. /\ s \in Seq(Chunk) /\ Len(s) = 2 /\ Range(s) = {a} \cup Range(held)
      /\ s[1] = a /\ s[2] = held[1]
  <2> DEFINE b == <<a>>
  <2> HIDE DEF b
  <2>1. b \in Seq(Chunk) /\ held \in Seq(Chunk)  BY <1>3, <1>4 DEF b
  <2>2. /\ b \o held \in Seq(Chunk) /\ Len(b \o held) = Len(b) + Len(held)
        /\ \A i \in 1 .. Len(b) : (b \o held)[i] = b[i]
        /\ \A i \in 1 .. Len(held) : (b \o held)[Len(b) + i] = held[i]
        /\ Range(b \o held) = Range(b) \cup Range(held)
    BY <2>1, Concatenated
  <2>3. s = b \o held  BY DEF b
  <2> HIDE DEF s
  <2>4. Len(b) = 1 /\ b[1] = a /\ Range(b) = {a} /\ 1 \in 1 .. Len(b)  BY <1>4 DEF b
  <2>5. 1 \in 1 .. Len(held) /\ Len(b) + 1 = 2  BY <1>3, <2>4
  <2>6. s[2] = held[1]  BY <2>2, <2>3, <2>5
  <2>7. s[1] = a  BY <2>2, <2>3, <2>4
  <2>q. QED BY <1>3, <2>2, <2>3, <2>4, <2>6, <2>7
<1> HIDE DEF s
<1>6. /\ Range(held) = {held[1]} /\ IsHistory(held[1])
  <2>1. Range(held) = {held[i] : i \in 1 .. Len(held)}  BY <1>3, Elements
  <2>2. Range(held) = {held[1]}  BY <1>3, <2>1
  <2>q. QED BY <1>0, <2>2 DEF HeldOK
<1>7. \A x \in Range(held) : /\ x.kind = "history" /\ ~IsEvent(x) /\ ~RequiresInput(x)
                             /\ ~IsApproval(x) /\ ~Asking(x) /\ ~Ends(x)
                             /\ \A what : ~Says(x, Main, what)
  BY <1>6 DEF IsHistory, IsEvent, RequiresInput, IsApproval, Asking, Ends, Says
<1>8. Range(wire') = Range(wire) /\ Range(script') = Range(s) /\ Range(held') = Range(held)
      /\ Range(script) = {}
  BY <1>1, Tuple0
<1>a. Len(wire) \in Nat /\ Range(wire) = {wire[i] : i \in 1 .. Len(wire)}
  BY <1>0, Elements DEF Typed
<1>w. \A x \in Range(wire) : ~IsHistory(x) /\ ~Ends(x)  BY <1>0, <1>1 DEF WireOK
<1>9. Typed'  BY <1>0, <1>1, <1>5 DEF Typed
<1>10. ScriptOK'
  <2>1. "finishing" \notin Running  BY DEF Running
  <2>2. ASSUME NEW x \in Range(s)
        PROVE  /\ x.kind \notin {"text", "done"}
               /\ IsEvent(x) => x.by = Main
               /\ ~RequiresInput(x)
    BY <1>2, <1>5, <1>7
  <2>3. \A i \in 1 .. Len(s) - 1 : ~IsHistory(s[i])
    <3>1. \A i \in 1 .. Len(s) - 1 : i = 1  BY <1>5
    <3>q. QED BY <1>2, <1>5, <3>1
  <2>q. QED BY <1>1, <2>1, <2>2, <2>3 DEF ScriptOK, Fits
<1>11. WireOK'
  <2>1. \A i \in 1 .. Len(wire) : ~IsHistory(wire[i])  BY <1>a, <1>w
  <2>2. "finishing" \notin Running  BY DEF Running
  <2>q. QED BY <1>1, <1>8, <1>w, <2>1, <2>2 DEF WireOK
<1>12. HeldOK'
  <2>1. held[1] \in Range(script')  BY <1>5, <1>6, <1>8
  <2>2. "finishing" \notin Running  BY DEF Running
  <2>3. \A x \in Range(held') : IsHistory(x)  BY <1>6, <1>8
  <2>q. QED BY <1>1, <1>6, <2>1, <2>2, <2>3 DEF HeldOK
<1>13. EndOK'  BY <1>0, <1>1 DEF EndOK
<1>14. SaidOK' /\ Wanted' = Wanted /\ \A msgs : Whole(msgs)' <=> Whole(msgs)
  BY <1>0, <1>1, StillSaid
<1>15. HistOK'
  <2>1. ASSUME NEW x \in Range(wire') \cup Range(script') \cup Range(held'), IsHistory(x)
        PROVE  x \in Range(wire) \cup Range(script) \cup Range(held)
    BY <1>2, <1>5, <1>8, <2>1
  <2>q. QED BY <1>0, <1>14, <2>1 DEF HistOK
<1>16. AskOK'
  <2>1. awaiting' <=> \E x \in Range(wire') : RequiresInput(x)  BY <1>0, <1>1, <1>8 DEF AskOK
  <2>2. /\ (\E x \in Range(wire) : IsApproval(x)) <=> (\E x \in Range(wire) : Asking(x))
    BY <1>0, <1>1, <1>8 DEF AskOK
  <2>3. \A x \in Range(script') : ~IsApproval(x) /\ ~Asking(x)  BY <1>2, <1>5, <1>7, <1>8
  <2>4. ASSUME NEW x \in Range(wire') \cup Range(script')
        PROVE  /\ Says(x, Main, "run.awaiting_input") => awaiting
               /\ Says(x, Main, "run.completed") => ~awaiting
    <3>1. CASE x \in Range(wire)  BY <1>w, <3>1 DEF Ends
    <3>2. CASE x = a  BY <1>2, <3>2
    <3>3. CASE x \in Range(held)  BY <1>7, <3>3
    <3>q. QED BY <1>5, <1>8, <3>1, <3>2, <3>3
  <2>q. QED BY <1>1, <1>8, <2>1, <2>2, <2>3, <2>4 DEF AskOK
<1>17. ApproveOK'
  <2>1. \A x \in Range(script') : ~IsApproval(x)  BY <1>2, <1>5, <1>7, <1>8
  <2>2. \A i \in 1 .. Len(script') : ~IsApproval(script'[i])
    <3>1. Range(s) = {s[i] : i \in 1 .. Len(s)}  BY <1>5, Elements
    <3>q. QED BY <1>1, <1>8, <2>1, <3>1
  <2>3. ASSUME graph = "ended", NEW c \in Wanted
        PROVE  \E x \in Range(wire) : IsApproval(x) /\ x.about = c
    BY <1>0, <1>1, <1>8, <2>3 DEF ApproveOK
  <2>q. QED BY <1>0, <1>1, <1>8, <1>14, <2>1, <2>2, <2>3 DEF ApproveOK
<1>18. CountOK'  BY <1>0, <1>1 DEF CountOK, Sent
<1>19. OrderOK'  BY <1>0, <1>1, StillOrdered
<1>q. QED BY <1>9, <1>10, <1>11, <1>12, <1>13, <1>14, <1>15, <1>16, <1>17, <1>18, <1>19 DEF StreamOK

LEMMA ReleaseKeeps ==
    ASSUME Full, Release  PROVE Typed' /\ StreamOK'
<1>0. Typed /\ ScriptOK /\ WireOK /\ HeldOK /\ EndOK /\ SaidOK /\ HistOK /\ AskOK /\ ApproveOK
      /\ CountOK /\ OrderOK
  BY DEF Full, StreamOK
<1>1. /\ phase = "finishing" /\ script = <<>> /\ phase' = "ending" /\ script' = <<>>
      /\ UNCHANGED <<turn, prior, held, awaiting, wire, graph, round, said, prepared, call,
                     spoken, texts, queue>>
  BY DEF Release, Proceed, Aside, turns, messages, content
<1>2. "ending" \notin Running \cup {"closing", "finishing"}  BY DEF Running
<1>3. /\ Range(wire') = Range(wire) /\ Range(script') = {} /\ Range(script) = {}
      /\ Range(held') = Range(held) /\ Len(script') = 0 /\ script' = script
  BY <1>1, Tuple0
<1>4. Typed'  BY <1>0, <1>1 DEF Typed
<1>5. ScriptOK'
  <2>1. \A i \in 1 .. Len(script') - 1 : FALSE  BY <1>3
  <2>q. QED BY <1>1, <1>3, <2>1 DEF ScriptOK, Fits
<1>6. WireOK'  BY <1>0, <1>1, <1>2, <1>3 DEF WireOK
<1>7. HeldOK'
  <2>1. \E x \in Range(wire) : IsHistory(x)  BY <1>0, <1>1, <1>3 DEF HeldOK
  <2>q. QED BY <1>0, <1>1, <1>2, <1>3, <2>1 DEF HeldOK
<1>8. EndOK'  BY <1>0, <1>1 DEF EndOK
<1>9. SaidOK' /\ Wanted' = Wanted /\ \A msgs : Whole(msgs)' <=> Whole(msgs)
  BY <1>0, <1>1, StillSaid
<1>10. HistOK'  BY <1>0, <1>3, <1>9 DEF HistOK
<1>11. AskOK'  BY <1>0, <1>1, <1>3 DEF AskOK
<1>12. ApproveOK'  BY <1>0, <1>1, <1>3, <1>9 DEF ApproveOK
<1>13. CountOK'  BY <1>0, <1>1 DEF CountOK, Sent
<1>14. OrderOK'  BY <1>0, <1>1, StillOrdered
<1>q. QED BY <1>4, <1>5, <1>6, <1>7, <1>8, <1>9, <1>10, <1>11, <1>12, <1>13, <1>14 DEF StreamOK

LEMMA EndKeeps ==
    ASSUME Full, End  PROVE Typed' /\ StreamOK'
<1>0. Typed /\ ScriptOK /\ WireOK /\ HeldOK /\ EndOK /\ SaidOK /\ HistOK /\ AskOK /\ ApproveOK
      /\ CountOK /\ OrderOK
  BY DEF Full, StreamOK
<1>1. /\ phase = "ending" /\ script = <<>> /\ phase' = "over" /\ script' = <<>>
      /\ wire' = Append(wire, Finis)
      /\ UNCHANGED <<turn, prior, held, awaiting, graph, round, said, prepared, call,
                     spoken, texts, queue>>
  BY DEF End, Proceed, Aside, turns, messages, content
<1>2. "over" \notin Running \cup {"closing", "finishing", "ending"} /\ "ending" \notin Running
  BY DEF Running
<1>3. /\ Finis \in Chunk /\ Finis.kind = "done" /\ ~IsHistory(Finis) /\ ~RequiresInput(Finis)
      /\ ~IsApproval(Finis) /\ ~Asking(Finis) /\ ~Ends(Finis) /\ \A what : ~Says(Finis, Main, what)
  <2>1. Finis \in Chunk /\ Finis.kind = "done"  BY Chunks DEF Finis
  <2>q. QED BY <2>1 DEF IsHistory, RequiresInput, IsApproval, Asking, Ends, Says, IsEvent
<1>4. /\ wire' \in Seq(Chunk) /\ Len(wire') = Len(wire) + 1
      /\ \A i \in 1 .. Len(wire) : wire'[i] = wire[i]
      /\ wire'[Len(wire) + 1] = Finis /\ Range(wire') = Range(wire) \cup {Finis}
  BY <1>0, <1>1, <1>3, AppendedTo DEF Typed
<1>5. /\ Len(wire) \in Nat /\ DOMAIN wire = 1 .. Len(wire) /\ DOMAIN wire' = 1 .. Len(wire')
      /\ Range(wire) = {wire[i] : i \in 1 .. Len(wire)}
  BY <1>0, <1>4, Elements DEF Typed
<1>6. \A i \in 1 .. Len(wire') : i \in 1 .. Len(wire) \/ i = Len(wire) + 1  BY <1>4, <1>5
<1>7. Range(script') = {} /\ Range(script) = {} /\ Range(held') = Range(held) /\ Len(script') = 0
      /\ script' = script
  BY <1>1, Tuple0
<1>8. Typed'  BY <1>0, <1>1, <1>4 DEF Typed
<1>9. ScriptOK'
  <2>1. \A i \in 1 .. Len(script') - 1 : FALSE  BY <1>7
  <2>q. QED BY <1>1, <1>7, <2>1 DEF ScriptOK, Fits
<1>10. WireOK'
  <2>1. ASSUME NEW i \in 1 .. Len(wire'), IsHistory(wire'[i]), NEW j \in i + 1 .. Len(wire')
        PROVE  wire'[j].kind = "done"
    <3>1. i \in 1 .. Len(wire) /\ IsHistory(wire[i])  BY <1>3, <1>4, <1>6, <2>1
    <3>2. i = Len(wire)  BY <1>0, <1>1, <3>1 DEF WireOK
    <3>3. j = Len(wire) + 1  BY <1>4, <1>5, <3>2
    <3>q. QED BY <1>3, <1>4, <3>3
  <2>q. QED BY <1>0, <1>1, <1>2, <1>3, <1>4, <2>1 DEF WireOK
<1>11. HeldOK'  BY <1>0, <1>1, <1>2, <1>3, <1>4, <1>7 DEF HeldOK
<1>12. EndOK'  BY <1>0, <1>1 DEF EndOK
<1>13. SaidOK' /\ Wanted' = Wanted /\ \A msgs : Whole(msgs)' <=> Whole(msgs)
  BY <1>0, <1>1, StillSaid
<1>14. HistOK'
  <2>1. ASSUME NEW x \in Range(wire') \cup Range(script') \cup Range(held'), IsHistory(x)
        PROVE  x \in Range(wire) \cup Range(script) \cup Range(held)
    BY <1>3, <1>4, <1>7, <2>1
  <2>q. QED BY <1>0, <1>13, <2>1 DEF HistOK
<1>15. AskOK'  BY <1>0, <1>1, <1>3, <1>4, <1>7 DEF AskOK
<1>16. ApproveOK'
  <2>1. ASSUME NEW i \in 1 .. Len(wire'), NEW j \in 1 .. Len(wire'),
               IsApproval(wire'[i]), IsApproval(wire'[j]), wire'[i].about = wire'[j].about
        PROVE  i = j
    <3>1. i \in 1 .. Len(wire) /\ j \in 1 .. Len(wire)  BY <1>3, <1>4, <1>6, <2>1
    <3>q. QED BY <1>0, <1>4, <2>1, <3>1 DEF ApproveOK
  <2>2. ASSUME graph = "ended", NEW c \in Wanted
        PROVE  \E x \in Range(wire') : IsApproval(x) /\ x.about = c
    BY <1>0, <1>1, <1>4, <1>7, <2>2 DEF ApproveOK
  <2>q. QED BY <1>0, <1>1, <1>3, <1>4, <1>7, <1>13, <2>1, <2>2 DEF ApproveOK
<1>17. CountOK'
  <2>1. Sent("text")' = Sent("text")
    <3>1. Sent("text")' = {i \in 1 .. Len(wire) + 1 : wire'[i].kind = "text"}  BY <1>4, <1>5 DEF Sent
    <3>2. Sent("text") = {i \in 1 .. Len(wire) : wire[i].kind = "text"}  BY <1>5 DEF Sent
    <3>3. \A i \in 1 .. Len(wire) : i \in 1 .. Len(wire) + 1  BY <1>5
    <3>q. QED BY <1>3, <1>4, <1>6, <3>1, <3>2, <3>3
  <2>q. QED BY <1>0, <1>1, <2>1 DEF CountOK
<1>18. OrderOK'
  <2>1. \A k \in 1 .. Len(wire) : k \in 1 .. Len(wire') /\ wire'[k] = wire[k]  BY <1>4, <1>5
  <2>2. \A c : (Started(c) => Started(c)') /\ \A end : InOrder(c, end) => InOrder(c, end)'
    BY <1>1, <2>1 DEF Started, InOrder, Says, IsEvent
  <2>q. QED BY <1>0, <1>1, <2>2 DEF OrderOK
<1>q. QED BY <1>8, <1>9, <1>10, <1>11, <1>12, <1>13, <1>14, <1>15, <1>16, <1>17, <1>18 DEF StreamOK

\* A move with ordinary chunks to say, or none.
LEMMA OrdinaryMove ==
    ASSUME Full, NEW to \in Running, NEW then \in Seq(Chunk),
           \A chunk \in Range(then) : Ordinary(chunk),
           phase \in Running, script = <<>>, phase' = to, script' = then,
           UNCHANGED <<turn, prior, held, awaiting, wire, graph, round, said, prepared, call,
                       spoken, texts, queue>>,
           to \in {"lastTexts", "lastEvents"} => graph = "ended",
           to = "failedEvents" => graph = "failed",
           to = "lastEvents" => texts = 0
    PROVE  Typed' /\ StreamOK'
<1>0. Typed /\ SaidOK  BY DEF Full, StreamOK
<1>1. Fits(to, then)  BY OrdinaryFits
<1>2. \A chunk \in Range(then) : IsHistory(chunk) => chunk.messages = prior
  BY DEF Ordinary, IsHistory
<1>3. said' \in Seq(Said)  BY <1>0 DEF Typed
<1>4. SaidOK'  BY <1>0, StillSaid
<1>5. EndOK'  BY DEF EndOK, Running
<1>6. to # "ending"  BY DEF Running
<1>q. QED BY <1>1, <1>2, <1>3, <1>4, <1>5, <1>6, QuietMove

LEMMA NothingToSay ==
    /\ <<>> \in Seq(Chunk)
    /\ \A chunk \in Range(<<>>) : Ordinary(chunk)
  BY Tuple0

LEMMA ToSay3 ==
    ASSUME NEW a, NEW b, NEW c, Ordinary(a), Ordinary(b), Ordinary(c)
    PROVE  <<a, b, c>> \in Seq(Chunk) /\ \A chunk \in Range(<<a, b, c>>) : Ordinary(chunk)
<1>1. a \in Chunk /\ b \in Chunk /\ c \in Chunk  BY DEF Ordinary
<1>2. <<a, b, c>> \in Seq(Chunk) /\ Range(<<a, b, c>>) = {a, b, c}  BY <1>1, Tuple3
<1>q. QED BY <1>2

LEMMA ToSay5 ==
    ASSUME NEW a, NEW b, NEW c, NEW d, NEW e,
           Ordinary(a), Ordinary(b), Ordinary(c), Ordinary(d), Ordinary(e)
    PROVE  <<a, b, c, d, e>> \in Seq(Chunk) /\ \A chunk \in Range(<<a, b, c, d, e>>) : Ordinary(chunk)
<1>1. a \in Chunk /\ b \in Chunk /\ c \in Chunk /\ d \in Chunk /\ e \in Chunk  BY DEF Ordinary
<1>2. <<a, b, c, d, e>> \in Seq(Chunk) /\ Range(<<a, b, c, d, e>>) = {a, b, c, d, e}
  BY <1>1, Tuple5
<1>q. QED BY <1>2

\* The workspace is synchronised and checked before the agent is run.
LEMMA OpeningKeeps ==
    ASSUME Full, Upload \/ Open \/ Preflight  PROVE Typed' /\ StreamOK'
<1> DEFINE first  == <<Activity("run.started"), Activity("sync.started"), State("syncing")>>
           second == <<Activity("sync.completed"), Activity("preflight.started"),
                       State("validating")>>
           third  == <<Activity("preflight.completed"), State("working"), Content(FALSE),
                       Activity("prepare.started"), Activity("execution.started")>>
<1>1. /\ first \in Seq(Chunk) /\ \A chunk \in Range(first) : Ordinary(chunk)
      /\ second \in Seq(Chunk) /\ \A chunk \in Range(second) : Ordinary(chunk)
  BY Ordinaries, ToSay3
<1>2. third \in Seq(Chunk) /\ \A chunk \in Range(third) : Ordinary(chunk)
  BY Ordinaries, ToSay5
<1>3. /\ phase \in Running /\ script = <<>>
      /\ UNCHANGED <<turn, prior, held, awaiting, wire, graph, round, said, prepared, call,
                     spoken, texts, queue>>
      /\ \/ phase' = "open" /\ script' = first
         \/ phase' = "preflight" /\ script' = second
         \/ phase' = "launch" /\ script' = third
  BY DEF Upload, Open, Preflight, Proceed, Aside, turns, messages, content, Running
<1> HIDE DEF first, second, third
<1>4. PICK to \in {"open", "preflight", "launch"}, then \in {first, second, third} :
         phase' = to /\ script' = then
  BY <1>3
<1>5. then \in Seq(Chunk) /\ \A chunk \in Range(then) : Ordinary(chunk)  BY <1>1, <1>2
<1>6. to \in Running /\ to \notin {"lastTexts", "lastEvents", "failedEvents"}  BY DEF Running
<1>q. QED BY <1>3, <1>4, <1>5, <1>6, OrdinaryMove

\* A move within the poll loop and out of it.
LEMMA PollingKeeps ==
    ASSUME Full, Poll \/ Await \/ TextsDrained \/ EventsDrained \/ LastTexts
    PROVE  Typed' /\ StreamOK'
<1>0. EndOK  BY DEF Full, StreamOK
<1>1. /\ phase \in Running /\ script = <<>> /\ script' = <<>> /\ phase' \in Running
      /\ UNCHANGED <<turn, prior, held, awaiting, wire, graph, round, said, prepared, call,
                     spoken, texts, queue>>
  BY DEF Poll, Await, TextsDrained, EventsDrained, LastTexts, GoOn, Proceed, Aside, turns,
         messages, content, Running
<1>2. /\ phase' \in {"lastTexts", "lastEvents"} => graph = "ended"
      /\ phase' = "failedEvents" => graph = "failed"
      /\ phase' = "lastEvents" => texts = 0
  BY <1>0 DEF Poll, Await, TextsDrained, EventsDrained, LastTexts, GoOn, Proceed, GraphDone, EndOK
<1>q. QED BY <1>1, <1>2, NothingToSay, OrdinaryMove

\* A failure before the agent is run.
LEMMA FailingKeeps ==
    ASSUME Full, UploadFails \/ OpenFails \/ PreflightFails  PROVE Typed' /\ StreamOK'
<1>0. Typed /\ SaidOK /\ PhaseOK  BY DEF Full, StreamOK, Inv
<1>1. /\ phase \in Early \cap Running /\ script = <<>> /\ phase' = "ending"
      /\ UNCHANGED <<turn, prior, held, awaiting, wire, graph, round, said, prepared, call,
                     spoken, texts, queue>>
      /\ \/ script' = <<Fatal("INTERNAL_ERROR")>>
         \/ \E reason \in {"setup", "busy", "git", "other"} : script' = Excuses(reason)
  BY DEF UploadFails, OpenFails, PreflightFails, Fail, Proceed, Aside, turns, messages, content,
         Running, Early
<1>2. graph = "none"  BY <1>0, <1>1 DEF PhaseOK
<1>3. /\ script' \in Seq(Chunk) /\ Fits("ending", script')
      /\ \A chunk \in Range(script') : IsHistory(chunk) => chunk.messages = prior
  <2>1. CASE script' = <<Fatal("INTERNAL_ERROR")>>
    <3> DEFINE f == Fatal("INTERNAL_ERROR")
    <3>1. Ordinary(f)  BY Ordinaries
    <3>2. f \in Chunk /\ ~IsHistory(f)  BY <3>1 DEF Ordinary, IsHistory
    <3>3. <<f>> \in Seq(Chunk) /\ Range(<<f>>) = {f}  BY <3>2, Tuple1
    <3>4. Fits("ending", <<f>>)  BY <3>1, <3>3, OrdinaryFits
    <3>q. QED BY <2>1, <3>2, <3>3, <3>4
  <2>2. CASE \E reason \in {"setup", "busy", "git", "other"} : script' = Excuses(reason)
    <3>1. PICK reason \in {"setup", "busy", "git", "other"} : script' = Excuses(reason)  BY <2>2
    <3>2. prior \in Seq(Plain)  BY <1>0 DEF Typed
    <3> DEFINE then == Excuses(reason)
    <3>3. /\ then \in Seq(Chunk) /\ Fits("ending", then)
          /\ \A chunk \in Range(then) : IsHistory(chunk) => chunk.messages = prior
      BY <3>2, Excused
    <3> HIDE DEF then
    <3>4. script' = then  BY <3>1 DEF then
    <3>q. QED BY <3>3, <3>4
  <2>q. QED BY <1>1, <2>1, <2>2
<1>4. said' \in Seq(Said)  BY <1>0, <1>1 DEF Typed
<1>5. SaidOK'  BY <1>0, <1>1, StillSaid
<1>6. EndOK'  BY <1>1, <1>2 DEF EndOK
<1>7. PICK then : script' = then  OBVIOUS
<1>8. /\ then \in Seq(Chunk) /\ Fits("ending", then)
      /\ \A chunk \in Range(then) : IsHistory(chunk) => chunk.messages = prior
  BY <1>3, <1>7
<1>9. graph' # "ended"  BY <1>1, <1>2
<1>q. QED BY <1>1, <1>4, <1>5, <1>6, <1>7, <1>8, <1>9, QuietMove

\* The agent is run: the conversation of the turn starts with the user's query.
LEMMA LaunchKeeps ==
    ASSUME Full, Launch  PROVE Typed' /\ StreamOK'
<1>0. turn \in 1 .. MaxTurns  BY DEF Full, Inv, TypeOK
<1> DEFINE query == Message("user", turn)
<1>1. /\ phase \in Running /\ script = <<>> /\ phase' = "poll" /\ script' = <<>>
      /\ graph' = "agent.started" /\ said' = <<query>>
      /\ UNCHANGED <<turn, prior, held, awaiting, wire, round, prepared, call, spoken, texts, queue>>
  BY DEF Launch, Proceed, turns, content, Running
<1>2. query \in Said /\ query.role = "user"  BY <1>0 DEF Message, Said, About
<1> HIDE DEF query
<1>3. /\ said' \in Seq(Said) /\ Len(said') = 1 /\ said'[1] = query
  BY <1>1, <1>2, Tuple1
<1>4. SaidOK'
  <2>1. \A i \in 1 .. Len(said') : said'[i] = query  BY <1>3
  <2>2. \A i \in 1 .. Len(said') : ~IsTool(i)'  BY <1>2, <2>1 DEF IsTool
  <2>3. graph' \notin {"agent.completed", "ended"}  BY <1>1
  <2>q. QED BY <2>2, <2>3 DEF SaidOK
<1>5. EndOK'  BY <1>1 DEF EndOK
<1>6. "poll" \in Running /\ "poll" # "ending"  BY DEF Running
<1>7. Fits("poll", <<>>) /\ \A chunk \in Range(<<>>) : IsHistory(chunk) => chunk.messages = prior
  <2>1. \A chunk \in Range(<<>>) : FALSE  BY Tuple0
  <2>q. QED BY <2>1, NothingToSay, OrdinaryFits
<1>q. QED BY <1>1, <1>3, <1>4, <1>5, <1>6, <1>7, NothingToSay, QuietMove

LEMMA HandlerFull ==
    ASSUME Full, HandlerStep  PROVE Full'
<1>1. Typed' /\ StreamOK'
  BY YieldKeeps, FailingKeeps, OpeningKeeps, LaunchKeeps, PollingKeeps, DrainTextKeeps,
     DrainEventKeeps, CloseKeeps, ApologiseKeeps, FinishKeeps, ReleaseKeeps, EndKeeps
  DEF HandlerStep, Drain
<1>2. Inv'  BY HandlerInv DEF Full
<1>q. QED BY <1>1, <1>2 DEF Full

-----------------------------------------------------------------------------
(* The graph and its tools.                                                *)

\* A step of the graph or of a tool, while the handler stands still: nothing was
\* asked of the host yet, or the graph failed and nothing will be.
LEMMA BehindTheHandler ==
    ASSUME Full, UNCHANGED <<turn, prior, phase, script, held, awaiting, wire>>,
           graph # "ended",
           graph' = graph \/ phase \in {"poll", "texts", "events", "await", "gone"},
           Wanted \subseteq Wanted'
    PROVE  ScriptOK' /\ WireOK' /\ HeldOK' /\ EndOK' /\ HistOK' /\ AskOK' /\ ApproveOK'
<1>0. ScriptOK /\ WireOK /\ HeldOK /\ EndOK /\ HistOK /\ AskOK /\ ApproveOK
  BY DEF Full, StreamOK
<1>1. ScriptOK'  BY <1>0 DEF ScriptOK, Fits, IsEvent, IsHistory, RequiresInput, Ends, Says
<1>2. WireOK'  BY <1>0 DEF WireOK, IsHistory, RequiresInput, Ends, Says, IsEvent
<1>3. HeldOK'  BY <1>0 DEF HeldOK, IsHistory, Ends, Says, IsEvent
<1>4. EndOK'  BY <1>0 DEF EndOK
<1>5. HistOK'
  <2>1. ASSUME NEW x \in Range(wire') \cup Range(script') \cup Range(held'), IsHistory(x)
        PROVE  x.messages = prior'
    BY <1>0, <2>1 DEF HistOK, Whole
  <2>q. QED BY <2>1 DEF HistOK, Whole
<1>6. AskOK'  BY <1>0 DEF AskOK
<1>7. ApproveOK'
  <2>1. ~(graph' = "ended" /\ phase' \in {"closing", "finishing", "ending", "over"})  OBVIOUS
  <2>q. QED BY <1>0, <2>1 DEF ApproveOK
<1>q. QED BY <1>1, <1>2, <1>3, <1>4, <1>5, <1>6, <1>7

\* Where the handler can be while the graph runs.
LEMMA WhileItRuns ==
    ASSUME Full, graph \notin {"none", "ended", "failed"}
    PROVE  phase \in {"poll", "texts", "events", "await", "gone"}
  BY DEF Full, Inv, TypeOK, PhaseOK, Early, Late, Phase

LEMMA StillCounted ==
    ASSUME CountOK, UNCHANGED <<phase, wire, texts, spoken>>  PROVE CountOK'
  BY DEF CountOK, Sent

\* What is queued does not disturb the order of what was.
LEMMA Queueing ==
    ASSUME Typed, NEW e \in Queued, UNCHANGED wire, queue' = Append(queue, e)
    PROVE  /\ queue' \in Seq(Queued)
           /\ \A c : (Started(c) => Started(c)') /\ \A end : InOrder(c, end) => InOrder(c, end)'
           /\ \A c : Says(e, c, "started") => Started(c)'
           /\ \A c, end : Started(c) /\ Says(e, c, end) => InOrder(c, end)'
<1>0. queue \in Seq(Queued)  BY DEF Typed
<1>1. /\ queue' \in Seq(Queued) /\ Len(queue') = Len(queue) + 1 /\ Len(queue) \in Nat
      /\ \A i \in 1 .. Len(queue) : queue'[i] = queue[i]
      /\ queue'[Len(queue) + 1] = e
  BY <1>0, AppendedTo, Elements
<1>2. \A i \in 1 .. Len(queue) : i \in 1 .. Len(queue') /\ queue'[i] = queue[i] /\ i < Len(queue')
  BY <1>1
<1>3. Len(queue') \in 1 .. Len(queue') /\ queue'[Len(queue')] = e  BY <1>1
<1>4. \A c : (Started(c) => Started(c)') /\ \A end : InOrder(c, end) => InOrder(c, end)'
  BY <1>2 DEF Started, InOrder, Says, IsEvent
<1>5. \A c : Says(e, c, "started") => Started(c)'
  BY <1>3 DEF Started, Says, IsEvent
<1>6. \A c, end : Started(c) /\ Says(e, c, end) => InOrder(c, end)'
  BY <1>2, <1>3 DEF Started, InOrder, Says, IsEvent
<1>q. QED BY <1>1, <1>4, <1>5, <1>6

LEMMA NodeCallbackKeeps ==
    ASSUME Full, NodeCallback  PROVE Typed' /\ StreamOK'
<1> DEFINE e == Event(Graph, graph)
<1>0. /\ Typed /\ SaidOK /\ CountOK /\ OrderOK /\ Inv
      /\ call \in [Call -> Reporting \cup Answered \cup {"unused", "working", "raised", "spent"}]
  BY DEF Full, StreamOK, Inv, TypeOK
<1>1. /\ graph \in NodeEvents /\ graph' = AfterNodeEvent /\ queue' = Append(queue, e)
      /\ UNCHANGED <<turn, prior, phase, script, held, awaiting, wire, round, said, prepared,
                     spoken, texts>>
  BY DEF NodeCallback, turns, handler, messages, content
<1>c. \A c \in Call : \/ call'[c] = call[c]
                     \/ /\ graph = "tools.started" /\ c \in round
                        /\ call'[c] \in {"started", "unknown"}
  BY <1>0, NodeCalls
<1>2. e \in Queued  BY <1>1 DEF Event, Queued
<1> HIDE DEF e
<1>3. graph \notin {"none", "ended", "failed"}  BY <1>1 DEF NodeEvents
<1>4. phase \in {"poll", "texts", "events", "await", "gone"}  BY <1>3, WhileItRuns
<1>5. Wanted' = Wanted  BY <1>1 DEF Wanted, CalledNow
<1>6. ScriptOK' /\ WireOK' /\ HeldOK' /\ EndOK' /\ HistOK' /\ AskOK' /\ ApproveOK'
  BY <1>1, <1>3, <1>4, <1>5, BehindTheHandler
<1>7. SaidOK'
  <2>1. graph' \in {"agent.completed", "ended"} => graph = "agent.completed"
    BY <1>1 DEF AfterNodeEvent, NodeEvents
  <2>2. graph' \in {"agent.completed", "tools.started", "tools"} =>
           graph \in {"agent.completed", "tools.started", "tools"}
    BY <1>1 DEF AfterNodeEvent, NodeEvents
  <2>3. \A c \in Call : call[c] \in Answered /\ (graph = "tools.started" => c \notin round)
                        => call'[c] \in Answered
    BY <1>c
  <2>q. QED BY <1>0, <1>1, <2>1, <2>2, <2>3 DEF SaidOK, IsTool
<1>8. /\ queue' \in Seq(Queued)
      /\ \A c : (Started(c) => Started(c)') /\ \A end : InOrder(c, end) => InOrder(c, end)'
  BY <1>0, <1>1, <1>2, Queueing
<1>9. Typed'  BY <1>0, <1>1, <1>8 DEF Typed
<1>10. CountOK'  BY <1>0, <1>1, StillCounted
<1>11. OrderOK'
  <2>1. \A c \in Call : call'[c] = call[c] \/ call'[c] \in {"started", "unknown"}  BY <1>c
  <2>q. QED BY <1>0, <1>1, <1>8, <2>1 DEF OrderOK
<1>q. QED BY <1>6, <1>7, <1>9, <1>10, <1>11 DEF StreamOK

LEMMA ModelSpeaksKeeps ==
    ASSUME Full, ModelSpeaks  PROVE Typed' /\ StreamOK'
<1>0. Typed /\ SaidOK /\ CountOK /\ OrderOK /\ spoken \in Nat /\ texts \in Nat
  BY ChatAssumption DEF Full, StreamOK, Inv, TypeOK
<1>1. /\ graph = "model" /\ spoken' = spoken + 1 /\ texts' = texts + 1
      /\ UNCHANGED <<turn, prior, phase, script, held, awaiting, wire, graph, round, said, prepared,
                     call, queue>>
  BY DEF ModelSpeaks, turns, handler, messages
<1>2. phase \in {"poll", "texts", "events", "await", "gone"}  BY <1>1, WhileItRuns
<1>3. SaidOK' /\ Wanted' = Wanted  BY <1>0, <1>1, StillSaid
<1>4. ScriptOK' /\ WireOK' /\ HeldOK' /\ EndOK' /\ HistOK' /\ AskOK' /\ ApproveOK'
  BY <1>1, <1>3, BehindTheHandler
<1>5. Typed'  BY <1>0, <1>1 DEF Typed
<1>6. CountOK'
  <2>1. Sent("text")' = Sent("text")  BY <1>1 DEF Sent
  <2>2. ASSUME phase # "gone" PROVE Cardinality(Sent("text")') + texts' = spoken'
    <3> DEFINE k == Cardinality(Sent("text"))
    <3>0. Sent("text") \subseteq 1 .. Len(wire) /\ Len(wire) \in Nat
      BY <1>0, Elements DEF Typed, Sent
    <3>1. k \in Nat
      <4>1. IsFiniteSet(1 .. Len(wire))  BY <3>0, FS_Interval
      <4>2. IsFiniteSet(Sent("text"))  BY <3>0, <4>1, FS_Subset
      <4>q. QED BY <4>2, FS_CardinalityType
    <3>2. k + texts = spoken  BY <1>0, <2>2 DEF CountOK
    <3>3. k = Cardinality(Sent("text")')  BY <2>1
    <3> HIDE DEF k
    <3>q. QED BY <1>0, <1>1, <3>1, <3>2, <3>3
  <2>q. QED BY <1>1, <2>2 DEF CountOK
<1>7. OrderOK'
  <2>1. \A c : (Started(c) => Started(c)') /\ \A end : InOrder(c, end) => InOrder(c, end)'
    BY <1>1 DEF Started, InOrder, Says, IsEvent
  <2>q. QED BY <1>0, <1>1, <2>1 DEF OrderOK
<1>q. QED BY <1>3, <1>4, <1>5, <1>6, <1>7 DEF StreamOK

\* A step of the graph that changes neither the queues nor where the calls are.
LEMMA GraphMove ==
    ASSUME Full, graph \in {"model", "tools"}, SaidOK', said' \in Seq(Said),
           Wanted \subseteq Wanted',
           UNCHANGED <<turn, prior, phase, script, held, awaiting, wire, prepared, call,
                       spoken, texts, queue>>
    PROVE  Typed' /\ StreamOK'
<1>0. Typed /\ CountOK /\ OrderOK  BY DEF Full, StreamOK
<1>1. phase \in {"poll", "texts", "events", "await", "gone"}  BY WhileItRuns
<1>2. ScriptOK' /\ WireOK' /\ HeldOK' /\ EndOK' /\ HistOK' /\ AskOK' /\ ApproveOK'
  BY <1>1, BehindTheHandler
<1>3. Typed'  BY <1>0 DEF Typed
<1>4. CountOK'  BY <1>0, StillCounted
<1>5. OrderOK'
  <2>1. \A c : (Started(c) => Started(c)') /\ \A end : InOrder(c, end) => InOrder(c, end)'
    BY DEF Started, InOrder, Says, IsEvent
  <2>q. QED BY <1>0, <2>1 DEF OrderOK
<1>q. QED BY <1>2, <1>3, <1>4, <1>5 DEF StreamOK

LEMMA ModelAnswersKeeps ==
    ASSUME Full, ModelAnswers  PROVE Typed' /\ StreamOK'
<1> DEFINE m == Message("assistant", turn)
<1>0. Typed /\ SaidOK /\ turn \in 1 .. MaxTurns  BY DEF Full, StreamOK, Inv, TypeOK
<1>1. /\ graph = "model" /\ graph' = "agent.completed" /\ said' = Append(said, m)
      /\ round' \subseteq {c \in Call : call[c] = "unused"}
      /\ UNCHANGED <<turn, prior, phase, script, held, awaiting, wire, prepared, call,
                     spoken, texts, queue>>
  BY DEF ModelAnswers, turns, handler, content
<1>2. m \in Said /\ m.role = "assistant"  BY <1>0 DEF Message, Said, About
<1> HIDE DEF m
<1>3. said \in Seq(Said)  BY <1>0 DEF Typed
<1>4. /\ said' \in Seq(Said) /\ Len(said) \in Nat /\ Len(said') = Len(said) + 1
      /\ \A i \in 1 .. Len(said) : said'[i] = said[i]
      /\ said'[Len(said) + 1] = m
  BY <1>1, <1>2, <1>3, AppendedTo, Elements
<1>5. ASSUME NEW i \in 1 .. Len(said'), IsTool(i)'
      PROVE  i \in 1 .. Len(said) /\ said'[i] = said[i] /\ IsTool(i)
  <2>1. i # Len(said) + 1  BY <1>2, <1>4, <1>5 DEF IsTool
  <2>2. i \in 1 .. Len(said)  BY <1>4, <2>1
  <2>q. QED BY <1>4, <1>5, <2>2 DEF IsTool
<1>6. SaidOK'
  <2>1. said' # <<>> /\ said'[Len(said')].role = "assistant"  BY <1>2, <1>4, Tuple0
  <2>2. ASSUME NEW i \in 1 .. Len(said'), IsTool(i)'
        PROVE  /\ said'[i].about \in Call
               /\ call'[said'[i].about] \in Answered
               /\ said'[i].about \notin round'
               /\ \A j \in 1 .. Len(said') : IsTool(j)' /\ said'[i].about = said'[j].about => i = j
    <3>0. /\ i \in 1 .. Len(said) /\ said'[i] = said[i] /\ IsTool(i)
          /\ "unused" \notin Answered
      BY <1>5, <2>2 DEF Answered
    <3>1. /\ said[i].about \in Call /\ call[said[i].about] \in Answered
          /\ \A j \in 1 .. Len(said) : IsTool(j) /\ said[i].about = said[j].about => i = j
      BY <1>0, <3>0 DEF SaidOK
    <3>2. said[i].about \notin round'  BY <1>1, <3>0, <3>1
    <3>q. QED BY <1>1, <1>5, <3>0, <3>1, <3>2
  <2>q. QED BY <2>1, <2>2 DEF SaidOK
<1>7. Wanted \subseteq Wanted'
  <2>1. DOMAIN said = 1 .. Len(said) /\ DOMAIN said' = 1 .. Len(said')  BY <1>3, <1>4, Elements
  <2>2. CalledNow \subseteq CalledNow'
    <3> SUFFICES ASSUME NEW c \in CalledNow PROVE c \in CalledNow'  OBVIOUS
    <3>1. PICK i \in 1 .. Len(said) : said[i].role = "tool" /\ said[i].about = c
      BY <2>1 DEF CalledNow
    <3>2. i \in 1 .. Len(said') /\ said'[i].role = "tool" /\ said'[i].about = c  BY <1>4, <3>1
    <3>q. QED BY <2>1, <3>2 DEF CalledNow
  <2>q. QED BY <1>1, <2>2 DEF Wanted
<1>q. QED BY <1>1, <1>4, <1>6, <1>7, GraphMove

LEMMA GraphStopsKeeps ==
    ASSUME Full, ModelFails \/ ToolsRaise  PROVE Typed' /\ StreamOK'
<1>0. Typed /\ SaidOK  BY DEF Full, StreamOK
<1>1. /\ graph \in {"model", "tools"} /\ graph' \in {"agent.failed", "tools.failed"}
      /\ UNCHANGED <<turn, prior, phase, script, held, awaiting, wire, round, said, prepared, call,
                     spoken, texts, queue>>
  BY DEF ModelFails, ToolsRaise, turns, handler, messages, content
<1>2. SaidOK'  BY <1>0, <1>1 DEF SaidOK, IsTool
<1>3. Wanted' = Wanted  BY <1>1 DEF Wanted, CalledNow
<1>4. said' \in Seq(Said)  BY <1>0, <1>1 DEF Typed
<1>q. QED BY <1>1, <1>2, <1>3, <1>4, GraphMove

LEMMA ToolsReturnKeeps ==
    ASSUME Full, ToolsReturn  PROVE Typed' /\ StreamOK'
<1> DEFINE k   == Cardinality(round)
           at  == SetToSeq(round)
           new == [i \in 1 .. k |-> Message("tool", at[i])]
           n   == Len(said)
<1>0. Typed /\ SaidOK /\ round \subseteq Call  BY DEF Full, StreamOK, Inv, TypeOK
<1>1. /\ graph = "tools" /\ graph' = "tools.completed" /\ said' = said \o new
      /\ \A c \in round : call[c] \in Answered
      /\ UNCHANGED <<turn, prior, phase, script, held, awaiting, wire, round, prepared, call,
                     spoken, texts, queue>>
  BY DEF ToolsReturn, turns, handler, content
<1>2. /\ k \in Nat /\ at \in [1 .. k -> round]
      /\ \A i, j \in 1 .. k : at[i] = at[j] => i = j
  <2>1. IsFiniteSet(round)  BY <1>0, ChatAssumption, FS_Subset
  <2>q. QED BY <2>1, Listed
<1> HIDE DEF k, at
<1>3. /\ new \in Seq(Said) /\ Len(new) = k
      /\ \A i \in 1 .. k : new[i].role = "tool" /\ new[i].about = at[i] /\ at[i] \in round
  <2>1. ASSUME NEW i \in 1 .. k
        PROVE  /\ Message("tool", at[i]) \in Said /\ at[i] \in round
               /\ Message("tool", at[i]).role = "tool" /\ Message("tool", at[i]).about = at[i]
    BY <1>0, <1>2 DEF Message, Said, About
  <2>2. new \in Seq(Said)  BY <1>2, <2>1
  <2>3. Len(new) = k
    <3>1. DOMAIN new = 1 .. k /\ DOMAIN new = 1 .. Len(new) /\ Len(new) \in Nat  BY <2>2, Elements
    <3>q. QED BY <1>2, <3>1
  <2>q. QED BY <2>1, <2>2, <2>3
<1> HIDE DEF new
<1>4. said \in Seq(Said) /\ n \in Nat  BY <1>0, Elements DEF Typed
<1> HIDE DEF n
<1>5. /\ said' \in Seq(Said) /\ Len(said') = n + k
      /\ \A i \in 1 .. n : said'[i] = said[i]
      /\ \A i \in 1 .. k : said'[n + i] = new[i]
  <2> DEFINE all == said \o new
  <2>1. new \in Seq(Said) /\ said \in Seq(Said)  BY <1>3, <1>4
  <2>2. /\ all \in Seq(Said) /\ Len(all) = Len(said) + Len(new)
        /\ \A i \in 1 .. Len(said) : all[i] = said[i]
        /\ \A i \in 1 .. Len(new) : all[Len(said) + i] = new[i]
    BY <2>1, Concatenated
  <2>3. said' = all  BY <1>1
  <2> HIDE DEF all
  <2>4. Len(new) = k /\ Len(said) = n  BY <1>3 DEF n
  <2>q. QED BY <2>2, <2>3, <2>4
\* A tool's message is an earlier one, of an earlier answer, or it is of this one.
<1>6. ASSUME NEW i \in 1 .. Len(said'), IsTool(i)'
      PROVE  \/ /\ i \in 1 .. n /\ said'[i] = said[i] /\ IsTool(i)
                /\ said'[i].about \in Call \ round /\ call[said'[i].about] \in Answered
             \/ i - n \in 1 .. k /\ said'[i].about = at[i - n] /\ at[i - n] \in round
  <2>1. CASE i \in 1 .. n
    <3>1. said'[i] = said[i]  BY <1>5, <2>1
    <3>2. IsTool(i)  BY <1>6, <3>1 DEF IsTool
    <3>q. QED BY <1>0, <1>1, <2>1, <3>1, <3>2 DEF SaidOK, n
  <2>2. CASE i \notin 1 .. n
    <3>1. i - n \in 1 .. k /\ n + (i - n) = i  BY <1>2, <1>4, <1>5, <2>2
    <3>2. said'[i] = new[i - n]  BY <1>5, <3>1
    <3>q. QED BY <1>3, <3>1, <3>2
  <2>q. QED BY <2>1, <2>2
<1>7. SaidOK'
  <2>1. ASSUME NEW i \in 1 .. Len(said'), IsTool(i)'
        PROVE  said'[i].about \in Call /\ call'[said'[i].about] \in Answered
    BY <1>0, <1>1, <1>6, <2>1
  <2>2. ASSUME NEW i \in 1 .. Len(said'), IsTool(i)', NEW j \in 1 .. Len(said'), IsTool(j)',
               said'[i].about = said'[j].about
        PROVE  i = j
    <3>1. CASE i \in 1 .. n /\ j \in 1 .. n /\ IsTool(i) /\ IsTool(j)
               /\ said'[i] = said[i] /\ said'[j] = said[j]
      BY <1>0, <2>2, <3>1 DEF SaidOK, n
    <3>2. CASE i - n \in 1 .. k /\ j - n \in 1 .. k /\ at[i - n] = at[j - n]
      BY <1>2, <1>4, <3>2
    <3>q. QED BY <1>6, <2>2, <3>1, <3>2
  <2>3. graph' \notin {"agent.completed", "ended", "tools.started", "tools"}  BY <1>1
  <2>q. QED BY <2>1, <2>2, <2>3 DEF SaidOK
<1>8. Wanted \subseteq Wanted'
  <2>1. DOMAIN said = 1 .. n /\ DOMAIN said' = 1 .. Len(said')  BY <1>4, <1>5, Elements DEF n
  <2>2. CalledNow \subseteq CalledNow'
    <3> SUFFICES ASSUME NEW c \in CalledNow PROVE c \in CalledNow'  OBVIOUS
    <3>1. PICK i \in 1 .. n : said[i].role = "tool" /\ said[i].about = c
      BY <2>1 DEF CalledNow
    <3>2. i \in 1 .. Len(said') /\ said'[i].role = "tool" /\ said'[i].about = c
      BY <1>2, <1>4, <1>5, <3>1
    <3>q. QED BY <2>1, <3>2 DEF CalledNow
  <2>q. QED BY <1>1, <2>2 DEF Wanted
<1>q. QED BY <1>1, <1>5, <1>7, <1>8, GraphMove

LEMMA GraphFull ==
    ASSUME Full, GraphStep  PROVE Full'
<1>1. Typed' /\ StreamOK'
  BY NodeCallbackKeeps, ModelSpeaksKeeps, ModelAnswersKeeps, GraphStopsKeeps, ToolsReturnKeeps
  DEF GraphStep
<1>2. Inv'  BY GraphInv DEF Full
<1>q. QED BY <1>1, <1>2 DEF Full

\* A tool runs: what it prepares is asked for when the turn closes, which it
\* cannot do before every tool of it has returned.
LEMMA ToolFull ==
    ASSUME Full, NEW c \in Call, ToolStep(c)  PROVE Full'
<1>0. /\ Typed /\ SaidOK /\ CountOK /\ OrderOK /\ CallsOK
      /\ call \in [Call -> Reporting \cup Answered \cup {"unused", "working", "raised", "spent"}]
  BY DEF Full, StreamOK, Inv, TypeOK
<1>1. /\ call[c] \in Reporting \cup {"working"}
      /\ prepared \subseteq prepared'
      /\ UNCHANGED <<turn, prior, phase, script, held, awaiting, wire, graph, round, said,
                     spoken, texts>>
      /\ \A d \in Call \ {c} : call'[d] = call[d]
  BY <1>0 DEF ToolStep, ToolWorks, ToolCallback, Reporting, CallEvents, turns, handler, messages,
              content
<1>2. call[c] \notin Answered /\ graph # "ended"
  BY <1>0, <1>1 DEF CallsOK, Reporting, CallEvents, Quiet, Answered
<1>3. Wanted \subseteq Wanted'  BY <1>1 DEF Wanted, CalledNow
<1>4. ScriptOK' /\ WireOK' /\ HeldOK' /\ EndOK' /\ HistOK' /\ AskOK' /\ ApproveOK'
  BY <1>1, <1>2, <1>3, BehindTheHandler
<1>5. SaidOK'
  <2>1. \A i \in 1 .. Len(said) : IsTool(i) => said[i].about \in Call \ {c}
    BY <1>0, <1>2 DEF SaidOK
  <2>q. QED BY <1>0, <1>1, <2>1 DEF SaidOK, IsTool
<1>6. CountOK'  BY <1>0, <1>1, StillCounted
<1>7. queue' \in Seq(Queued) /\ OrderOK'
  <2>1. CASE ToolWorks(c)
    <3>1. UNCHANGED queue /\ call[c] = "working" /\ call'[c] \in {"completed", "failed", "rejected"}
      BY <1>0, <2>1 DEF ToolWorks
    <3>2. \A d : (Started(d) => Started(d)') /\ \A end : InOrder(d, end) => InOrder(d, end)'
      BY <1>1, <3>1 DEF Started, InOrder, Says, IsEvent
    <3>3. queue' \in Seq(Queued)  BY <1>0, <3>1 DEF Typed
    <3>q. QED BY <1>0, <1>1, <3>1, <3>2, <3>3 DEF OrderOK
  <2>2. CASE ToolCallback(c)
    <3> DEFINE what == IF call[c] = "rejected" THEN "failed" ELSE call[c]
               e == Event(c, what)
    <3>1. /\ queue' = Append(queue, e)
          /\ \/ call[c] = "started" /\ call'[c] = "working" /\ what = "started"
             \/ call[c] = "completed" /\ call'[c] = "returned" /\ what = "completed"
             \/ call[c] = "rejected" /\ call'[c] = "refused" /\ what = "failed"
             \/ call[c] = "failed" /\ call'[c] = "raised"
      BY <1>0, <2>2 DEF ToolCallback, Reporting, CallEvents
    <3>2. what \in CallEvents
      BY <2>2 DEF ToolCallback, Reporting, CallEvents
    <3> HIDE DEF what
    <3>3. e \in Queued /\ Says(e, c, what)
      BY <3>2 DEF Event, Queued, Says, IsEvent
    <3> HIDE DEF e
    <3>4. /\ queue' \in Seq(Queued)
          /\ \A d : (Started(d) => Started(d)') /\ \A end : InOrder(d, end) => InOrder(d, end)'
          /\ Says(e, c, "started") => Started(c)'
          /\ \A end : Started(c) /\ Says(e, c, end) => InOrder(c, end)'
      BY <1>0, <1>1, <3>1, <3>3, Queueing
    <3>5. ASSUME phase # "gone"
          PROVE  /\ call'[c] \in {"working", "completed", "failed", "rejected"} => Started(c)'
                 /\ call'[c] = "returned" => InOrder(c, "completed")'
                 /\ call'[c] = "refused" => InOrder(c, "failed")'
      BY <1>0, <3>1, <3>3, <3>4, <3>5 DEF OrderOK
    <3>q. QED BY <1>0, <1>1, <3>4, <3>5 DEF OrderOK
  <2>q. QED BY <2>1, <2>2 DEF ToolStep
<1>8. Typed'  BY <1>0, <1>1, <1>7 DEF Typed
<1>9. Inv'  BY ToolInv DEF Full
<1>q. QED BY <1>4, <1>5, <1>6, <1>7, <1>8, <1>9 DEF Full, StreamOK

-----------------------------------------------------------------------------
(* The host.                                                               *)

\* A turn before anything happens in it.
BlankTurn ==
    /\ Inv
    /\ phase = "upload" /\ script = <<>> /\ held = <<>> /\ awaiting = FALSE /\ wire = <<>>
    /\ graph = "none" /\ said = <<>> /\ queue = <<>> /\ texts = 0 /\ spoken = 0
    /\ prior \in Seq(Plain)
    /\ \A c \in Call : call[c] \in {"unused", "spent"}

LEMMA Blank == BlankTurn => Full
<1> SUFFICES ASSUME BlankTurn PROVE Full  OBVIOUS
<1> USE DEF BlankTurn
<1>0. /\ Range(<<>>) = {} /\ Len(<<>>) = 0 /\ <<>> \in Seq(Chunk) /\ <<>> \in Seq(Queued)
      /\ <<>> \in Seq(Said)
  BY Tuple0
<1>1. Typed  BY <1>0 DEF Typed
<1>2. ScriptOK  BY <1>0 DEF ScriptOK, Fits
<1>3. WireOK  BY <1>0 DEF WireOK
<1>4. HeldOK  BY <1>0 DEF HeldOK
<1>5. EndOK  BY DEF EndOK
<1>6. SaidOK  BY <1>0 DEF SaidOK
<1>7. HistOK  BY <1>0 DEF HistOK
<1>8. AskOK  BY <1>0 DEF AskOK
<1>9. ApproveOK  BY <1>0 DEF ApproveOK
<1>10. CountOK
  <2>1. Sent("text") = {}  BY <1>0, <1>1, Elements DEF Sent, Typed
  <2>2. Cardinality(Sent("text")) = 0  BY <2>1, FS_EmptySet
  <2> DEFINE k == Cardinality(Sent("text"))
  <2>3. k = 0  BY <2>2
  <2> HIDE DEF k
  <2>4. k + texts = spoken  BY <2>3
  <2>q. QED BY <2>4 DEF CountOK, k
<1>11. OrderOK  BY DEF OrderOK
<1>q. QED BY <1>1, <1>2, <1>3, <1>4, <1>5, <1>6, <1>7, <1>8, <1>9, <1>10, <1>11 DEF Full, StreamOK

LEMMA NextTurnFull ==
    ASSUME Full, NextTurn  PROVE Full'
<1>0. Typed  BY DEF Full
<1>1. /\ phase' = "upload" /\ script' = <<>> /\ held' = <<>> /\ awaiting' = FALSE /\ wire' = <<>>
      /\ graph' = "none" /\ said' = <<>> /\ queue' = <<>> /\ texts' = 0 /\ spoken' = 0
      /\ \A c \in Call : call'[c] \in {"unused", "spent"}
  BY DEF NextTurn, FreshQueues
<1>2. prior' \in Seq(Plain)
  <2>1. CASE UNCHANGED prior  BY <1>0, <2>1 DEF Typed
  <2>2. CASE \E snapshot \in Snapshots : prior' = snapshot.messages
    <3>1. PICK i \in DOMAIN wire : wire[i].kind = "history" /\ prior' = wire[i].messages
      BY <2>2 DEF Snapshots, Sent
    <3>2. wire \in Seq(Chunk) /\ DOMAIN wire = 1 .. Len(wire)  BY <1>0, Elements DEF Typed
    <3>3. wire[i] \in Chunk  BY <3>2, ElementOfSeq
    <3>q. QED BY <3>1, <3>3, HistoryChunk
  <2>q. QED BY <2>1, <2>2 DEF NextTurn
<1>3. Inv'  BY HostInv DEF Full
<1>4. BlankTurn'  BY <1>1, <1>2, <1>3 DEF BlankTurn
<1>q. QED BY <1>4, Blank, PTL

\* The host that hangs up keeps a history at most.
LEMMA HangUpFull ==
    ASSUME Full, HangUp  PROVE Full'
<1>0. /\ Typed /\ SaidOK /\ HistOK /\ EndOK /\ WireOK  BY DEF Full, StreamOK
<1>1. /\ phase' = "gone" /\ script' = <<>> /\ held' = <<>> /\ awaiting' = FALSE
      /\ UNCHANGED <<turn, prior, graph, round, said, prepared, call, spoken, texts, queue>>
  BY DEF HangUp, Aside, turns, messages, content
<1>2. Range(<<>>) = {} /\ Len(<<>>) = 0 /\ <<>> \in Seq(Chunk)  BY Tuple0
<1>3. /\ wire' \in Seq(Chunk) /\ Len(wire') \in 0 .. 1
      /\ \A x \in Range(wire') : x \in Range(wire) /\ IsHistory(x)
  <2>1. CASE wire' = <<>>  BY <1>2, <2>1
  <2>2. CASE \E snapshot \in Snapshots : wire' = <<snapshot>>
    <3>1. PICK i \in DOMAIN wire : wire[i].kind = "history" /\ wire' = <<wire[i]>>
      BY <2>2 DEF Snapshots, Sent
    <3> DEFINE x == wire[i]
    <3>2. wire \in Seq(Chunk)  BY <1>0 DEF Typed
    <3>3. DOMAIN wire = 1 .. Len(wire) /\ Range(wire) = {wire[j] : j \in 1 .. Len(wire)}
      BY <3>2, Elements
    <3>4. x \in Chunk /\ x \in Range(wire) /\ IsHistory(x)
      BY <3>1, <3>2, <3>3, ElementOfSeq DEF IsHistory
    <3>5. wire' = <<x>>  BY <3>1
    <3> HIDE DEF x
    <3>6. <<x>> \in Seq(Chunk) /\ Len(<<x>>) = 1 /\ Range(<<x>>) = {x}  BY <3>4, Tuple1
    <3>q. QED BY <3>4, <3>5, <3>6
  <2>q. QED BY <2>1, <2>2 DEF HangUp
<1>4. Range(script') = {} /\ Range(held') = {} /\ Len(script') = 0  BY <1>1, <1>2
<1>5. /\ Range(wire') = {wire'[i] : i \in 1 .. Len(wire')}
      /\ Range(script') = {script'[i] : i \in 1 .. Len(script')}
  BY <1>1, <1>2, <1>3, Elements
<1>6. \A x \in Range(wire') : ~RequiresInput(x) /\ ~Ends(x) /\ ~IsApproval(x)
  BY <1>3 DEF IsHistory, RequiresInput, Ends, Says, IsEvent, IsApproval
<1>7. Typed'  BY <1>0, <1>1, <1>2, <1>3 DEF Typed
<1>8. ScriptOK'  BY <1>1, <1>2 DEF ScriptOK, Fits
<1>9. WireOK'
  <2>1. \A i \in 1 .. Len(wire') : \A j \in i + 1 .. Len(wire') : FALSE
    <3> DEFINE k == Len(wire')
    <3>1. k \in 0 .. 1  BY <1>3
    <3> HIDE DEF k
    <3>2. \A i \in 1 .. k : \A j \in i + 1 .. k : FALSE  BY <3>1
    <3>q. QED BY <3>2 DEF k
  <2>2. phase' \notin Running \cup {"closing", "finishing", "ending"}  BY <1>1 DEF Running
  <2>q. QED BY <1>1, <1>3, <1>6, <2>1, <2>2 DEF WireOK
<1>10. HeldOK'  BY <1>1, <1>4 DEF HeldOK, Running
<1>11. EndOK'  BY <1>1 DEF EndOK
<1>12. SaidOK' /\ \A msgs : Whole(msgs)' <=> Whole(msgs)  BY <1>0, <1>1, StillSaid
<1>13. HistOK'
  <2>1. \A x \in Range(wire') \cup Range(script') \cup Range(held') : x \in Range(wire)
    BY <1>3, <1>4
  <2>q. QED BY <1>0, <1>12, <2>1 DEF HistOK
<1>14. AskOK' /\ CountOK' /\ OrderOK'  BY <1>1 DEF AskOK, CountOK, OrderOK
<1>15. ApproveOK'
  <2>1. \A x \in Range(wire') \cup Range(script') : ~IsApproval(x)  BY <1>4, <1>6
  <2>q. QED BY <1>1, <1>5, <2>1 DEF ApproveOK
<1>16. Inv'  BY HostInv DEF Full
<1>q. QED BY <1>7, <1>8, <1>9, <1>10, <1>11, <1>12, <1>13, <1>14, <1>15, <1>16 DEF Full, StreamOK

LEMMA InitFull == Init => Full
<1> SUFFICES ASSUME Init PROVE Full  OBVIOUS
<1>1. Inv  BY InitInv
<1>2. prior \in Seq(Plain)  BY Tuple0 DEF Init, NoHistory
<1>3. \A c \in Call : call[c] \in {"unused", "spent"}  BY DEF Init
<1>4. BlankTurn  BY <1>1, <1>2, <1>3 DEF Init, BlankTurn
<1>q. QED BY <1>4, Blank

LEMMA StillFull ==
    ASSUME Full, UNCHANGED vars  PROVE Full'
<1> USE DEF vars, turns, handler, messages, content
<1>0. /\ Typed /\ SaidOK /\ ScriptOK /\ WireOK /\ HeldOK /\ EndOK /\ HistOK /\ AskOK /\ ApproveOK
      /\ CountOK /\ OrderOK
  BY DEF Full, StreamOK
<1>1. Inv'  BY StepInv DEF Full
<1>2. Typed'  BY <1>0 DEF Typed
<1>3. SaidOK' /\ Wanted' = Wanted /\ \A msgs : Whole(msgs)' <=> Whole(msgs)  BY <1>0, StillSaid
<1>4. ScriptOK'  BY <1>0 DEF ScriptOK, Fits, IsEvent, IsHistory, RequiresInput, Ends, Says
<1>5. WireOK'  BY <1>0 DEF WireOK, IsHistory, RequiresInput, Ends, Says, IsEvent
<1>6. HeldOK'  BY <1>0 DEF HeldOK, IsHistory, Ends, Says, IsEvent
<1>7. EndOK'  BY <1>0 DEF EndOK
<1>8. HistOK'  BY <1>0, <1>3 DEF HistOK
<1>9. AskOK'  BY <1>0 DEF AskOK
<1>10. ApproveOK'  BY <1>0, <1>3 DEF ApproveOK
<1>11. CountOK'  BY <1>0, StillCounted
<1>12. OrderOK'  BY <1>0, StillOrdered DEF OrderOK
<1>q. QED BY <1>1, <1>2, <1>3, <1>4, <1>5, <1>6, <1>7, <1>8, <1>9, <1>10, <1>11, <1>12
  DEF Full, StreamOK

LEMMA StepFull == Full /\ [Next]_vars => Full'
<1> SUFFICES ASSUME Full, [Next]_vars PROVE Full'  OBVIOUS
<1>q. QED BY HandlerFull, GraphFull, ToolFull, HangUpFull, NextTurnFull, StillFull DEF Next

-----------------------------------------------------------------------------
(* A call that names no tool is not heard of.                              *)

By(chunk, c) == IsEvent(chunk) /\ chunk.by = c

Heard == Range(wire) \cup Range(queue)

\* No event speaks of a call that was not made, or that the node answered itself;
\* the calls of an answer are made after its event.
SilentOK == \A c \in Call : call[c] \in {"unused", "unknown"} => \A chunk \in Heard : ~By(chunk, c)
FreshOK  == graph \in {"agent.completed", "tools.started"} => \A c \in round : call[c] = "unused"

Unheard == SilentOK /\ FreshOK

LEMMA StaysSilent ==
    ASSUME SilentOK,
           \A c \in Call : call'[c] \in {"unused", "unknown"} => call[c] \in {"unused", "unknown"},
           \A chunk \in Heard' : \/ chunk \in Heard
                                \/ \A c \in Call : call'[c] \in {"unused", "unknown"} => ~By(chunk, c)
    PROVE  SilentOK'
<1> SUFFICES ASSUME NEW c \in Call, call'[c] \in {"unused", "unknown"}, NEW chunk \in Heard'
             PROVE  ~By(chunk, c)
  BY DEF SilentOK, By, IsEvent
<1>q. QED BY DEF SilentOK

\* What the handler delivers is of its own, or was in the queue.
LEMMA DeliveredRange ==
    ASSUME Typed, NEW chunk \in Chunk, Deliver(chunk)
    PROVE  Range(wire') \subseteq Range(wire) \cup {chunk}
<1>1. wire' = wire \/ wire' = Append(wire, chunk)  BY DEF Deliver
<1>2. Range(Append(wire, chunk)) = Range(wire) \cup {chunk}  BY AppendedTo DEF Typed
<1>q. QED BY <1>1, <1>2

LEMMA HandlerUnheard ==
    ASSUME Full, Unheard, HandlerStep  PROVE Unheard'
<1>0. Typed /\ ScriptOK /\ SilentOK /\ FreshOK  BY DEF Full, StreamOK, Unheard
<1> DEFINE Own(chunk) == ~IsEvent(chunk) \/ chunk.by = Main
<1>1. /\ UNCHANGED <<call, round>> /\ (graph' = graph \/ graph' = "agent.started")
  BY DEF HandlerStep, YieldChunk, UploadFails, Upload, Open, OpenFails, Preflight, PreflightFails,
         Fail, Launch, Poll, Await, Drain, DrainText, DrainEvent, TextsDrained, EventsDrained,
         LastTexts, GoOn, Close, Apologise, Finish, Release, End, Aside, messages
<1>2. ASSUME NEW chunk, Own(chunk), NEW c \in Call  PROVE ~By(chunk, c)
  BY <1>2, ChatAssumption DEF By, Main, Graph
<1>3. \/ UNCHANGED <<wire, queue>>
      \/ \E chunk \in Chunk : Own(chunk) /\ UNCHANGED queue
                             /\ Range(wire') \subseteq Range(wire) \cup {chunk}
      \/ Heard' \subseteq Heard
  <2>1. CASE YieldChunk
    <3> DEFINE chunk == Head(script)
    <3>1. Deliver(chunk) /\ UNCHANGED queue  BY <2>1 DEF YieldChunk
    <3>2. chunk \in Chunk /\ chunk \in Range(script)  BY <1>0, <2>1, YieldScript
    <3> HIDE DEF chunk
    <3>3. Own(chunk)  BY <1>0, <3>2 DEF ScriptOK, Fits
    <3>4. Range(wire') \subseteq Range(wire) \cup {chunk}  BY <1>0, <3>1, <3>2, DeliveredRange
    <3>q. QED BY <3>1, <3>2, <3>3, <3>4
  <2>2. CASE \E from \in {"texts", "lastTexts"} : DrainText(from)
    <3>1. Deliver(Text) /\ UNCHANGED queue  BY <2>2 DEF DrainText
    <3>2. Text \in Chunk /\ Own(Text)  BY Chunks DEF Text, IsEvent
    <3>3. Range(wire') \subseteq Range(wire) \cup {Text}  BY <1>0, <3>1, <3>2, DeliveredRange
    <3>q. QED BY <3>1, <3>2, <3>3
  <2>3. CASE \E from \in {"events", "lastEvents", "failedEvents"} : DrainEvent(from)
    <3> DEFINE chunk == Head(queue)
    <3>1. Deliver(chunk) /\ queue # <<>> /\ queue' = Tail(queue)  BY <2>3 DEF DrainEvent
    <3>2. chunk \in Queued /\ Range(queue) = {chunk} \cup Range(queue')
      BY <1>0, <3>1, Consumed DEF Typed
    <3> HIDE DEF chunk
    <3>3. chunk \in Chunk  BY <3>2, Chunks
    <3>4. Range(wire') \subseteq Range(wire) \cup {chunk}  BY <1>0, <3>1, <3>3, DeliveredRange
    <3>q. QED BY <3>2, <3>4 DEF Heard
  <2>4. CASE End
    <3>1. wire' = Append(wire, Finis) /\ UNCHANGED queue  BY <2>4 DEF End, Aside
    <3>2. Finis \in Chunk /\ Own(Finis)  BY Chunks DEF Finis, IsEvent
    <3>3. Range(wire') = Range(wire) \cup {Finis}  BY <1>0, <3>1, <3>2, AppendedTo DEF Typed
    <3>q. QED BY <3>1, <3>2, <3>3
  <2>5. CASE \/ UploadFails \/ Upload \/ Open \/ OpenFails \/ Preflight \/ PreflightFails
             \/ Launch \/ Poll \/ Await \/ TextsDrained \/ EventsDrained \/ LastTexts
             \/ Close \/ Apologise \/ Finish \/ Release
    BY <2>5 DEF UploadFails, Upload, Open, OpenFails, Preflight, PreflightFails, Fail, Launch, Poll,
                Await, TextsDrained, EventsDrained, LastTexts, GoOn, Close, Apologise, Finish,
                Release, Aside
  <2>q. QED BY <2>1, <2>2, <2>3, <2>4, <2>5 DEF HandlerStep, Drain
<1>4. ASSUME NEW chunk \in Heard'
      PROVE  \/ chunk \in Heard
             \/ \A c \in Call : call'[c] \in {"unused", "unknown"} => ~By(chunk, c)
  <2>1. chunk \in Heard \/ Own(chunk)
    <3> HIDE DEF Own
    <3>q. QED BY <1>3 DEF Heard
  <2>q. QED BY <1>2, <2>1
<1>5. SilentOK'  BY <1>0, <1>1, <1>4, StaysSilent
<1>6. FreshOK'  BY <1>0, <1>1 DEF FreshOK
<1>q. QED BY <1>5, <1>6 DEF Unheard

LEMMA GraphUnheard ==
    ASSUME Full, Unheard, GraphStep  PROVE Unheard'
<1>0. /\ Typed /\ SilentOK /\ FreshOK /\ round \subseteq Call
      /\ call \in [Call -> Reporting \cup Answered \cup {"unused", "working", "raised", "spent"}]
  BY DEF Full, StreamOK, Unheard, Inv, TypeOK
<1>1. CASE NodeCallback
  <2> DEFINE e == Event(Graph, graph)
  <2>1. /\ graph \in NodeEvents /\ graph' = AfterNodeEvent /\ queue' = Append(queue, e)
        /\ UNCHANGED <<wire, round>>
    BY <1>1 DEF NodeCallback, handler, messages
  <2>2. e \in Queued /\ e.by = Graph  BY <2>1 DEF Event, Queued
  <2> HIDE DEF e
  <2>3. Range(queue') = Range(queue) \cup {e}  BY <1>0, <2>1, <2>2, AppendedTo DEF Typed
  <2>4. \A c \in Call : ~By(e, c)  BY <2>2, ChatAssumption DEF By, Main, Graph
  <2>5. \A c \in Call : \/ call'[c] = call[c]
                       \/ /\ graph = "tools.started" /\ c \in round
                          /\ call'[c] \in {"started", "unknown"}
    BY <1>0, <1>1, NodeCalls
  <2>6. \A c \in Call : call'[c] \in {"unused", "unknown"} => call[c] \in {"unused", "unknown"}
    BY <1>0, <2>5 DEF FreshOK
  <2>7. SilentOK'  BY <1>0, <2>1, <2>3, <2>4, <2>6, StaysSilent DEF Heard
  <2>8. graph' \in {"agent.completed", "tools.started"} => graph = "agent.completed"
    BY <2>1 DEF NodeEvents, AfterNodeEvent
  <2>9. FreshOK'  BY <1>0, <2>1, <2>5, <2>8 DEF FreshOK
  <2>q. QED BY <2>7, <2>9 DEF Unheard
<1>2. CASE ModelSpeaks \/ ModelFails \/ ToolsReturn \/ ToolsRaise
  <2>1. UNCHANGED <<wire, queue, call, round>>
    BY <1>2 DEF ModelSpeaks, ModelFails, ToolsReturn, ToolsRaise, handler, messages
  <2>2. graph' \in {"agent.completed", "tools.started"} => graph' = graph
    BY <1>2 DEF ModelSpeaks, ModelFails, ToolsReturn, ToolsRaise
  <2>3. SilentOK'  BY <1>0, <2>1, StaysSilent DEF Heard
  <2>4. FreshOK'  BY <1>0, <2>1, <2>2 DEF FreshOK
  <2>q. QED BY <2>3, <2>4 DEF Unheard
<1>3. CASE ModelAnswers
  <2>1. UNCHANGED <<wire, queue, call>> /\ round' \subseteq {c \in Call : call[c] = "unused"}
    BY <1>3 DEF ModelAnswers, handler
  <2>2. SilentOK'  BY <1>0, <2>1, StaysSilent DEF Heard
  <2>3. FreshOK'  BY <2>1 DEF FreshOK
  <2>q. QED BY <2>2, <2>3 DEF Unheard
<1>q. QED BY <1>1, <1>2, <1>3 DEF GraphStep

\* A tool speaks of its own call.
LEMMA ToolUnheard ==
    ASSUME Full, Unheard, NEW t \in Call, ToolStep(t)  PROVE Unheard'
<1>0. /\ Typed /\ SilentOK /\ FreshOK /\ round \subseteq Call
      /\ call \in [Call -> Reporting \cup Answered \cup {"unused", "working", "raised", "spent"}]
  BY DEF Full, StreamOK, Unheard, Inv, TypeOK
<1>1. /\ call[t] \in Reporting \cup {"working"} /\ call'[t] \notin {"unused", "unknown"}
      /\ UNCHANGED <<wire, graph, round>>
      /\ \A d \in Call \ {t} : call'[d] = call[d]
  BY <1>0 DEF ToolStep, ToolWorks, ToolCallback, Reporting, CallEvents, handler, messages
<1>2. \A c \in Call : call'[c] \in {"unused", "unknown"} => c # t /\ call[c] \in {"unused", "unknown"}
  BY <1>1
<1>3. ASSUME NEW chunk \in Heard'
      PROVE  chunk \in Heard \/ (\A c \in Call : By(chunk, c) => c = t)
  <2>1. CASE ToolWorks(t)  BY <1>1, <1>3, <2>1 DEF ToolWorks, Heard
  <2>2. CASE ToolCallback(t)
    <3> DEFINE what == IF call[t] = "rejected" THEN "failed" ELSE call[t]
               e == Event(t, what)
    <3>1. queue' = Append(queue, e) /\ what \in CallEvents
      BY <2>2 DEF ToolCallback, Reporting, CallEvents
    <3> HIDE DEF what
    <3>2. e \in Queued /\ e.by = t  BY <3>1 DEF Event, Queued
    <3> HIDE DEF e
    <3>3. Range(queue') = Range(queue) \cup {e}  BY <1>0, <3>1, <3>2, AppendedTo DEF Typed
    <3>q. QED BY <1>1, <1>3, <3>2, <3>3 DEF Heard, By
  <2>q. QED BY <2>1, <2>2 DEF ToolStep
<1>4. SilentOK'  BY <1>0, <1>2, <1>3, StaysSilent
<1>5. FreshOK'
  <2>1. graph \in {"agent.completed", "tools.started"} => t \notin round
    BY <1>0, <1>1 DEF FreshOK, Reporting, CallEvents
  <2>q. QED BY <1>0, <1>1, <2>1 DEF FreshOK
<1>q. QED BY <1>4, <1>5 DEF Unheard

\* The host keeps a history at most, and starts a turn with nothing heard.
LEMMA HostUnheard ==
    ASSUME Full, Unheard, HangUp \/ NextTurn  PROVE Unheard'
<1>0. Typed /\ SilentOK /\ FreshOK  BY DEF Full, Unheard
<1>e. Range(<<>>) = {}  BY Tuple0
<1>1. CASE HangUp
  <2>1. UNCHANGED <<queue, call, graph, round>>  BY <1>1 DEF HangUp, Aside, messages
  <2>2. Range(wire') \subseteq Range(wire)
    <3>1. CASE wire' = <<>>  BY <1>e, <3>1
    <3>2. CASE \E snapshot \in Snapshots : wire' = <<snapshot>>
      <4>1. PICK i \in DOMAIN wire : wire' = <<wire[i]>>  BY <3>2 DEF Snapshots, Sent
      <4> DEFINE x == wire[i]
      <4>2. wire \in Seq(Chunk)  BY <1>0 DEF Typed
      <4>3. DOMAIN wire = 1 .. Len(wire) /\ Range(wire) = {wire[j] : j \in 1 .. Len(wire)}
        BY <4>2, Elements
      <4>4. x \in Chunk /\ x \in Range(wire)  BY <4>2, <4>3, ElementOfSeq
      <4>5. wire' = <<x>>  BY <4>1
      <4> HIDE DEF x
      <4>6. Range(<<x>>) = {x}  BY <4>4, Tuple1
      <4>q. QED BY <4>4, <4>5, <4>6
    <3>q. QED BY <1>1, <3>1, <3>2 DEF HangUp
  <2>3. SilentOK'  BY <1>0, <2>1, <2>2, StaysSilent DEF Heard
  <2>4. FreshOK'  BY <1>0, <2>1 DEF FreshOK
  <2>q. QED BY <2>3, <2>4 DEF Unheard
<1>2. CASE NextTurn
  <2>1. wire' = <<>> /\ queue' = <<>> /\ graph' = "none"  BY <1>2 DEF NextTurn, FreshQueues
  <2>2. Heard' = {}  BY <1>e, <2>1 DEF Heard
  <2>q. QED BY <2>1, <2>2 DEF Unheard, SilentOK, FreshOK
<1>q. QED BY <1>1, <1>2

LEMMA InitUnheard == Init => Unheard
<1> SUFFICES ASSUME Init PROVE Unheard  OBVIOUS
<1>1. Heard = {}  BY Tuple0 DEF Init, Heard
<1>q. QED BY <1>1 DEF Init, Unheard, SilentOK, FreshOK

LEMMA StepUnheard == Full /\ Unheard /\ [Next]_vars => Unheard'
<1> SUFFICES ASSUME Full, Unheard, [Next]_vars PROVE Unheard'  OBVIOUS
<1>1. CASE UNCHANGED vars
  <2>1. UNCHANGED <<wire, queue, call, graph, round>>  BY <1>1 DEF vars, handler, messages
  <2>q. QED BY <2>1, StaysSilent DEF Unheard, FreshOK, Heard
<1>q. QED BY <1>1, HandlerUnheard, GraphUnheard, ToolUnheard, HostUnheard DEF Next

-----------------------------------------------------------------------------
(* What the invariant says of the wire.                                    *)

LEMMA OnTheWire ==
    ASSUME Typed
    PROVE  /\ DOMAIN wire = 1 .. Len(wire) /\ Len(wire) \in Nat
           /\ Range(wire) = {wire[i] : i \in 1 .. Len(wire)}
           /\ \A kind, i : i \in Sent(kind) <=> i \in 1 .. Len(wire) /\ wire[i].kind = kind
<1>1. wire \in Seq(Chunk)  BY DEF Typed
<1>2. /\ DOMAIN wire = 1 .. Len(wire) /\ Len(wire) \in Nat
      /\ Range(wire) = {wire[i] : i \in 1 .. Len(wire)}
  BY <1>1, Elements
<1>q. QED BY <1>2 DEF Sent

\* A run that is closed is over, and has nothing more to ask.
LEMMA ClosedIsOver ==
    ASSUME Full, Closed
    PROVE  /\ phase \in {"finishing", "ending", "over"}
           /\ \E chunk \in Range(wire) : Ends(chunk)
           /\ \A chunk \in Range(script) : ~RequiresInput(chunk)
<1>0. Typed /\ WireOK /\ ScriptOK  BY DEF Full, StreamOK
<1>1. PICK i \in DOMAIN wire : Ends(wire[i])
  <2>1. \E i \in DOMAIN wire : Ends(wire[i])  BY DEF Closed, Ends
  <2>q. QED BY <2>1
<1>2. wire[i] \in Range(wire)  BY <1>0, <1>1, OnTheWire
<1>3. phase \in {"finishing", "ending", "over"}  BY <1>0, <1>1, <1>2 DEF WireOK
<1>q. QED BY <1>0, <1>1, <1>2, <1>3 DEF ScriptOK, Fits

\* The events of an answered call.
Told(c) ==
    \/ /\ call[c] = "unknown"
       /\ \A i \in DOMAIN wire : ~(IsEvent(wire[i]) /\ wire[i].by = c)
    \/ /\ call[c] \in DOMAIN EndOf
       /\ \E i, j \in DOMAIN wire : i < j /\ Says(wire[i], c, "started")
                                     /\ Says(wire[j], c, EndOf[call[c]])

LEMMA LosesNothing == Full /\ Unheard => NothingLost
<1> SUFFICES ASSUME Full, Unheard, Succeeded
             PROVE  /\ queue = <<>>
                    /\ Cardinality(Sent("text")) = spoken
                    /\ \A c \in CalledNow : Told(c)
  BY DEF NothingLost, Told
<1>0. Typed /\ EndOK /\ SaidOK /\ CountOK /\ OrderOK  BY DEF Full, StreamOK
<1>1. phase \in {"finishing", "ending", "over"} /\ graph = "ended"
  BY ClosedIsOver DEF Succeeded
<1>2. queue = <<>> /\ texts = 0  BY <1>0, <1>1 DEF EndOK
<1>3. Cardinality(Sent("text")) = spoken
  <2> DEFINE k == Cardinality(Sent("text"))
  <2>1. Sent("text") \subseteq 1 .. Len(wire) /\ Len(wire) \in Nat  BY <1>0, OnTheWire
  <2>f. IsFiniteSet(1 .. Len(wire))  BY <2>1, FS_Interval
  <2>2. IsFiniteSet(Sent("text"))  BY <2>1, <2>f, FS_Subset
  <2>3. k \in Nat  BY <2>2, FS_CardinalityType
  <2>4. k + texts = spoken  BY <1>0, <1>1 DEF CountOK
  <2> HIDE DEF k
  <2>5. k = spoken  BY <1>2, <2>3, <2>4
  <2>q. QED BY <2>5 DEF k
<1>4. ASSUME NEW c \in CalledNow
      PROVE  Told(c)
  <2>1. DOMAIN said = 1 .. Len(said)  BY <1>0, Elements DEF Typed
  <2>2. PICK i \in 1 .. Len(said) : IsTool(i) /\ said[i].about = c
    BY <2>1 DEF CalledNow, IsTool
  <2>3. c \in Call /\ call[c] \in {"returned", "refused", "unknown"}
    BY <1>0, <2>2 DEF SaidOK, Answered
  <2>4. 1 .. Len(queue) = {}  BY <1>2, Tuple0
  <2>5. DOMAIN wire = 1 .. Len(wire) /\ Range(wire) = {wire[k] : k \in 1 .. Len(wire)}
    BY <1>0, OnTheWire
  <2>6. /\ DOMAIN EndOf = {"returned", "refused"}
        /\ EndOf["returned"] = "completed" /\ EndOf["refused"] = "failed"
    BY DEF EndOf
  <2>7. CASE call[c] = "unknown"
    <3>1. \A chunk \in Range(wire) : ~By(chunk, c)  BY <2>3, <2>7 DEF Unheard, SilentOK, Heard
    <3>q. QED BY <2>5, <2>7, <3>1 DEF Told, By
  <2>8. ASSUME NEW end, InOrder(c, end)
        PROVE  \E k, l \in DOMAIN wire : k < l /\ Says(wire[k], c, "started") /\ Says(wire[l], c, end)
    BY <2>4, <2>5, <2>8 DEF InOrder
  <2>9. CASE call[c] = "returned"
    <3>1. InOrder(c, "completed")  BY <1>0, <1>1, <2>3, <2>9 DEF OrderOK
    <3>2. \E k, l \in DOMAIN wire :
             k < l /\ Says(wire[k], c, "started") /\ Says(wire[l], c, "completed")
      BY <2>8, <3>1
    <3>q. QED BY <2>6, <2>9, <3>2 DEF Told
  <2>10. CASE call[c] = "refused"
    <3>1. InOrder(c, "failed")  BY <1>0, <1>1, <2>3, <2>10 DEF OrderOK
    <3>2. \E k, l \in DOMAIN wire :
             k < l /\ Says(wire[k], c, "started") /\ Says(wire[l], c, "failed")
      BY <2>8, <3>1
    <3>q. QED BY <2>6, <2>10, <3>2 DEF Told
  <2>q. QED BY <2>3, <2>7, <2>9, <2>10
<1>q. QED BY <1>2, <1>3, <1>4

LEMMA EndsWithHistory == Full => HistoryIsLast
<1> SUFFICES ASSUME Full PROVE HistoryIsLast  OBVIOUS
<1>0. Typed /\ WireOK /\ HeldOK  BY DEF Full, StreamOK
<1>1. \A i \in DOMAIN wire : wire[i].kind = "history" =>
         \A j \in i + 1 .. Len(wire) : wire[j].kind = "done"
  BY <1>0, OnTheWire DEF WireOK, IsHistory
<1>2. ASSUME phase = "over", Closed PROVE Snapshots # {}
  <2>1. \E chunk \in Range(wire) : IsHistory(chunk)  BY <1>0, <1>2, ClosedIsOver DEF HeldOK
  <2>2. PICK i \in 1 .. Len(wire) : wire[i].kind = "history"
    BY <1>0, <2>1, OnTheWire DEF IsHistory
  <2>q. QED BY <1>0, <2>2, OnTheWire DEF Snapshots
<1>q. QED BY <1>1, <1>2 DEF HistoryIsLast

LEMMA GivesBackWholes == Full => HistoryIsWhole
<1> SUFFICES ASSUME Full, NEW i \in DOMAIN wire, wire[i].kind = "history"
             PROVE  Whole(wire[i].messages)
  BY DEF HistoryIsWhole, Whole
<1>0. Typed /\ HistOK  BY DEF Full, StreamOK
<1>1. wire[i] \in Range(wire) /\ IsHistory(wire[i])  BY <1>0, OnTheWire DEF IsHistory
<1>q. QED BY <1>0, <1>1 DEF HistOK

LEMMA AsksForEach == Full => AsksForThisTurn
<1> SUFFICES ASSUME Full PROVE AsksForThisTurn  OBVIOUS
<1>0. Typed /\ ApproveOK  BY DEF Full, StreamOK
<1>1. \A i \in Sent("approval") : wire[i].about \in CalledNow \cap prepared
  <2> SUFFICES ASSUME NEW i \in Sent("approval") PROVE wire[i].about \in Wanted  BY DEF Wanted
  <2>1. wire[i] \in Range(wire) /\ IsApproval(wire[i])  BY <1>0, OnTheWire DEF IsApproval
  <2>q. QED BY <1>0, <2>1 DEF ApproveOK
<1>2. ASSUME Succeeded, NEW c \in CalledNow \cap prepared
      PROVE  \E i \in Sent("approval") : \A j \in Sent("approval") : wire[j].about = c <=> j = i
  <2>1. /\ phase \in {"finishing", "ending", "over"} /\ graph = "ended"
        /\ \A chunk \in Range(script) : ~RequiresInput(chunk)
    BY <1>2, ClosedIsOver DEF Succeeded
  <2>2. PICK chunk \in Range(wire) : IsApproval(chunk) /\ chunk.about = c
    BY <1>0, <1>2, <2>1 DEF ApproveOK, Wanted, IsApproval, RequiresInput
  <2>3. PICK i \in 1 .. Len(wire) : IsApproval(wire[i]) /\ wire[i].about = c
    BY <1>0, <2>2, OnTheWire
  <2>4. i \in Sent("approval")  BY <1>0, <2>3, OnTheWire DEF IsApproval
  <2>5. ASSUME NEW j \in Sent("approval") PROVE wire[j].about = c <=> j = i
    <3>1. j \in 1 .. Len(wire) /\ IsApproval(wire[j])  BY <1>0, <2>5, OnTheWire DEF IsApproval
    <3>q. QED BY <1>0, <2>3, <3>1 DEF ApproveOK
  <2>q. QED BY <2>4, <2>5
<1>q. QED BY <1>1, <1>2 DEF AsksForThisTurn

LEMMA AwaitsWhatItAsked == Full => AwaitingIffAsked
<1> SUFFICES ASSUME Full, Closed
             PROVE  /\ Sent("approval") # {} <=>
                          \E i \in DOMAIN wire : Says(wire[i], Main, "run.awaiting_input")
                    /\ Sent("approval") # {} <=> \E i \in Sent("content") : wire[i].asks
  BY DEF AwaitingIffAsked
<1>0. Typed /\ AskOK  BY DEF Full, StreamOK
<1>1. /\ phase # "gone" /\ \E chunk \in Range(wire) : Ends(chunk)
      /\ \A chunk \in Range(script) : ~RequiresInput(chunk)
  BY ClosedIsOver
<1>2. \A chunk : RequiresInput(chunk) <=> IsApproval(chunk) \/ Asking(chunk)
  BY DEF RequiresInput, IsApproval, Asking
<1>3. Sent("approval") # {} <=> \E chunk \in Range(wire) : IsApproval(chunk)
  BY <1>0, OnTheWire DEF IsApproval
<1>4. (\E i \in Sent("content") : wire[i].asks) <=> \E chunk \in Range(wire) : Asking(chunk)
  BY <1>0, OnTheWire DEF Asking
<1>5. (\E i \in DOMAIN wire : Says(wire[i], Main, "run.awaiting_input")) <=>
         \E chunk \in Range(wire) : Says(chunk, Main, "run.awaiting_input")
  BY <1>0, OnTheWire
<1>6. (\E chunk \in Range(wire) : IsApproval(chunk)) <=> \E chunk \in Range(wire) : Asking(chunk)
  BY <1>0, <1>1, <1>2 DEF AskOK
<1>7. awaiting <=> \E chunk \in Range(wire) : IsApproval(chunk)
  BY <1>0, <1>1, <1>2, <1>6 DEF AskOK
<1>8. awaiting <=> \E chunk \in Range(wire) : Says(chunk, Main, "run.awaiting_input")
  BY <1>0, <1>1 DEF AskOK, Ends
<1>q. QED BY <1>3, <1>4, <1>5, <1>6, <1>7, <1>8

-----------------------------------------------------------------------------

\* The inductive invariant of the whole stream: what the handler has still to
\* yield fits its phase, what the host received came in order, the content and
\* the events not yet received are in the queues, and the history and the
\* approvals on the wire are those of this turn's messages.
THEOREM WholeStreamInvariant == Spec => []Full
  BY InitFull, StepFull, PTL DEF Spec

\* No event speaks of a call that was not made or names no tool.
THEOREM UnknownToolsAreSilent == Spec => []Unheard
  BY InitUnheard, StepUnheard, WholeStreamInvariant, PTL DEF Spec

\* A turn that is closed after a successful graph has passed on every piece of
\* text and, for every call of a tool, its start before its end: completed if the
\* tool returned, failed if it refused its arguments and the graph went on.
THEOREM StreamLosesNothing == Spec => []NothingLost
  BY WholeStreamInvariant, UnknownToolsAreSilent, LosesNothing, PTL

\* The history is the last chunk but the end mark, and every closed turn sends it.
THEOREM StreamEndsWithHistory == Spec => []HistoryIsLast
  BY WholeStreamInvariant, EndsWithHistory, PTL

\* The history given back is the one the host sent, or that and a whole exchange
\* which ends with the model's answer.
THEOREM HistoryComesBackWhole == Spec => []HistoryIsWhole
  BY WholeStreamInvariant, GivesBackWholes, PTL

\* The host is asked to approve exactly the actions prepared in this turn, each
\* once.
THEOREM ApprovalsAreOfThisTurn == Spec => []AsksForThisTurn
  BY WholeStreamInvariant, AsksForEach, PTL

\* A run is closed as waiting for the user exactly when it asked for an approval,
\* and the answer before it says the same.
THEOREM WaitsIffItAsked == Spec => []AwaitingIffAsked
  BY WholeStreamInvariant, AwaitsWhatItAsked, PTL
=============================================================================
