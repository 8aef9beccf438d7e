------------------------------ MODULE ChatStream ------------------------------
(***************************************************************************)
(* A conversation over POST /agent/chat, turn by turn.  The orchestrator   *)
(* opens a workspace and runs the agent; the agent runs a graph of two     *)
(* nodes, the model and its tools, as a task of its own, and polls the two *)
(* queues that the graph and its callbacks fill.  What the orchestrator    *)
(* yields goes to the host as it is.                                       *)
(*                                                                         *)
(* An event is what it says and who emitted it, in one step; its number    *)
(* and its id are the subject of ActivityEmitter.  Labels, languages and *)
(* tokens are left out; a message is its role and what it is about.        *)
(***************************************************************************)
EXTENDS Naturals, Sequences, FiniteSets, SequencesExt

CONSTANTS
    Call,       \* the tool calls the model may make in the conversation
    MaxRound,   \* bound: tool calls in one answer of the model
    MaxTexts,   \* bound: pieces of text the model streams in each turn
    MaxTurns    \* bound: turns of the conversation

Main  == "main"
Graph == "graph"

ASSUME ChatAssumption ==
    /\ {Main, Graph} \cap Call = {} /\ IsFiniteSet(Call)
    /\ MaxRound \in Nat /\ MaxTurns \in Nat \ {0}
    /\ MaxTexts \in [1 .. MaxTurns -> Nat]

VARIABLES
    turn,       \* the number of the turn
    prior,      \* the history the host sent with the query
    phase,      \* where the request handler is
    script,     \* what it has still to yield before it goes on
    held,       \* the history snapshot it holds back
    awaiting,   \* last_requires_user_input
    wire,       \* what the host has received in this turn
    workspace,  \* the copy of the ledger exists
    graph,      \* where the graph task is
    round,      \* the calls in the model's last answer
    said,       \* the messages of this turn
    call,       \* where each call is
    prepared,   \* the calls whose result is a pending action
    spoken,     \* pieces of text streamed in this turn
    texts,      \* content_stream_queue, of which only the length matters
    queue       \* activity_queue

turns    == <<turn, prior>>
handler  == <<phase, script, held, awaiting, wire, workspace>>
messages == <<round, said, prepared>>
content  == <<spoken, texts>>
vars == <<turns, handler, graph, messages, call, content, queue>>

NoHistory == <<>>

Phase ==
    {"upload", "open", "preflight", "launch", "poll", "texts", "events",
     "await", "lastTexts", "lastEvents", "failedEvents", "closing",
     "finishing", "ending", "over", "gone"}

\* A node of the graph is entered and left with an event.
NodeEvents ==
    {"agent.started", "agent.completed", "agent.failed",
     "tools.started", "tools.completed", "tools.failed"}
CallEvents == {"started", "completed", "failed"}

\* What a call has to report.  A call whose arguments do not fit its tool is
\* rejected, which its callback reports as a failure.
Reporting == CallEvents \cup {"rejected"}

\* The calls the node has a message of: what the tool returned, why it refused
\* the arguments, or that there is no such tool.
Answered == {"returned", "refused", "unknown"}

GraphDone == graph \in {"ended", "failed"}

-----------------------------------------------------------------------------
(* What the handler yields                                                 *)

Event(by, what)  == [kind |-> "activity", by |-> by, what |-> what]
Activity(what)   == Event(Main, what)
State(name)      == [kind |-> "state", name |-> name]
Text             == [kind |-> "text"]
Content(asks)    == [kind |-> "content", asks |-> asks]
Approval(c)      == [kind |-> "approval", about |-> c]
History(msgs)    == [kind |-> "history", messages |-> msgs]
Fatal(code)      == [kind |-> "fatal", code |-> code]
Finis            == [kind |-> "done"]

RequiresInput(chunk) ==
    chunk.kind = "approval" \/ (chunk.kind = "content" /\ chunk.asks)

\* mutant: the history is passed on like any other chunk
DeliverAll(chunk) ==
    /\ wire' = Append(wire, chunk)
    /\ awaiting' = (awaiting \/ RequiresInput(chunk))
    /\ UNCHANGED <<held, workspace>>

\* run() passes on what the agent yields, but holds the history back.
Deliver(chunk) ==
    /\ IF phase = "closing" /\ chunk.kind = "history"
       THEN held' = <<chunk>> /\ UNCHANGED wire
       ELSE wire' = Append(wire, chunk) /\ UNCHANGED held
    /\ awaiting' = (awaiting \/ RequiresInput(chunk))
    /\ UNCHANGED workspace

\* Go on to another phase once the script is played.
Proceed(from, to, then) ==
    /\ phase = from /\ script = <<>>
    /\ phase' = to /\ script' = then

Message(role, about) == [role |-> role, about |-> about]

-----------------------------------------------------------------------------
(* The graph                                                               *)

AfterNodeEvent ==
    CASE graph = "agent.started"   -> "model"
      [] graph = "agent.completed" -> IF round = {} THEN "ended" ELSE "tools.started"
      [] graph = "agent.failed"    -> "failed"
      [] graph = "tools.started"   -> "tools"
      [] graph = "tools.completed" -> "agent.started"
      [] graph = "tools.failed"    -> "failed"

\* The node starts the calls of the answer; it answers a call that names no tool
\* itself, with no callback.
Dispatched(unknown) ==
    [c \in Call |-> CASE c \in unknown -> "unknown"
                      [] c \in round \ unknown -> "started"
                      [] OTHER -> call[c]]

NodeCallback ==
    /\ graph \in NodeEvents
    /\ queue' = Append(queue, Event(Graph, graph))
    /\ graph' = AfterNodeEvent
    /\ IF graph = "tools.started"
       THEN \E unknown \in SUBSET round : call' = Dispatched(unknown)
       ELSE UNCHANGED call
    /\ UNCHANGED <<turns, handler, messages, content>>

ModelSpeaks ==
    /\ graph = "model" /\ spoken < MaxTexts[turn]
    /\ spoken' = spoken + 1 /\ texts' = texts + 1
    /\ UNCHANGED <<turns, handler, graph, messages, call, queue>>

\* The model's answer is complete; calls in it send the graph to the tools.
ModelAnswers ==
    /\ graph = "model"
    /\ \E calls \in SUBSET {c \in Call : call[c] = "unused"} :
          /\ Cardinality(calls) <= MaxRound
          /\ round' = calls
    /\ said' = Append(said, Message("assistant", turn))
    /\ graph' = "agent.completed"
    /\ UNCHANGED <<turns, handler, prepared, call, content, queue>>

ModelFails ==
    /\ graph = "model"
    /\ graph' = "agent.failed"
    /\ UNCHANGED <<turns, handler, messages, call, content, queue>>

ToolWorks(c) ==
    /\ call[c] = "working"
    /\ \/ /\ call' = [call EXCEPT ![c] = "completed"]
          /\ prepared' \in {prepared, prepared \cup {c}}
       \/ /\ \E end \in {"failed", "rejected"} : call' = [call EXCEPT ![c] = end]
          /\ UNCHANGED prepared
    /\ UNCHANGED <<turns, handler, graph, round, said, content, queue>>

ToolCallback(c) ==
    /\ call[c] \in Reporting
    /\ queue' = Append(queue, Event(c, IF call[c] = "rejected" THEN "failed" ELSE call[c]))
    /\ call' = [call EXCEPT ![c] =
                  CASE call[c] = "started"   -> "working"
                    [] call[c] = "completed" -> "returned"
                    [] call[c] = "rejected"  -> "refused"
                    [] call[c] = "failed"    -> "raised"]
    /\ UNCHANGED <<turns, handler, graph, messages, content>>

\* The node gathers its calls, and makes a message of arguments that did not
\* fit and of a tool it does not know.  The first call to raise anything else
\* ends the node, and the others are left running.
ToolsReturn ==
    /\ graph = "tools"
    /\ \A c \in round : call[c] \in Answered
    /\ said' = said \o [i \in 1 .. Cardinality(round) |->
                          Message("tool", SetToSeq(round)[i])]
    /\ graph' = "tools.completed"
    /\ UNCHANGED <<turns, handler, round, prepared, call, content, queue>>

ToolsRaise ==
    /\ graph = "tools"
    /\ \E c \in round : call[c] = "raised"
    /\ graph' = "tools.failed"
    /\ UNCHANGED <<turns, handler, messages, call, content, queue>>

-----------------------------------------------------------------------------
(* The request handler                                                     *)

\* It yields the next chunk of its script.
YieldChunk ==
    /\ script # <<>>
    /\ Deliver(Head(script))
    /\ script' = Tail(script)
    /\ UNCHANGED <<turns, phase, graph, messages, call, content, queue>>

Aside == <<turns, graph, messages, call, content, queue>>

\* The attachments cannot be written; run() is never called.
UploadFails ==
    /\ Proceed("upload", "ending", <<Fatal("INTERNAL_ERROR")>>)
    /\ UNCHANGED <<held, awaiting, wire, workspace, Aside>>

Upload ==
    /\ Proceed("upload", "open",
               <<Activity("run.started"), Activity("sync.started"), State("syncing")>>)
    /\ UNCHANGED <<held, awaiting, wire, workspace, Aside>>

Open ==
    /\ Proceed("open", "preflight",
               <<Activity("sync.completed"), Activity("preflight.started"),
                 State("validating")>>)
    /\ workspace' = TRUE
    /\ UNCHANGED <<held, awaiting, wire, Aside>>

\* mutant: the with-block ends before the agent is run
PreflightOnly ==
    /\ Proceed("preflight", "launch",
               <<Activity("preflight.completed"), State("working"), Content(FALSE),
                 Activity("prepare.started"), Activity("execution.started")>>)
    /\ workspace' = FALSE
    /\ UNCHANGED <<held, awaiting, wire, Aside>>

Preflight ==
    /\ Proceed("preflight", "launch",
               <<Activity("preflight.completed"), State("working"), Content(FALSE),
                 Activity("prepare.started"), Activity("execution.started")>>)
    /\ UNCHANGED <<held, awaiting, wire, workspace, Aside>>

\* The except clauses of run().  The workspace is gone by then.
Excuses(reason) ==
    CASE reason = "setup" -> <<Activity("preflight.failed"), State("failed"),
                               Fatal("SETUP_REQUIRED")>>
      [] reason = "busy"  -> <<Activity("run.failed"), State("failed"),
                               Fatal("INTERNAL_ERROR")>>
      [] reason = "git"   -> <<Activity("sync.failed"), State("failed"),
                               Fatal("REPO_UNREACHABLE")>>
      [] reason = "other" -> <<Activity("run.failed"), State("failed"),
                               Fatal("INTERNAL_ERROR"), History(prior)>>

Fail(from, reasons) ==
    /\ \E reason \in reasons : Proceed(from, "ending", Excuses(reason))
    /\ workspace' = FALSE
    /\ UNCHANGED <<held, awaiting, wire, Aside>>

OpenFails      == Fail("open", {"busy", "git", "other"})
PreflightFails == Fail("preflight", {"setup", "other"})

Launch ==
    /\ Proceed("launch", "poll", <<>>)
    /\ graph' = "agent.started"
    /\ said' = <<Message("user", turn)>>
    /\ UNCHANGED <<turns, held, awaiting, wire, workspace, round, prepared, call,
                   content, queue>>

-----------------------------------------------------------------------------
(* The poll loop of agent.stream and what follows it                       *)

GoOn(from, to) ==
    /\ Proceed(from, to, <<>>)
    /\ UNCHANGED <<held, awaiting, wire, workspace, Aside>>

\* mutant: only success ends the loop
PollForSuccess == GoOn("poll", IF graph = "ended" THEN "await" ELSE "texts")

Poll == GoOn("poll", IF GraphDone THEN "await" ELSE "texts")

Await ==
    /\ GraphDone
    /\ GoOn("await", IF graph = "failed" THEN "failedEvents" ELSE "lastTexts")

DrainText(from) ==
    /\ phase = from /\ script = <<>> /\ texts > 0
    /\ texts' = texts - 1
    /\ Deliver(Text)
    /\ UNCHANGED <<turns, phase, script, graph, messages, call, spoken, queue>>

DrainEvent(from) ==
    /\ phase = from /\ script = <<>> /\ queue # <<>>
    /\ queue' = Tail(queue)
    /\ Deliver(Head(queue))
    /\ UNCHANGED <<turns, phase, script, graph, messages, call, content>>

Drain ==
    \/ \E from \in {"texts", "lastTexts"} : DrainText(from)
    \/ \E from \in {"events", "lastEvents", "failedEvents"} : DrainEvent(from)

TextsDrained  == texts = 0    /\ GoOn("texts", "events")
EventsDrained == queue = <<>> /\ GoOn("events", "poll")
LastTexts     == texts = 0    /\ GoOn("lastTexts", "lastEvents")

\* result["messages"] without the system prompt
Result == prior \o said

\* mutant: a tool's message stays one
SerializeAsIs(msgs) == msgs

\* The host gets the messages back with the roles of user and assistant.
Serialize(msgs) ==
    [i \in DOMAIN msgs |->
       IF msgs[i].role = "tool" THEN Message("user", msgs[i].about) ELSE msgs[i]]

IsPending(msg) == msg.role = "tool" /\ msg.about \in prepared

\* The messages at some places, in their order.
Kept(msgs, places) ==
    LET kept[n \in 0 .. Len(msgs)] ==
            IF n = 0 THEN <<>>
            ELSE IF n \in places THEN Append(kept[n - 1], msgs[n]) ELSE kept[n - 1]
    IN  kept[Len(msgs)]

PendingActions(msgs) == Kept(msgs, {i \in DOMAIN msgs : IsPending(msgs[i])})

\* mutant: only the last tool message is looked at
LastIsPending(msgs) ==
    LET tools == {i \in DOMAIN msgs : msgs[i].role = "tool"}
    IN  tools # {} /\ IsPending(msgs[CHOOSE i \in tools : \A j \in tools : j <= i])

RequiresUserInput(msgs) == PendingActions(msgs) # <<>>

Closing(msgs) ==
    <<Activity(IF RequiresUserInput(msgs) THEN "awaiting_approval" ELSE "execution.completed"),
      Activity("loop.completed")>>
    \o (IF \E i \in DOMAIN msgs : msgs[i].role = "tool"
        THEN <<Activity("tools.completed")>> ELSE <<>>)
    \o <<Content(RequiresUserInput(msgs))>>
    \o [i \in DOMAIN PendingActions(msgs) |-> Approval(PendingActions(msgs)[i].about)]
    \o <<History(Serialize(msgs))>>

\* mutant: the queue is not drained once more
CloseAtOnce ==
    /\ Proceed("lastEvents", "closing", Closing(Result))
    /\ UNCHANGED <<held, awaiting, wire, workspace, Aside>>

Close ==
    /\ queue = <<>>
    /\ Proceed("lastEvents", "closing", Closing(Result))
    /\ UNCHANGED <<held, awaiting, wire, workspace, Aside>>

\* mutant: a failed turn gives back what was said before it failed
ApologiseWithAll ==
    /\ queue = <<>>
    /\ Proceed("failedEvents", "closing",
               <<Activity("execution.failed"), Content(FALSE), History(Serialize(Result))>>)
    /\ UNCHANGED <<held, awaiting, wire, workspace, Aside>>

\* The except clause of agent.stream.
Apologise ==
    /\ queue = <<>>
    /\ Proceed("failedEvents", "closing",
               <<Activity("execution.failed"), Content(FALSE), History(prior)>>)
    /\ UNCHANGED <<held, awaiting, wire, workspace, Aside>>

Finish ==
    /\ Proceed("closing", "finishing",
               <<Activity(IF awaiting THEN "run.awaiting_input" ELSE "run.completed")>> \o held)
    /\ UNCHANGED <<held, awaiting, wire, workspace, Aside>>

\* run() returns, which destroys the workspace.
Release ==
    /\ Proceed("finishing", "ending", <<>>)
    /\ workspace' = FALSE
    /\ UNCHANGED <<held, awaiting, wire, Aside>>

End ==
    /\ Proceed("ending", "over", <<>>)
    /\ wire' = Append(wire, Finis)
    /\ UNCHANGED <<held, awaiting, workspace, Aside>>

-----------------------------------------------------------------------------

Init ==
    /\ turn = 1 /\ prior = NoHistory
    /\ phase = "upload" /\ script = <<>> /\ held = <<>> /\ awaiting = FALSE
    /\ wire = <<>> /\ workspace = FALSE /\ graph = "none"
    /\ round = {} /\ said = <<>> /\ prepared = {}
    /\ call = [c \in Call |-> "unused"]
    /\ spoken = 0 /\ texts = 0 /\ queue = <<>>

Sent(kind) == {i \in DOMAIN wire : wire[i].kind = kind}
Snapshots  == {wire[i] : i \in Sent("history")}

\* The host hangs up, and keeps the history if it got it.  The generators are
\* closed; the graph is not cancelled.
HangUp ==
    /\ phase \notin {"over", "gone"}
    /\ phase' = "gone" /\ script' = <<>> /\ held' = <<>> /\ awaiting' = FALSE
    /\ \/ Snapshots = {} /\ wire' = <<>>
       \/ \E snapshot \in Snapshots : wire' = <<snapshot>>
    /\ workspace' = FALSE
    /\ UNCHANGED Aside

\* mutant: one content queue serves all runs
KeptQueues  == spoken' = 0 /\ UNCHANGED texts /\ queue' = <<>>

FreshQueues == spoken' = 0 /\ texts' = 0 /\ queue' = <<>>

\* The host sends its next query with the last history it got.  A graph that
\* is still running has queues and an emitter of its own, which nobody reads.
NextTurn ==
    /\ phase \in {"over", "gone"} /\ turn < MaxTurns
    /\ turn' = turn + 1
    /\ \/ Snapshots = {} /\ UNCHANGED prior
       \/ \E snapshot \in Snapshots : prior' = snapshot.messages
    /\ call' = [c \in Call |-> IF call[c] = "unused" THEN "unused" ELSE "spent"]
    /\ phase' = "upload" /\ script' = <<>> /\ held' = <<>> /\ awaiting' = FALSE
    /\ wire' = <<>> /\ workspace' = FALSE /\ graph' = "none"
    /\ round' = {} /\ said' = <<>>
    /\ FreshQueues
    /\ UNCHANGED prepared

HandlerStep ==
    \/ YieldChunk
    \/ UploadFails \/ Upload \/ Open \/ OpenFails \/ Preflight \/ PreflightFails
    \/ Launch \/ Poll \/ Await \/ Drain \/ TextsDrained \/ EventsDrained \/ LastTexts
    \/ Close \/ Apologise \/ Finish \/ Release \/ End

GraphStep ==
    \/ NodeCallback
    \/ ModelSpeaks \/ ModelAnswers \/ ModelFails
    \/ ToolsReturn \/ ToolsRaise

ToolStep(c) == ToolWorks(c) \/ ToolCallback(c)

Next ==
    \/ HandlerStep
    \/ GraphStep
    \/ \E c \in Call : ToolStep(c)
    \/ HangUp
    \/ NextTurn

Spec == Init /\ [][Next]_vars

\* The event loop and the worker threads are scheduled; the model answers or
\* its client gives up, and every tool returns or raises.
FairSpec ==
    /\ Spec
    /\ WF_vars(HandlerStep)
    /\ WF_vars(GraphStep)
    /\ \A c \in Call : WF_vars(ToolStep(c))

-----------------------------------------------------------------------------
(* Properties                                                              *)

\* The variables have their types; the content queue never holds more than the
\* model said, and at most one history snapshot is held back.
TypeOK ==
    /\ turn \in 1 .. MaxTurns
    /\ phase \in Phase
    /\ awaiting \in BOOLEAN /\ workspace \in BOOLEAN
    /\ graph \in NodeEvents \cup {"none", "model", "tools", "ended", "failed"}
    /\ round \subseteq Call /\ prepared \subseteq Call
    /\ call \in [Call -> Reporting \cup Answered \cup {"unused", "working", "raised", "spent"}]
    /\ spoken \in 0 .. MaxTexts[turn] /\ texts \in 0 .. spoken
    /\ Len(held) <= 1

IsEvent(chunk) == chunk.kind = "activity"
Says(chunk, by, what) == IsEvent(chunk) /\ chunk.by = by /\ chunk.what = what

Closed    == \E i \in DOMAIN wire : \/ Says(wire[i], Main, "run.completed")
                                      \/ Says(wire[i], Main, "run.awaiting_input")
Succeeded == Closed /\ graph = "ended"
CalledNow == {said[i].about : i \in {i \in DOMAIN said : said[i].role = "tool"}}

\* How the events of an answered call end.
EndOf == [returned |-> "completed", refused |-> "failed"]

\* A turn that is reported as closed after a successful graph has passed on
\* everything the graph produced: each piece of text, and for each tool call
\* that it started before that it ended, completed or failed as it did; a call
\* of an unknown tool has no events (the drains of agent.stream).
NothingLost ==
    Succeeded =>
        /\ queue = <<>>
        /\ Cardinality(Sent("text")) = spoken
        /\ \A c \in CalledNow :
              \/ /\ call[c] = "unknown"
                 /\ \A i \in DOMAIN wire : ~(IsEvent(wire[i]) /\ wire[i].by = c)
              \/ /\ call[c] \in DOMAIN EndOf
                 /\ \E i, j \in DOMAIN wire : i < j /\ Says(wire[i], c, "started")
                                               /\ Says(wire[j], c, EndOf[call[c]])

\* The history is sent once, after everything else but the end mark, and every
\* turn that is closed sends it (ChatOperationHandler.run holds it back).
HistoryIsLast ==
    /\ \A i \in DOMAIN wire : wire[i].kind = "history" =>
          \A j \in i + 1 .. Len(wire) : wire[j].kind = "done"
    /\ phase = "over" /\ Closed => Snapshots # {}

\* The history a turn gives back is the one it got, or that and a whole
\* exchange that ends with the model's answer: a failed turn leaves no half.
HistoryIsWhole ==
    \A i \in DOMAIN wire : wire[i].kind = "history" =>
        \/ wire[i].messages = prior
        \/ /\ wire[i].messages = Serialize(prior \o said)
           /\ said[Len(said)].role = "assistant"
           /\ graph = "ended"

\* The host is asked to approve exactly the actions that were prepared in this
\* turn, each once: what an earlier turn prepared is not asked again, although
\* its results come back with the history (_pending_actions).
AsksForThisTurn ==
    LET asked == Sent("approval") IN
    /\ \A i \in asked : wire[i].about \in CalledNow \cap prepared
    /\ Succeeded => \A c \in CalledNow \cap prepared :
          \E i \in asked : \A j \in asked : wire[j].about = c <=> j = i

\* The run is closed as waiting for the user exactly when the host was asked to
\* approve something, and the answer sent before says the same.
AwaitingIffAsked ==
    Closed =>
        LET asked == Sent("approval") # {}
        IN  /\ asked <=> \E i \in DOMAIN wire : Says(wire[i], Main, "run.awaiting_input")
            /\ asked <=> \E i \in Sent("content") : wire[i].asks

\* Unless a tool raised or the host hung up, every tool is at work while the
\* workspace it reads is there (RequestWorkspaceLifecycle.open destroys it).
ToolsHaveWorkspace ==
    phase # "gone" /\ graph # "failed" /\ ~workspace =>
        \A c \in Call : call[c] \in {"unused", "spent"} \cup Answered

\* Every turn comes to its end mark, or the host hangs up: no failure of the
\* graph leaves the poll loop waiting.
StreamEnds == phase = "upload" ~> phase \in {"over", "gone"}
=============================================================================
