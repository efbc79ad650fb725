----------------------------- MODULE AgentBridge -----------------------------
(* External coding agents (bridges/, skills/impl/external_agent.py): a child  *)
(* process per session, held in a registry under a handle between the skill  *)
(* calls that start turns, answer the agent's permission questions and close *)
(* the session. The handle also has a pointer in a persisted index, so that  *)
(* a session can be taken up again after its child or this process ended.    *)
(* Everything runs on one event loop: an action is the code between two      *)
(* awaits.                                                                   *)
EXTENDS Integers, FiniteSets

CONSTANTS
    Handle, NoHandle,
    Child, NoChild,     \* the child processes that may be spawned
    Call,               \* the skill calls that may be under way at once
    Request,            \* the permission requests that agents may make
    Tool, NoTool,       \* the names that approvals are remembered under
    MaxRuns             \* bound on the run_task calls

ASSUME NamesAssumption ==
    NoHandle \notin Handle /\ NoChild \notin Child /\ NoTool \notin Tool
ASSUME BoundsAssumption == MaxRuns \in Nat

VARIABLES
    registry,   \* _sessions: the child that is registered under a handle
    index,      \* the handles with a persisted pointer
    grants,     \* the tools with a stored approval (persisted)
    child,      \* the child, its process object and its connection
    turn,       \* the latest turn of the child's session
    episodes,   \* the turns <<c, n>> that are in memory (persisted)
    call,       \* what a skill call waits for
    request,    \* the permission requests and what was answered to them
    runs,       \* run_task calls so far
    consent,    \* history: tools for which a user answered allow_always
    asked,      \* history: handles that close_session was called with
    raced,      \* history: handles that two calls reopened at once
    dismissed   \* history: closed handles that nobody was reopening

ghosts == <<consent, asked, raced, dismissed>>
vars == <<registry, index, grants, child, turn, episodes, call, request,
          runs, ghosts>>

Decision == {"allow_once", "allow_always", "reject"}
Allows == {"allow_once", "allow_always"}

\* opening: initialize and session/new are under way; up: a session exists;
\* closing: close() has begun; closed: the child is gone.
Stage == {"unborn", "opening", "up", "closing", "closed"}
CallState == {"idle", "burying", "opening", "reopening", "aborting",
              "briefing", "waiting", "recording", "noting", "closing"}
ChildRecord == [stage : Stage, handle : Handle \cup {NoHandle},
                exited : BOOLEAN, reading : BOOLEAN]
TurnRecord == [n : Nat, state : {"none", "running", "ended", "cancelled"},
               recorded : BOOLEAN]
CallRecord == [pc : CallState, handle : Handle \cup {NoHandle},
               child : Child \cup {NoChild}, turn : Nat]
\* allowed: the agent was sent an option that allows; after any other outcome
\* the request is as if it had never been.
RequestRecord == [pc : {"unasked", "parked", "answered", "allowed"},
                  child : Child \cup {NoChild}, tool : Tool \cup {NoTool},
                  answer : Decision \cup {"none"}]

TypeOK ==
    /\ registry \in [Handle -> Child \cup {NoChild}]
    /\ index \subseteq Handle
    /\ grants \subseteq Tool
    /\ child \in [Child -> ChildRecord]
    /\ turn \in [Child -> TurnRecord]
    /\ episodes \subseteq Child \X Nat
    /\ call \in [Call -> CallRecord]
    /\ request \in [Request -> RequestRecord]
    /\ runs \in Nat
    /\ consent \subseteq Tool
    /\ asked \subseteq Handle /\ raced \subseteq Handle
    /\ dismissed \subseteq Handle

At(pc, h, c, n) == [pc |-> pc, handle |-> h, child |-> c, turn |-> n]
Idle == At("idle", NoHandle, NoChild, 0)
Goes(t, pc) == call' = [call EXCEPT ![t].pc = pc]
Returns(t) == call' = [call EXCEPT ![t] = Idle]
Unasked == [pc |-> "unasked", child |-> NoChild, tool |-> NoTool,
            answer |-> "none"]
Answered(r, d) == [pc |-> "answered", child |-> r.child, tool |-> r.tool,
                   answer |-> d]
Allowed(x, d) == [pc |-> "allowed", child |-> NoChild, tool |-> x, answer |-> d]

Init ==
    /\ registry = [h \in Handle |-> NoChild]
    /\ index \in SUBSET Handle
    /\ grants = {}
    /\ child = [c \in Child |-> [stage |-> "unborn", handle |-> NoHandle,
                                 exited |-> FALSE, reading |-> FALSE]]
    /\ turn = [c \in Child |-> [n |-> 0, state |-> "none",
                                recorded |-> FALSE]]
    /\ episodes = {}
    /\ call = [t \in Call |-> Idle]
    /\ request = [q \in Request |-> Unasked]
    /\ runs = 0
    /\ consent = {} /\ asked = {} /\ raced = {} /\ dismissed = {}
-----------------------------------------------------------------------------
(* Turns. *)

Alive(c) == child[c].stage = "up" /\ ~child[c].exited
Gone(h) == [stage |-> "closed", handle |-> h, exited |-> TRUE, reading |-> FALSE]

\* start_turn(): the prompt of a session that is being closed raises at once;
\* that of a connection nobody reads is written, or fails on the broken pipe.
StartTurn(c) ==
    /\ turn[c].state # "running"
    /\ \E s \in {"running", "ended"} :
          /\ child[c].stage # "up" => s = "ended"
          /\ child[c].stage = "up" /\ child[c].reading => s = "running"
          /\ turn' = [turn EXCEPT ![c] =
                        [n |-> @.n + 1, state |-> s, recorded |-> FALSE]]

\* The agent answers session/prompt, with a result or an error.
TurnReplies(c) ==
    /\ turn[c].state = "running"
    /\ child[c].reading /\ ~child[c].exited
    /\ turn' = [turn EXCEPT ![c].state = "ended"]
    /\ UNCHANGED <<registry, index, grants, child, episodes, call, request,
                   runs, ghosts>>
-----------------------------------------------------------------------------
(* run_task. *)

\* Calls that found no live session under h and have not registered theirs.
Reopening(h) == {t \in Call : /\ call[t].handle = h
                              /\ call[t].pc \in {"burying", "opening", "reopening"}}
NoteRace(h) == raced' = raced \cup (IF Reopening(h) = {} THEN {} ELSE {h})

NewChild == CHOOSE c \in Child : child[c].stage = "unborn"

\* create_subprocess_exec() and start() of the connection, or they raise.
Spawn(t, h, pc) ==
    \/ /\ \E c \in Child : child[c].stage = "unborn"
       /\ child' = [child EXCEPT ![NewChild] =
                      [stage |-> "opening", handle |-> h, exited |-> FALSE,
                       reading |-> TRUE]]
       /\ call' = [call EXCEPT ![t] = At(pc, h, NewChild, 0)]
    \/ /\ Returns(t)
       /\ UNCHANGED child

MayRun(t) ==
    /\ call[t].pc = "idle"
    /\ runs < MaxRuns
    /\ runs' = runs + 1

\* A live session: its next turn starts.
RunLive(t, h) ==
    /\ MayRun(t)
    /\ registry[h] # NoChild
    /\ Alive(registry[h])
    /\ StartTurn(registry[h])
    /\ call' = [call EXCEPT ![t] = At("waiting", h, registry[h], 0)]
    /\ UNCHANGED <<registry, index, grants, child, episodes, request,
                   ghosts>>

\* The requests of c after reject_all().
Rejected(c) ==
    [q \in Request |->
        IF request[q].child = c /\ request[q].pc = "parked"
        THEN Answered(request[q], "reject")
        ELSE request[q]]

\* SessionRegistry.close() as far as its first await.
BeginClose(h) ==
    LET c == registry[h] IN
    /\ registry' = [registry EXCEPT ![h] = NoChild]
    /\ request' = Rejected(c)
    /\ turn' = [turn EXCEPT ![c].state = IF @ = "running" THEN "cancelled" ELSE @]
    /\ child' = [child EXCEPT ![c].stage = "closing"]

\* Mutant: the dead session is only replaced.
RunDeadUnclosed(t, h) ==
    /\ MayRun(t)
    /\ registry[h] # NoChild
    /\ ~Alive(registry[h])
    /\ turn[registry[h]].state # "running"
    /\ Spawn(t, h, "reopening")
    /\ NoteRace(h)
    /\ UNCHANGED <<registry, index, grants, turn, episodes, request, consent,
                   asked, dismissed>>

\* A session whose child has ended is closed first, and its pointer kept.
RunDead(t, h) ==
    /\ MayRun(t)
    /\ registry[h] # NoChild
    /\ ~Alive(registry[h])
    /\ turn[registry[h]].state # "running"
    /\ BeginClose(h)
    /\ call' = [call EXCEPT ![t] = At("burying", h, registry[h], 0)]
    /\ NoteRace(h)
    /\ UNCHANGED <<index, grants, episodes, consent, asked, dismissed>>

\* A pointer of a session that is not live is taken up again.
RunReattach(t, h) ==
    /\ MayRun(t)
    /\ registry[h] = NoChild
    /\ h \in index
    /\ Spawn(t, h, "reopening")
    /\ NoteRace(h)
    /\ UNCHANGED <<registry, index, grants, turn, episodes, request,
                   consent, asked, dismissed>>

\* No pointer: a new session, under a handle that was never used.
RunFresh(t, h) ==
    /\ MayRun(t)
    /\ h \notin index \cup asked
    /\ \A c \in Child : child[c].handle # h
    /\ Spawn(t, h, "opening")
    /\ UNCHANGED <<registry, index, grants, turn, episodes, request,
                   ghosts>>

\* Mutant: touch() writes the record it is given.
Rewrite(h) == index \cup {h}

\* touch() updates last_active and turns of the pointer, if it is there.
Touch(h) == index

\* Mutant: the dead session is closed as if the user had asked for it.
BuriedAndForgotten(t) ==
    /\ call[t].pc = "burying"
    /\ child[call[t].child].stage = "closed"
    /\ index' = index \ {call[t].handle}
    /\ Returns(t)
    /\ UNCHANGED <<registry, grants, child, turn, episodes, request, runs, ghosts>>

\* The dead session is closed: the pointer is read, and may be gone.
Buried(t) ==
    LET h == call[t].handle IN
    /\ call[t].pc = "burying"
    /\ child[call[t].child].stage = "closed"
    /\ index' = Touch(h)
    /\ \/ h \in index' /\ Spawn(t, h, "reopening")
       \/ h \notin index' /\ Returns(t) /\ UNCHANGED child
    /\ UNCHANGED <<registry, grants, turn, episodes, request, runs, ghosts>>

\* open() has the answer to session/new or to a reattachment. An agent that
\* cannot reattach is briefed from memory before its turn starts.
Opened(t) ==
    LET h == call[t].handle
        c == call[t].child IN
    /\ call[t].pc \in {"opening", "reopening"}
    /\ child' = [child EXCEPT ![c].stage = "up"]
    /\ registry' = [registry EXCEPT ![h] = c]
    /\ index' = index \cup {h}
    /\ UNCHANGED <<grants, episodes, request, runs, ghosts>>

OpenSucceeds(t) ==
    /\ Opened(t)
    /\ turn' = [turn EXCEPT ![call[t].child] =
                  [n |-> @.n + 1, state |-> "running", recorded |-> FALSE]]
    /\ Goes(t, "waiting")

OpenStartsAnew(t) ==
    /\ Opened(t)
    /\ call[t].pc = "reopening"
    /\ Goes(t, "briefing")
    /\ UNCHANGED turn

\* A refusal, a timeout or the end of the child: process.close().
OpenFails(t) ==
    /\ call[t].pc \in {"opening", "reopening"}
    /\ child' = [child EXCEPT ![call[t].child].stage = "closing"]
    /\ Goes(t, "aborting")
    /\ UNCHANGED <<registry, index, grants, turn, episodes, request, runs, ghosts>>

Aborted(t) ==
    /\ call[t].pc = "aborting"
    /\ child[call[t].child].stage = "closed"
    /\ Returns(t)
    /\ UNCHANGED <<registry, index, grants, child, turn, episodes, request,
                   runs, ghosts>>

\* The last turn has been read from memory. Another call may have started a
\* turn on the new session meanwhile: start_turn() raises.
Briefed(t) ==
    /\ call[t].pc = "briefing"
    /\ \/ StartTurn(call[t].child) /\ Goes(t, "waiting")
       \/ turn[call[t].child].state = "running" /\ Returns(t) /\ UNCHANGED turn
    /\ UNCHANGED <<registry, index, grants, child, episodes, request, runs, ghosts>>
-----------------------------------------------------------------------------
(* The end of a turn, as the calls that wait for it see it. *)

\* A permission question or the deadline ends the wait; so does the turn when
\* it is recorded already, or was cancelled, whose result() raises.
StopWaiting(t) ==
    /\ call[t].pc = "waiting"
    /\ turn[call[t].child].state = "ended" => turn[call[t].child].recorded
    /\ index' = Touch(call[t].handle)
    /\ Returns(t)
    /\ UNCHANGED <<registry, grants, child, turn, episodes, request, runs, ghosts>>

\* Mutant: the flag is not set before the episode is written.
RecordUnmarked(t, c, pc) ==
    /\ ~turn[c].recorded
    /\ UNCHANGED turn
    /\ call' = [call EXCEPT ![t] = At(pc, @.handle, c, turn[c].n)]

\* _record_turn(): the flag is set, then the episode is awaited.
Record(t, c, pc) ==
    /\ ~turn[c].recorded
    /\ turn' = [turn EXCEPT ![c].recorded = TRUE]
    /\ call' = [call EXCEPT ![t] = At(pc, @.handle, c, turn[c].n)]

RecordTurn(t) ==
    /\ call[t].pc = "waiting"
    /\ turn[call[t].child].state = "ended"
    /\ Record(t, call[t].child, "recording")
    /\ UNCHANGED <<registry, index, grants, child, episodes, request, runs, ghosts>>

EpisodeWritten(t) ==
    /\ call[t].pc = "recording"
    /\ episodes' = episodes \cup {<<call[t].child, call[t].turn>>}
    /\ index' = Touch(call[t].handle)
    /\ Returns(t)
    /\ UNCHANGED <<registry, grants, child, turn, request, runs, ghosts>>
-----------------------------------------------------------------------------
(* close_session. *)

\* registry.close() of what is registered under h now. A session/cancel that
\* is sent before changes nothing here but what the agent may reply to.
CloseRegistered(t, h) ==
    IF registry[h] # NoChild
    THEN /\ BeginClose(h)
         /\ call' = [call EXCEPT ![t] = At("closing", h, registry[h], 0)]
    ELSE /\ Returns(t)
         /\ UNCHANGED <<registry, child, turn, request>>

\* A turn that is not in memory yet goes there first, as interrupted.
CloseSession(t, h) ==
    LET c == registry[h] IN
    /\ call[t].pc = "idle"
    /\ c # NoChild
    /\ asked' = asked \cup {h}
    /\ IF turn[c].n > 0 /\ ~turn[c].recorded
       THEN /\ turn' = [turn EXCEPT ![c].recorded = TRUE]
            /\ call' = [call EXCEPT ![t] = At("noting", h, c, turn[c].n)]
            /\ UNCHANGED <<registry, child, request>>
       ELSE CloseRegistered(t, h)
    /\ UNCHANGED <<index, grants, episodes, runs, consent, raced, dismissed>>

InterruptionNoted(t) ==
    /\ call[t].pc = "noting"
    /\ episodes' = episodes \cup {<<call[t].child, call[t].turn>>}
    /\ CloseRegistered(t, call[t].handle)
    /\ UNCHANGED <<index, grants, runs, ghosts>>

Dismiss(h) ==
    dismissed' = dismissed \cup
        (IF registry[h] = NoChild /\ Reopening(h) = {} THEN {h} ELSE {})

\* The child has ended; the pointer is dropped.
Closed(t) ==
    /\ call[t].pc = "closing"
    /\ child[call[t].child].stage = "closed"
    /\ index' = index \ {call[t].handle}
    /\ Dismiss(call[t].handle)
    /\ Returns(t)
    /\ UNCHANGED <<registry, grants, child, turn, episodes, request, runs, consent, asked, raced>>

\* A session that is not live has only its pointer to drop.
CloseForgotten(t, h) ==
    /\ call[t].pc = "idle"
    /\ registry[h] = NoChild
    /\ h \in index
    /\ index' = index \ {h}
    /\ asked' = asked \cup {h}
    /\ Dismiss(h)
    /\ UNCHANGED <<registry, grants, child, turn, episodes, call, request, runs, consent, raced>>
-----------------------------------------------------------------------------
(* Permission requests. *)

\* A stored approval answers the request; any other is parked for a human: the
\* allowlist policy, the default. The branches of check_approval for the
\* policies "full access" and "deny", which ask nobody, are left out. A request
\* that is over makes room for the next.
Ask(q, c, x) ==
    /\ request[q].pc \in {"unasked", "allowed"}
    /\ turn[c].state = "running"
    /\ child[c].reading /\ ~child[c].exited
    /\ request' = [request EXCEPT ![q] =
                     IF x \in grants THEN Allowed(x, "none")
                     ELSE [pc |-> "parked", child |-> c, tool |-> x,
                           answer |-> "none"]]
    /\ UNCHANGED <<registry, index, grants, child, turn, episodes, call, runs, ghosts>>

\* respond_permission: the request is looked for in the registered sessions.
Respond(t, h, q, d) ==
    /\ call[t].pc = "idle"
    /\ request[q].pc = "parked"
    /\ registry[h] = request[q].child
    /\ request' = [request EXCEPT ![q] = Answered(@, d)]
    /\ call' = [call EXCEPT ![t] = At("waiting", h, request[q].child, 0)]
    /\ UNCHANGED <<registry, index, grants, child, turn, episodes, runs, ghosts>>

\* Mutant: every answer that allows is stored.
RememberAnyAllow(x, d) == IF d \in Allows THEN grants \cup {x} ELSE grants

\* Mutant: the option is stored in the place of the tool.
RememberOption(x, d) == IF d = "allow_always" THEN grants \cup {d} ELSE grants

\* The approvals after the answer d to a request for x.
Remember(x, d) == IF d = "allow_always" THEN grants \cup {x} ELSE grants

\* The broker gets the answer and the agent its outcome.
Deliver(q) ==
    LET x == request[q].tool
        d == request[q].answer IN
    /\ request[q].pc = "answered"
    /\ request' = [request EXCEPT ![q] = IF d \in Allows THEN Allowed(x, d)
                                         ELSE Unasked]
    /\ grants' = Remember(x, d)
    /\ consent' = IF d = "allow_always" THEN consent \cup {x} ELSE consent
    /\ UNCHANGED <<registry, index, child, turn, episodes, call, runs, asked, raced, dismissed>>

\* Mutant: the timer belongs to the turn.
TimeOutOfTheTurn(q) ==
    /\ request[q].pc \in {"parked", "answered"}
    /\ turn[request[q].child].state = "running"
    /\ request' = [request EXCEPT ![q] = Unasked]
    /\ UNCHANGED <<registry, index, grants, child, turn, episodes, call, runs,
                   ghosts>>

\* The timer of the broker: the answer is no, even to a request that has been
\* answered while the broker has not run since.
TimeOut(q) ==
    /\ request[q].pc \in {"parked", "answered"}
    /\ request' = [request EXCEPT ![q] = Unasked]
    /\ UNCHANGED <<registry, index, grants, child, turn, episodes, call, runs, ghosts>>
-----------------------------------------------------------------------------
(* Children and their connections. The end of a child that is being opened   *)
(* is in OpenFails, of one that is being closed in ChildEnds.                *)

ChildExits(c) ==
    /\ child[c].stage = "up"
    /\ ~child[c].exited
    /\ child' = [child EXCEPT ![c].exited = TRUE]
    /\ UNCHANGED <<registry, index, grants, turn, episodes, call, request,
                   runs, ghosts>>

\* End of file, or a line beyond the limit of the stream: pending requests
\* fail, and the connection does not count as closed.
ReaderEnds(c) ==
    /\ child[c].stage = "up"
    /\ child[c].reading
    /\ child' = [child EXCEPT ![c].reading = FALSE]
    /\ turn' = [turn EXCEPT ![c].state = IF @ = "running" THEN "ended" ELSE @]
    /\ UNCHANGED <<registry, index, grants, episodes, call, request, runs, ghosts>>

\* Mutant: the child is neither terminated nor killed.
ChildEndsByItself(c) ==
    /\ child[c].stage = "closing"
    /\ child[c].exited
    /\ child' = [child EXCEPT ![c].stage = "closed", ![c].reading = FALSE]
    /\ request' = [q \in Request |->
                     IF /\ request[q].child = c
                        /\ request[q].pc \in {"parked", "answered"}
                     THEN Unasked ELSE request[q]]
    /\ UNCHANGED <<registry, index, grants, turn, episodes, call, runs, ghosts>>

\* close() of a child: session/close is answered or its ten seconds are over,
\* the connection is closed and the handlers that wait in the broker are
\* cancelled; then the child goes, by itself, terminated or killed.
ChildEnds(c) ==
    /\ child[c].stage = "closing"
    /\ child' = [child EXCEPT ![c] = Gone(@.handle)]
    /\ request' = [q \in Request |->
                     IF /\ request[q].child = c
                        /\ request[q].pc \in {"parked", "answered"}
                     THEN Unasked ELSE request[q]]
    /\ UNCHANGED <<registry, index, grants, turn, episodes, call, runs, ghosts>>

\* This process ends and starts again. Its children end with their pipes.
Restart ==
    /\ registry' = [h \in Handle |-> NoChild]
    /\ child' = [c \in Child |->
                   IF child[c].stage = "unborn" THEN child[c]
                   ELSE Gone(child[c].handle)]
    /\ turn' = [c \in Child |->
                  [turn[c] EXCEPT !.state = IF @ = "running" THEN "cancelled"
                                            ELSE @]]
    /\ call' = [t \in Call |-> Idle]
    /\ request' = [q \in Request |->
                     IF request[q].pc \in {"parked", "answered"}
                     THEN Unasked ELSE request[q]]
    /\ UNCHANGED <<index, grants, episodes, runs, ghosts>>
-----------------------------------------------------------------------------
\* What a call does once it has begun.
CallStep(t) ==
    \/ Buried(t) \/ OpenSucceeds(t) \/ OpenStartsAnew(t) \/ OpenFails(t)
    \/ Aborted(t) \/ Briefed(t) \/ StopWaiting(t) \/ RecordTurn(t)
    \/ EpisodeWritten(t) \/ InterruptionNoted(t) \/ Closed(t)

Next ==
    \/ \E t \in Call :
          \/ CallStep(t)
          \/ \E h \in Handle :
                \/ RunLive(t, h) \/ RunDead(t, h) \/ RunReattach(t, h)
                \/ RunFresh(t, h) \/ CloseSession(t, h) \/ CloseForgotten(t, h)
                \/ \E q \in Request, d \in Decision : Respond(t, h, q, d)
    \/ \E q \in Request :
          \/ Deliver(q) \/ TimeOut(q)
          \/ \E c \in Child, x \in Tool : Ask(q, c, x)
    \/ \E c \in Child :
          \/ TurnReplies(c) \/ ChildExits(c) \/ ReaderEnds(c) \/ ChildEnds(c)
    \/ Restart

Spec == Init /\ [][Next]_vars

\* Awaits come back: the loop runs what is ready, every wait of a call has a
\* deadline, the broker has a timer, memory answers, and a child that is
\* killed comes to an end. Agents and users owe nothing.
Fairness ==
    /\ \A t \in Call : WF_vars(CallStep(t))
    /\ \A q \in Request : WF_vars(TimeOut(q))
    /\ \A c \in Child : WF_vars(ChildEnds(c))

FairSpec == Spec /\ Fairness
-----------------------------------------------------------------------------
(* Properties. *)

\* "Nothing is ever auto-allowed": whatever the interleaving of answers,
\* timers, closings and restarts, under the allowlist policy an agent is allowed
\* something only by a user's answer to that request, or to an earlier one for
\* the same tool that said always.
ConsentOnly ==
    \A q \in Request : request[q].pc = "allowed" =>
        \/ request[q].answer \in Allows
        \/ request[q].answer = "none" /\ request[q].tool \in consent

Writing(t) == call[t].pc \in {"recording", "noting"}

\* However many calls see a turn end, and one closes it while others wait for
\* it, the turn goes into memory at most once.
OneEpisodePerTurn ==
    \A t \in Call : Writing(t) =>
        /\ <<call[t].child, call[t].turn>> \notin episodes
        /\ \A u \in Call \ {t} :
              Writing(u) => \/ call[u].child # call[t].child
                            \/ call[u].turn # call[t].turn

\* A session that is up can be found under its handle, so that no agent runs
\* that nobody can question, answer or close; except where two calls were
\* reopening the handle at once, and the later one displaced the earlier.
HeldWhileUp ==
    \A c \in Child :
        child[c].stage = "up" /\ child[c].handle \notin raced
            => registry[child[c].handle] = c

\* A session that a user has closed stays closed: no call that was waiting
\* for its turn, and no restart, brings its handle back.
ClosedStaysClosed ==
    \A h \in dismissed : h \notin index /\ registry[h] = NoChild

\* A handle keeps its pointer, over the end of the agent or of this process,
\* until somebody asks to close it.
HandlesStayUsable ==
    [][\A h \in index : h \in index' \/ h \in asked']_vars

\* Every skill call returns, whatever agents and users do or leave undone.
CallsReturn == \A t \in Call : call[t].pc # "idle" ~> call[t].pc = "idle"

\* Every question of an agent is settled, answered by a user or not.
RequestsSettle ==
    \A q \in Request :
        request[q].pc \in {"parked", "answered"}
            ~> request[q].pc \notin {"parked", "answered"}
=============================================================================
