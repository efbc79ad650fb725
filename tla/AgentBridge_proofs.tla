------------------------- MODULE AgentBridge_proofs -------------------------
(* Proofs about AgentBridge.tla, for any handles, children, calls, requests  *)
(* and tools, and any number of turns and restarts.                          *)
EXTENDS AgentBridge, TLAPS

\* The calls that are about to register a child.
Reopens(t) == call[t].pc \in {"burying", "opening", "reopening"}
Opens(t) == call[t].pc \in {"opening", "reopening"}

\* A call that is under way has a handle and a child, and the child it opens
\* or buries is one of that handle.
Matches(t) ==
    /\ call[t].handle \in Handle
    /\ call[t].child \in Child
    /\ Reopens(t) => child[call[t].child].handle = call[t].handle
    /\ Opens(t) => child[call[t].child].stage = "opening"
    /\ call[t].pc = "burying" => child[call[t].child].stage \in {"closing", "closed"}
    /\ call[t].pc \in {"noting", "closing"} => call[t].handle \in asked

CallsMatch == \A t \in Call : call[t].pc # "idle" => Matches(t)

OneOpener ==
    \A t, u \in Call :
        Opens(t) /\ Opens(u) /\ call[t].child = call[u].child => t = u

\* What is registered is up and belongs to the handle.
RegisteredUp ==
    \A h \in Handle : registry[h] # NoChild =>
        /\ child[registry[h]].stage = "up"
        /\ child[registry[h]].handle = h

ChildrenHaveHandles ==
    \A c \in Child : child[c].stage # "unborn" => child[c].handle \in Handle

\* Without a race, whoever reopens a handle is alone and finds it free.
ReopenedAlone ==
    \A t \in Call : Reopens(t) /\ call[t].handle \notin raced =>
        /\ registry[call[t].handle] = NoChild
        /\ \A u \in Call : Reopens(u) /\ call[u].handle = call[t].handle => u = t

\* Nobody is about to register a handle that was dismissed.
DismissedAlone ==
    \A h \in dismissed :
        /\ h \in asked
        /\ \A t \in Call : Reopens(t) => call[t].handle # h

Sessions ==
    /\ CallsMatch /\ OneOpener /\ RegisteredUp /\ ReopenedAlone /\ HeldWhileUp
    /\ DismissedAlone /\ ClosedStaysClosed /\ ChildrenHaveHandles

\* A turn that is in memory, or on its way there, is marked.
TurnsMarked ==
    /\ \A t \in Call : Writing(t) =>
          /\ call[t].child \in Child
          /\ call[t].turn <= turn[call[t].child].n
          /\ call[t].turn = turn[call[t].child].n => turn[call[t].child].recorded
    /\ \A c \in Child, n \in Nat : <<c, n>> \in episodes =>
          /\ n <= turn[c].n
          /\ n = turn[c].n => turn[c].recorded

\* A stored approval was given by a user who said always.
GrantsConsented == grants \subseteq consent

ParkedHasChild ==
    \A q \in Request : request[q].pc \in {"parked", "answered"} =>
        request[q].child \in Child /\ request[q].tool \in Tool

------------------------------------------------------------------------------
(* The steps. *)

LEMMA Steps ==
    ASSUME [Next]_vars,
           NEW ACTION P,
           UNCHANGED vars => P,
           \A t \in Call : Buried(t) => P,
           \A t \in Call : OpenSucceeds(t) => P,
           \A t \in Call : OpenStartsAnew(t) => P,
           \A t \in Call : OpenFails(t) => P,
           \A t \in Call : Aborted(t) => P,
           \A t \in Call : Briefed(t) => P,
           \A t \in Call : StopWaiting(t) => P,
           \A t \in Call : RecordTurn(t) => P,
           \A t \in Call : EpisodeWritten(t) => P,
           \A t \in Call : InterruptionNoted(t) => P,
           \A t \in Call : Closed(t) => P,
           \A t \in Call, h \in Handle : RunLive(t, h) => P,
           \A t \in Call, h \in Handle : RunDead(t, h) => P,
           \A t \in Call, h \in Handle : RunReattach(t, h) => P,
           \A t \in Call, h \in Handle : RunFresh(t, h) => P,
           \A t \in Call, h \in Handle : CloseSession(t, h) => P,
           \A t \in Call, h \in Handle : CloseForgotten(t, h) => P,
           \A t \in Call, h \in Handle, q \in Request, d \in Decision :
               Respond(t, h, q, d) => P,
           \A q \in Request : Deliver(q) => P,
           \A q \in Request : TimeOut(q) => P,
           \A q \in Request, c \in Child, x \in Tool : Ask(q, c, x) => P,
           \A c \in Child : TurnReplies(c) => P,
           \A c \in Child : ChildExits(c) => P,
           \A c \in Child : ReaderEnds(c) => P,
           \A c \in Child : ChildEnds(c) => P,
           Restart => P
    PROVE  P
  BY DEF Next, CallStep

\* The child that is spawned is one that was not there.
LEMMA NewChildIsUnborn ==
    ASSUME \E c \in Child : child[c].stage = "unborn"
    PROVE  NewChild \in Child /\ child[NewChild].stage = "unborn"
  BY DEF NewChild

\* Spawn() either opens a child or ends the call.
LEMMA SpawnCases ==
    ASSUME NEW t \in Call, NEW h \in Handle, NEW pc \in CallState, Spawn(t, h, pc)
    PROVE  \/ \E c \in Child :
                 /\ child[c].stage = "unborn"
                 /\ child' = [child EXCEPT ![c] =
                                [stage |-> "opening", handle |-> h,
                                 exited |-> FALSE, reading |-> TRUE]]
                 /\ call' = [call EXCEPT ![t] = At(pc, h, c, 0)]
           \/ call' = [call EXCEPT ![t] = Idle] /\ child' = child
  BY NewChildIsUnborn DEF Spawn, Returns

LEMMA BeginCloseType ==
    ASSUME TypeOK, NEW h \in Handle, registry[h] # NoChild, BeginClose(h)
    PROVE  /\ registry' \in [Handle -> Child \cup {NoChild}]
           /\ child' \in [Child -> ChildRecord]
           /\ turn' \in [Child -> TurnRecord]
           /\ request' \in [Request -> RequestRecord]
<1>1. registry[h] \in Child
  BY DEF TypeOK
<1>2. request' = Rejected(registry[h])
  BY DEF BeginClose
<1>3. request' \in [Request -> RequestRecord]
  <2>1. ASSUME NEW q \in Request
        PROVE  Answered(request[q], "reject") \in RequestRecord
    BY DEF TypeOK, RequestRecord, Decision, Answered
  <2>2. \A q \in Request : request[q] \in RequestRecord
    BY DEF TypeOK
  <2> QED
    BY <1>2, <2>1, <2>2 DEF Rejected
<1>4. child' \in [Child -> ChildRecord]
  BY <1>1 DEF TypeOK, BeginClose, ChildRecord, Stage
<1>5. turn' \in [Child -> TurnRecord]
  BY <1>1 DEF TypeOK, BeginClose, TurnRecord
<1> QED
  BY <1>3, <1>4, <1>5 DEF TypeOK, BeginClose

\* The types after a step, but for the variables that most steps leave alone.
LEMMA CallType ==
    ASSUME TypeOK, NEW t \in Call, NEW pc \in CallState,
           NEW h \in Handle \cup {NoHandle}, NEW c \in Child \cup {NoChild},
           NEW n \in Nat
    PROVE  [call EXCEPT ![t] = At(pc, h, c, n)] \in [Call -> CallRecord]
  BY DEF TypeOK, At, CallRecord

LEMMA ReturnsType ==
    ASSUME TypeOK, NEW t \in Call, Returns(t)
    PROVE  call' \in [Call -> CallRecord]
  BY DEF TypeOK, Returns, Idle, At, CallRecord, CallState

LEMMA GoesType ==
    ASSUME TypeOK, NEW t \in Call, NEW pc \in CallState, Goes(t, pc)
    PROVE  call' \in [Call -> CallRecord]
  BY DEF TypeOK, Goes, CallRecord

LEMMA StartTurnType ==
    ASSUME TypeOK, NEW c \in Child, StartTurn(c)
    PROVE  turn' \in [Child -> TurnRecord]
  BY DEF TypeOK, StartTurn, TurnRecord

LEMMA SpawnType ==
    ASSUME TypeOK, NEW t \in Call, NEW h \in Handle, NEW pc \in CallState,
           Spawn(t, h, pc)
    PROVE  /\ child' \in [Child -> ChildRecord]
           /\ call' \in [Call -> CallRecord]
<1>1. ASSUME NEW c \in Child,
             child' = [child EXCEPT ![c] =
                         [stage |-> "opening", handle |-> h, exited |-> FALSE,
                          reading |-> TRUE]],
             call' = [call EXCEPT ![t] = At(pc, h, c, 0)]
      PROVE  /\ child' \in [Child -> ChildRecord]
             /\ call' \in [Call -> CallRecord]
  BY <1>1, CallType DEF TypeOK, ChildRecord, Stage
<1>2. ASSUME call' = [call EXCEPT ![t] = Idle], child' = child
      PROVE  /\ child' \in [Child -> ChildRecord]
             /\ call' \in [Call -> CallRecord]
  BY <1>2, ReturnsType DEF TypeOK, Returns
<1> QED
  BY <1>1, <1>2, SpawnCases

\* Every step keeps TypeOK.
LEMMA TypeStep == TypeOK /\ CallsMatch /\ ParkedHasChild /\ [Next]_vars => TypeOK'
<1> SUFFICES ASSUME TypeOK, CallsMatch, ParkedHasChild, [Next]_vars PROVE TypeOK'
  OBVIOUS
<1> USE DEF ghosts
<1>1. UNCHANGED vars => TypeOK'
  BY DEF TypeOK, vars
<1>2. ASSUME NEW t \in Call, Buried(t) PROVE TypeOK'
  <2>1. call[t].handle \in Handle
    BY <1>2 DEF CallsMatch, Matches, Buried
  <2>2. child' \in [Child -> ChildRecord] /\ call' \in [Call -> CallRecord]
    BY <1>2, <2>1, SpawnType, ReturnsType DEF Buried, TypeOK, CallState
  <2> QED
    BY <1>2, <2>1, <2>2 DEF TypeOK, Buried, Touch
<1>3. ASSUME NEW t \in Call, OpenSucceeds(t) \/ OpenStartsAnew(t) PROVE TypeOK'
  <2>1. call[t].handle \in Handle /\ call[t].child \in Child
    BY <1>3 DEF CallsMatch, Matches, OpenSucceeds, OpenStartsAnew, Opened
  <2>2. call' \in [Call -> CallRecord]
    BY <1>3, GoesType DEF OpenSucceeds, OpenStartsAnew, CallState
  <2>3. turn' \in [Child -> TurnRecord]
    <3>1. [n |-> turn[call[t].child].n + 1, state |-> "running", recorded |-> FALSE]
             \in TurnRecord
      BY <2>1 DEF TypeOK, TurnRecord
    <3> QED
      BY <1>3, <2>1, <3>1 DEF TypeOK, OpenSucceeds, OpenStartsAnew
  <2>4. Opened(t)
    BY <1>3 DEF OpenSucceeds, OpenStartsAnew
  <2>5. child' \in [Child -> ChildRecord]
    BY <2>1, <2>4 DEF TypeOK, Opened, ChildRecord, Stage
  <2> QED
    BY <2>1, <2>2, <2>3, <2>4, <2>5 DEF TypeOK, Opened
<1>4. ASSUME NEW t \in Call, OpenFails(t) PROVE TypeOK'
  <2>1. call' \in [Call -> CallRecord]
    BY <1>4, GoesType DEF OpenFails, CallState
  <2> QED
    BY <1>4, <2>1 DEF TypeOK, OpenFails, ChildRecord, Stage
<1>5. ASSUME NEW t \in Call, Aborted(t) \/ StopWaiting(t) PROVE TypeOK'
  BY <1>5, ReturnsType DEF TypeOK, Aborted, StopWaiting, Touch
<1>6. ASSUME NEW t \in Call, Briefed(t) PROVE TypeOK'
  <2>1. call[t].child \in Child
    BY <1>6 DEF CallsMatch, Matches, Briefed
  <2>2. call' \in [Call -> CallRecord]
    BY <1>6, GoesType, ReturnsType DEF Briefed, CallState
  <2>3. turn' \in [Child -> TurnRecord]
    BY <1>6, <2>1, StartTurnType DEF TypeOK, Briefed
  <2> QED
    BY <1>6, <2>2, <2>3 DEF TypeOK, Briefed
<1>7. ASSUME NEW t \in Call, RecordTurn(t) PROVE TypeOK'
  <2>1. call[t].child \in Child /\ turn[call[t].child].n \in Nat
    BY <1>7 DEF CallsMatch, Matches, RecordTurn, TypeOK, TurnRecord
  <2>2. /\ turn' = [turn EXCEPT ![call[t].child].recorded = TRUE]
        /\ call' = [call EXCEPT ![t] = At("recording", call[t].handle, call[t].child,
                                          turn[call[t].child].n)]
    BY <1>7 DEF RecordTurn, Record
  <2>3. call' \in [Call -> CallRecord]
    <3>1. call[t].handle \in Handle \cup {NoHandle} /\ "recording" \in CallState
      BY DEF TypeOK, CallRecord, CallState
    <3> QED
      BY <2>1, <2>2, <3>1, CallType
  <2>4. turn' \in [Child -> TurnRecord]
    BY <2>1, <2>2 DEF TypeOK, TurnRecord
  <2> QED
    BY <1>7, <2>3, <2>4 DEF TypeOK, RecordTurn
<1>8. ASSUME NEW t \in Call, EpisodeWritten(t) PROVE TypeOK'
  <2>1. call[t].child \in Child /\ call[t].turn \in Nat
    BY <1>8 DEF CallsMatch, Matches, EpisodeWritten, TypeOK, CallRecord
  <2> QED
    BY <1>8, <2>1, ReturnsType DEF TypeOK, EpisodeWritten, Touch
<1>9. ASSUME NEW t \in Call, NEW h \in Handle, CloseRegistered(t, h)
      PROVE  /\ registry' \in [Handle -> Child \cup {NoChild}]
             /\ child' \in [Child -> ChildRecord]
             /\ turn' \in [Child -> TurnRecord]
             /\ request' \in [Request -> RequestRecord]
             /\ call' \in [Call -> CallRecord]
  <2>1. CASE registry[h] # NoChild
    <3>1. BeginClose(h) /\ call' = [call EXCEPT ![t] = At("closing", h, registry[h], 0)]
      BY <1>9, <2>1 DEF CloseRegistered
    <3>2. registry[h] \in Child \cup {NoChild} /\ "closing" \in CallState
      BY DEF TypeOK, CallState
    <3> QED
      BY <3>1, <3>2, <2>1, BeginCloseType, CallType
  <2>2. CASE registry[h] = NoChild
    BY <1>9, <2>2, ReturnsType DEF CloseRegistered, TypeOK
  <2> QED
    BY <2>1, <2>2
<1>10. ASSUME NEW t \in Call, InterruptionNoted(t) PROVE TypeOK'
  <2>1. /\ call[t].handle \in Handle /\ call[t].child \in Child
        /\ call[t].turn \in Nat
    BY <1>10 DEF CallsMatch, Matches, InterruptionNoted, TypeOK, CallRecord
  <2> QED
    BY <1>10, <2>1, <1>9 DEF TypeOK, InterruptionNoted
<1>11. ASSUME NEW t \in Call, Closed(t) PROVE TypeOK'
  <2>1. call[t].handle \in Handle
    BY <1>11 DEF CallsMatch, Matches, Closed
  <2> QED
    BY <1>11, <2>1, ReturnsType DEF TypeOK, Closed, Dismiss
<1>12. ASSUME NEW t \in Call, NEW h \in Handle, RunLive(t, h) PROVE TypeOK'
  <2>1. registry[h] \in Child /\ "waiting" \in CallState
    BY <1>12 DEF TypeOK, RunLive, CallState
  <2>2. turn' \in [Child -> TurnRecord]
    BY <1>12, <2>1, StartTurnType DEF RunLive
  <2>3. call' \in [Call -> CallRecord]
    BY <1>12, <2>1, CallType DEF RunLive
  <2> QED
    BY <1>12, <2>2, <2>3 DEF TypeOK, RunLive, MayRun
<1>13. ASSUME NEW t \in Call, NEW h \in Handle, RunDead(t, h) PROVE TypeOK'
  <2>1. registry[h] \in Child /\ registry[h] # NoChild /\ "burying" \in CallState
    BY <1>13, NamesAssumption DEF TypeOK, RunDead, CallState
  <2>2. call' \in [Call -> CallRecord]
    BY <1>13, <2>1, CallType DEF RunDead
  <2> QED
    BY <1>13, <2>1, <2>2, BeginCloseType DEF TypeOK, RunDead, MayRun, NoteRace
<1>14. ASSUME NEW t \in Call, NEW h \in Handle, RunReattach(t, h) PROVE TypeOK'
  <2>1. child' \in [Child -> ChildRecord] /\ call' \in [Call -> CallRecord]
    BY <1>14, SpawnType DEF RunReattach, CallState
  <2> QED
    BY <1>14, <2>1 DEF TypeOK, RunReattach, MayRun, NoteRace
<1>15. ASSUME NEW t \in Call, NEW h \in Handle, RunFresh(t, h) PROVE TypeOK'
  <2>1. child' \in [Child -> ChildRecord] /\ call' \in [Call -> CallRecord]
    BY <1>15, SpawnType DEF RunFresh, CallState
  <2> QED
    BY <1>15, <2>1 DEF TypeOK, RunFresh, MayRun
<1>16. ASSUME NEW t \in Call, NEW h \in Handle, CloseSession(t, h) PROVE TypeOK'
  <2>1. registry[h] \in Child /\ "noting" \in CallState
    BY <1>16 DEF TypeOK, CloseSession, CallState
  <2>2. turn[registry[h]].n \in Nat
    BY <2>1 DEF TypeOK, TurnRecord
  <2>3. CASE turn[registry[h]].n > 0 /\ ~turn[registry[h]].recorded
    <3>1. call' \in [Call -> CallRecord]
      BY <1>16, <2>1, <2>2, <2>3, CallType DEF CloseSession
    <3>2. turn' \in [Child -> TurnRecord]
      <4>1. turn' = [turn EXCEPT ![registry[h]].recorded = TRUE]
        BY <1>16, <2>3 DEF CloseSession
      <4> QED
        BY <2>1, <4>1 DEF TypeOK, TurnRecord
    <3>3. /\ asked' = asked \cup {h}
          /\ UNCHANGED <<registry, child, request, index, grants, episodes, runs,
                         consent, raced, dismissed>>
      BY <1>16, <2>3 DEF CloseSession
    <3> QED
      BY <3>1, <3>2, <3>3 DEF TypeOK
  <2>4. CASE ~(turn[registry[h]].n > 0 /\ ~turn[registry[h]].recorded)
    BY <1>16, <2>4, <1>9 DEF TypeOK, CloseSession
  <2> QED
    BY <2>3, <2>4
<1>17. ASSUME NEW t \in Call, NEW h \in Handle, CloseForgotten(t, h) PROVE TypeOK'
  BY <1>17 DEF TypeOK, CloseForgotten, Dismiss
<1>18. ASSUME NEW t \in Call, NEW h \in Handle, NEW q \in Request, NEW d \in Decision,
              Respond(t, h, q, d)
       PROVE  TypeOK'
  <2>1. request[q].child \in Child /\ "waiting" \in CallState
    BY <1>18 DEF ParkedHasChild, Respond, CallState
  <2>2. call' \in [Call -> CallRecord]
    BY <1>18, <2>1, CallType DEF Respond
  <2> QED
    BY <1>18, <2>2 DEF TypeOK, Respond, RequestRecord, Answered
<1>19. ASSUME NEW q \in Request, Deliver(q) PROVE TypeOK'
  <2>1. request[q].tool \in Tool
    BY <1>19 DEF ParkedHasChild, Deliver
  <2>2. request[q].answer \in Decision \cup {"none"}
    BY DEF TypeOK, RequestRecord
  <2>3. /\ Unasked \in RequestRecord
        /\ Allowed(request[q].tool, request[q].answer) \in RequestRecord
    BY <2>1, <2>2 DEF RequestRecord, Allowed, Unasked
  <2>4. request' \in [Request -> RequestRecord]
    BY <1>19, <2>3 DEF TypeOK, Deliver
  <2> QED
    BY <1>19, <2>1, <2>4 DEF TypeOK, Deliver, Remember
<1>20. ASSUME NEW q \in Request, TimeOut(q) PROVE TypeOK'
  BY <1>20 DEF TypeOK, TimeOut, RequestRecord, Unasked
<1>21. ASSUME NEW q \in Request, NEW c \in Child, NEW x \in Tool, Ask(q, c, x)
       PROVE  TypeOK'
  BY <1>21 DEF TypeOK, Ask, RequestRecord, Allowed
<1>22. ASSUME NEW c \in Child, TurnReplies(c) PROVE TypeOK'
  BY <1>22 DEF TypeOK, TurnReplies, TurnRecord
<1>23. ASSUME NEW c \in Child, ChildExits(c) PROVE TypeOK'
  BY <1>23 DEF TypeOK, ChildExits, ChildRecord
<1>24. ASSUME NEW c \in Child, ReaderEnds(c) PROVE TypeOK'
  BY <1>24 DEF TypeOK, ReaderEnds, ChildRecord, TurnRecord
<1>25. ASSUME NEW c \in Child, ChildEnds(c) PROVE TypeOK'
  <2>1. Unasked \in RequestRecord /\ \A q \in Request : request[q] \in RequestRecord
    BY DEF TypeOK, RequestRecord, Unasked
  <2>2. request' \in [Request -> RequestRecord]
    BY <1>25, <2>1 DEF ChildEnds
  <2>3. child' \in [Child -> ChildRecord]
    BY <1>25 DEF TypeOK, ChildEnds, ChildRecord, Stage, Gone
  <2> QED
    BY <1>25, <2>2, <2>3 DEF TypeOK, ChildEnds
<1>26. Restart => TypeOK'
  <2> SUFFICES ASSUME Restart PROVE TypeOK'
    OBVIOUS
  <2>1. child' \in [Child -> ChildRecord]
    BY DEF TypeOK, Restart, ChildRecord, Stage, Gone
  <2>2. turn' \in [Child -> TurnRecord]
    BY DEF TypeOK, Restart, TurnRecord
  <2>3. call' \in [Call -> CallRecord]
    BY DEF Restart, CallRecord, CallState, Idle, At
  <2>4. request' \in [Request -> RequestRecord]
    BY DEF TypeOK, Restart, RequestRecord, Unasked
  <2> QED
    BY <2>1, <2>2, <2>3, <2>4 DEF TypeOK, Restart
<1> QED
  BY <1>1, <1>2, <1>3, <1>4, <1>5, <1>6, <1>7, <1>8, <1>10, <1>11, <1>12,
     <1>13, <1>14, <1>15, <1>16, <1>17, <1>18, <1>19, <1>20, <1>21, <1>22,
     <1>23, <1>24, <1>25, <1>26, Steps

------------------------------------------------------------------------------
(* Consent. *)

Consent == ConsentOnly /\ GrantsConsented /\ ParkedHasChild

\* reject_all() answers parked requests, and answers no.
LEMMA RejectedKeepsConsent ==
    ASSUME TypeOK, Consent, NEW c, request' = Rejected(c),
           UNCHANGED <<grants, consent>>
    PROVE  Consent'
<1>1. ASSUME NEW q \in Request
      PROVE  \/ request'[q] = request[q]
             \/ /\ request[q].pc = "parked"
                /\ request'[q].pc = "answered"
                /\ request'[q].child = request[q].child
                /\ request'[q].tool = request[q].tool
  <2>1. request[q] \in RequestRecord
    BY DEF TypeOK
  <2>2. request'[q] = IF request[q].child = c /\ request[q].pc = "parked"
                      THEN Answered(request[q], "reject") ELSE request[q]
    BY DEF Rejected
  <2> QED
    BY <2>1, <2>2 DEF RequestRecord, Answered
<1> QED
  BY <1>1 DEF Consent, ConsentOnly, GrantsConsented, ParkedHasChild

\* A step keeps the invariant when every request keeps its record or is reset.
LEMMA ResetKeepsConsent ==
    ASSUME Consent, UNCHANGED <<grants, consent>>,
           \A q \in Request : request'[q] \in {request[q], Unasked}
    PROVE  Consent'
  BY DEF Consent, ConsentOnly, GrantsConsented, ParkedHasChild, Unasked

LEMMA ConsentStep == TypeOK /\ Consent /\ [Next]_vars => Consent'
<1> SUFFICES ASSUME TypeOK, Consent, [Next]_vars PROVE Consent'
  OBVIOUS
<1> USE DEF ghosts
<1>1. UNCHANGED <<request, grants, consent>> => Consent'
  BY DEF Consent, ConsentOnly, GrantsConsented, ParkedHasChild
<1>2. ASSUME NEW t \in Call,
             \/ Buried(t) \/ OpenSucceeds(t) \/ OpenStartsAnew(t) \/ OpenFails(t)
             \/ Aborted(t) \/ Briefed(t) \/ StopWaiting(t) \/ RecordTurn(t)
             \/ EpisodeWritten(t) \/ Closed(t)
      PROVE  Consent'
  BY <1>1, <1>2 DEF Buried, OpenSucceeds, OpenStartsAnew, Opened, OpenFails, Aborted,
                    Briefed, StopWaiting, RecordTurn, EpisodeWritten, Closed
<1>3. ASSUME NEW t \in Call, NEW h \in Handle,
             \/ RunLive(t, h) \/ RunReattach(t, h) \/ RunFresh(t, h)
             \/ CloseForgotten(t, h)
      PROVE  Consent'
  BY <1>1, <1>3 DEF RunLive, RunReattach, RunFresh, CloseForgotten
<1>4. ASSUME NEW t \in Call, NEW h \in Handle, CloseRegistered(t, h),
             UNCHANGED <<grants, consent>>
      PROVE  Consent'
  BY <1>1, <1>4, RejectedKeepsConsent DEF CloseRegistered, BeginClose
<1>5. ASSUME NEW t \in Call, InterruptionNoted(t) PROVE Consent'
  <2>1. CloseRegistered(t, call[t].handle) /\ UNCHANGED <<grants, consent>>
    BY <1>5 DEF InterruptionNoted
  <2>2. CASE registry[call[t].handle] # NoChild
    BY <2>1, <2>2, RejectedKeepsConsent DEF CloseRegistered, BeginClose
  <2>3. CASE registry[call[t].handle] = NoChild
    BY <2>1, <2>3, <1>1 DEF CloseRegistered
  <2> QED
    BY <2>2, <2>3
<1>6. ASSUME NEW t \in Call, NEW h \in Handle, RunDead(t, h) PROVE Consent'
  BY <1>6, RejectedKeepsConsent DEF RunDead, BeginClose
<1>7. ASSUME NEW t \in Call, NEW h \in Handle, CloseSession(t, h) PROVE Consent'
  BY <1>1, <1>4, <1>7 DEF CloseSession
<1>8. ASSUME NEW t \in Call, NEW h \in Handle, NEW q \in Request, NEW d \in Decision,
             Respond(t, h, q, d)
      PROVE  Consent'
  <2>1. /\ UNCHANGED <<grants, consent>>
        /\ request[q].pc = "parked"
        /\ request' = [request EXCEPT ![q] = Answered(request[q], d)]
    BY <1>8 DEF Respond
  <2>2. /\ request'[q].pc = "answered"
        /\ request'[q].child = request[q].child
        /\ request'[q].tool = request[q].tool
    BY <2>1 DEF TypeOK, Answered
  <2>3. \A r \in Request \ {q} : request'[r] = request[r]
    BY <2>1 DEF TypeOK
  <2> QED
    BY <2>1, <2>2, <2>3 DEF Consent, ConsentOnly, GrantsConsented, ParkedHasChild
<1>9. ASSUME NEW q \in Request, Deliver(q) PROVE Consent'
  <2>1. /\ grants \subseteq grants'
        /\ consent \subseteq consent'
        /\ grants' \subseteq consent'
    BY <1>9 DEF Deliver, Remember, Consent, GrantsConsented
  <2>2. /\ request'[q] = IF request[q].answer \in Allows
                         THEN Allowed(request[q].tool, request[q].answer) ELSE Unasked
        /\ \A r \in Request \ {q} : request'[r] = request[r]
    BY <1>9 DEF Deliver, TypeOK
  <2> QED
    BY <2>1, <2>2 DEF Consent, ConsentOnly, GrantsConsented, ParkedHasChild,
                      Allowed, Unasked
<1>10. ASSUME NEW q \in Request, TimeOut(q) PROVE Consent'
  BY <1>10, ResetKeepsConsent DEF TimeOut, TypeOK
<1>11. ASSUME NEW q \in Request, NEW c \in Child, NEW x \in Tool, Ask(q, c, x)
       PROVE  Consent'
  BY <1>11 DEF Ask, TypeOK, Allowed, Consent, ConsentOnly, GrantsConsented, ParkedHasChild
<1>12. ASSUME NEW c \in Child, TurnReplies(c) \/ ChildExits(c) \/ ReaderEnds(c)
       PROVE  Consent'
  BY <1>1, <1>12 DEF TurnReplies, ChildExits, ReaderEnds
<1>13. ASSUME NEW c \in Child, ChildEnds(c) PROVE Consent'
  BY <1>13, ResetKeepsConsent DEF ChildEnds
<1>14. Restart => Consent'
  BY ResetKeepsConsent DEF Restart
<1>15. UNCHANGED vars => Consent'
  BY <1>1 DEF vars
<1> QED
  BY <1>2, <1>3, <1>5, <1>6, <1>7, <1>8, <1>9, <1>10, <1>11, <1>12, <1>13, <1>14,
     <1>15, Steps
------------------------------------------------------------------------------
(* Turns and episodes. *)

Marked == TurnsMarked /\ OneEpisodePerTurn

\* A call that is not writing writes nothing; what others write is unchanged.
LEMMA NoNewWriter ==
    ASSUME Marked, episodes' = episodes,
           \A c \in Child : /\ turn'[c].n = turn[c].n
                            /\ turn[c].recorded => turn'[c].recorded,
           \A t \in Call : Writing(t)' => Writing(t) /\ call'[t] = call[t]
    PROVE  Marked'
  BY DEF Marked, TurnsMarked, OneEpisodePerTurn, Writing

\* The next turn of a child is above everything that was written of it.
LEMMA NextTurn ==
    ASSUME TypeOK, Marked, UNCHANGED episodes, NEW c \in Child,
           turn'[c].n = turn[c].n + 1,
           \A d \in Child \ {c} : turn'[d] = turn[d],
           \A t \in Call : Writing(t)' => Writing(t) /\ call'[t] = call[t]
    PROVE  Marked'
<1>1. \A d \in Child : turn[d].n \in Nat
  BY DEF TypeOK, TurnRecord
<1>2. \A t \in Call : call[t].turn \in Nat
  BY DEF TypeOK, CallRecord
<1>3. episodes \subseteq Child \X Nat
  BY DEF TypeOK
<1>4. ASSUME NEW t \in Call, Writing(t)'
      PROVE  /\ call'[t].child \in Child
             /\ call'[t].turn <= turn'[call'[t].child].n
             /\ call'[t].turn = turn'[call'[t].child].n
                  => turn'[call'[t].child].recorded
  BY <1>1, <1>2, <1>4 DEF Marked, TurnsMarked
<1>5. ASSUME NEW d \in Child, NEW n \in Nat, <<d, n>> \in episodes'
      PROVE  n <= turn'[d].n /\ (n = turn'[d].n => turn'[d].recorded)
  <2>1. n <= turn[d].n /\ (n = turn[d].n => turn[d].recorded)
    BY <1>5 DEF Marked, TurnsMarked
  <2> QED
    BY <1>1, <2>1
<1>6. OneEpisodePerTurn'
  BY DEF Marked, OneEpisodePerTurn, Writing
<1> QED
  BY <1>4, <1>5, <1>6 DEF Marked, TurnsMarked

\* Whoever takes an unmarked turn to write it is the first, and marks it.
LEMMA FirstWriter ==
    ASSUME TypeOK, Marked, UNCHANGED episodes, NEW t \in Call, NEW c \in Child,
           ~turn[c].recorded,
           turn' = [turn EXCEPT ![c].recorded = TRUE],
           call'[t].child = c, call'[t].turn = turn[c].n,
           \A u \in Call \ {t} : call'[u] = call[u]
    PROVE  Marked'
<1>1. \A d \in Child : /\ turn'[d].n = turn[d].n
                       /\ turn[d].recorded => turn'[d].recorded
                       /\ turn[d].n \in Nat
  BY DEF TypeOK, TurnRecord
<1>2. turn'[c].recorded
  BY DEF TypeOK, TurnRecord
<1>3. <<c, turn[c].n>> \notin episodes
  BY <1>1 DEF Marked, TurnsMarked
<1>4. \A u \in Call : Writing(u) => call[u].child # c \/ call[u].turn # turn[c].n
  BY DEF Marked, TurnsMarked
<1>5. ASSUME NEW u \in Call, Writing(u)'
      PROVE  /\ call'[u].child \in Child
             /\ call'[u].turn <= turn'[call'[u].child].n
             /\ call'[u].turn = turn'[call'[u].child].n
                  => turn'[call'[u].child].recorded
  <2>1. CASE u = t
    BY <1>1, <1>2, <2>1
  <2>2. CASE u # t
    BY <1>1, <1>5, <2>2 DEF Marked, TurnsMarked, Writing
  <2> QED
    BY <2>1, <2>2
<1>6. \A d \in Child, n \in Nat : <<d, n>> \in episodes' =>
         n <= turn'[d].n /\ (n = turn'[d].n => turn'[d].recorded)
  BY <1>1 DEF Marked, TurnsMarked
<1>7. OneEpisodePerTurn'
  BY <1>3, <1>4 DEF Marked, OneEpisodePerTurn, Writing
<1> QED
  BY <1>5, <1>6, <1>7 DEF Marked, TurnsMarked

\* What a call writes is what it was to write.
LEMMA Written ==
    ASSUME TypeOK, Marked, NEW t \in Call, Writing(t), ~Writing(t)',
           episodes' = episodes \cup {<<call[t].child, call[t].turn>>},
           \A c \in Child : /\ turn'[c].n = turn[c].n
                            /\ turn[c].recorded => turn'[c].recorded,
           \A u \in Call \ {t} : call'[u] = call[u]
    PROVE  Marked'
<1>1. \A u \in Call : Writing(u)' => u # t /\ Writing(u) /\ call'[u] = call[u]
  BY DEF Writing
<1>2. /\ call[t].child \in Child
      /\ call[t].turn <= turn[call[t].child].n
      /\ call[t].turn = turn[call[t].child].n => turn[call[t].child].recorded
  BY DEF Marked, TurnsMarked
<1>3. TurnsMarked'
  BY <1>1, <1>2 DEF Marked, TurnsMarked
<1>4. OneEpisodePerTurn'
  BY <1>1 DEF Marked, OneEpisodePerTurn
<1> QED
  BY <1>3, <1>4 DEF Marked

LEMMA BeginCloseTurns ==
    ASSUME TypeOK, NEW h \in Handle, BeginClose(h)
    PROVE  \A c \in Child : /\ turn'[c].n = turn[c].n
                            /\ turn'[c].recorded = turn[c].recorded
  BY DEF TypeOK, BeginClose, TurnRecord

LEMMA CallAfter ==
    ASSUME TypeOK, NEW t \in Call,
           \/ Returns(t)
           \/ \E pc \in CallState : Goes(t, pc)
           \/ \E r \in CallRecord : call' = [call EXCEPT ![t] = r]
    PROVE  \A u \in Call \ {t} : call'[u] = call[u]
  BY DEF TypeOK, Returns, Goes

LEMMA ReturnsAfter ==
    ASSUME TypeOK, NEW t \in Call, Returns(t)
    PROVE  call'[t] = Idle
  BY DEF TypeOK, Returns

LEMMA GoesAfter ==
    ASSUME TypeOK, NEW t \in Call, NEW pc \in CallState, Goes(t, pc)
    PROVE  /\ call'[t].pc = pc
           /\ call'[t].handle = call[t].handle
           /\ call'[t].child = call[t].child
           /\ call'[t].turn = call[t].turn
  BY DEF TypeOK, CallRecord, Goes

LEMMA AtAfter ==
    ASSUME TypeOK, NEW t \in Call, NEW r, call' = [call EXCEPT ![t] = r]
    PROVE  call'[t] = r /\ \A u \in Call \ {t} : call'[u] = call[u]
  BY DEF TypeOK

LEMMA MarkedStep == TypeOK /\ CallsMatch /\ Marked /\ [Next]_vars => Marked'
<1> SUFFICES ASSUME TypeOK, CallsMatch, Marked, [Next]_vars PROVE Marked'
  OBVIOUS
<1> USE DEF ghosts
<1> DEFINE SameTurns == \A c \in Child :
              turn'[c].n = turn[c].n /\ (turn[c].recorded => turn'[c].recorded)
<1>1. ASSUME UNCHANGED episodes, SameTurns,
             NEW t \in Call, ~Writing(t)',
             \A u \in Call \ {t} : call'[u] = call[u]
      PROVE  Marked'
  BY <1>1, NoNewWriter DEF Writing
<1>2. UNCHANGED <<episodes, call>> /\ SameTurns => Marked'
  BY NoNewWriter DEF Writing
<1>3. UNCHANGED turn => SameTurns
  OBVIOUS
<1>4. ASSUME NEW t \in Call, NEW h \in Handle, NEW pc \in CallState,
             pc \notin {"recording", "noting"}, Spawn(t, h, pc)
      PROVE  /\ ~Writing(t)'
             /\ \A u \in Call \ {t} : call'[u] = call[u]
  BY <1>4, ReturnsAfter, CallAfter, AtAfter DEF Spawn, Writing, Idle, At
<1>5. ASSUME NEW t \in Call, Buried(t) PROVE Marked'
  <2>1. call[t].handle \in Handle
    BY <1>5 DEF Buried, CallsMatch, Matches
  <2>2. /\ ~Writing(t)'
        /\ \A u \in Call \ {t} : call'[u] = call[u]
    BY <1>4, <1>5, <2>1, ReturnsAfter, CallAfter
       DEF Buried, Writing, Idle, At, CallState
  <2> QED
    BY <1>1, <1>3, <1>5, <2>2 DEF Buried
<1>6. ASSUME NEW t \in Call, OpenSucceeds(t) PROVE Marked'
  <2>1. call[t].child \in Child
    BY <1>6 DEF OpenSucceeds, Opened, CallsMatch, Matches
  <2>2. /\ turn'[call[t].child].n = turn[call[t].child].n + 1
        /\ \A d \in Child \ {call[t].child} : turn'[d] = turn[d]
    BY <1>6, <2>1 DEF OpenSucceeds, TypeOK
  <2>3. \A u \in Call : Writing(u)' => Writing(u) /\ call'[u] = call[u]
    BY <1>6, CallAfter, GoesAfter DEF OpenSucceeds, Writing, CallState
  <2>4. UNCHANGED episodes
    BY <1>6 DEF OpenSucceeds, Opened
  <2> QED
    BY <2>1, <2>2, <2>3, <2>4, NextTurn
<1>7. ASSUME NEW t \in Call, OpenStartsAnew(t) \/ OpenFails(t) PROVE Marked'
  BY <1>1, <1>3, <1>7, CallAfter, GoesAfter
     DEF OpenStartsAnew, Opened, OpenFails, Writing, CallState
<1>8. ASSUME NEW t \in Call, Aborted(t) \/ StopWaiting(t) \/ Closed(t) PROVE Marked'
  BY <1>1, <1>3, <1>8, ReturnsAfter, CallAfter
     DEF Aborted, StopWaiting, Closed, Writing, Idle, At
<1>9. ASSUME NEW t \in Call, NEW c \in Child, StartTurn(c), UNCHANGED episodes,
             call'[t].pc = "waiting", \A u \in Call \ {t} : call'[u] = call[u]
      PROVE  Marked'
  <2>1. /\ turn'[c].n = turn[c].n + 1
        /\ \A d \in Child \ {c} : turn'[d] = turn[d]
    BY <1>9 DEF StartTurn, TypeOK
  <2> QED
    BY <1>9, <2>1, NextTurn DEF Writing
<1>10. ASSUME NEW t \in Call, Briefed(t) PROVE Marked'
  <2>1. call[t].child \in Child
    BY <1>10 DEF Briefed, CallsMatch, Matches
  <2>2. CASE StartTurn(call[t].child) /\ Goes(t, "waiting")
    BY <1>9, <1>10, <2>1, <2>2, CallAfter, GoesAfter DEF Briefed, CallState
  <2>3. CASE Returns(t) /\ UNCHANGED turn
    BY <1>1, <1>3, <1>10, <2>3, ReturnsAfter, CallAfter
       DEF Briefed, Writing, Idle, At
  <2> QED
    BY <1>10, <2>2, <2>3 DEF Briefed
<1>11. ASSUME NEW t \in Call, RecordTurn(t) PROVE Marked'
  <2>1. call[t].child \in Child
    BY <1>11 DEF RecordTurn, CallsMatch, Matches
  <2>2. /\ UNCHANGED episodes
        /\ ~turn[call[t].child].recorded
        /\ turn' = [turn EXCEPT ![call[t].child].recorded = TRUE]
        /\ call' = [call EXCEPT ![t] = At("recording", call[t].handle, call[t].child,
                                          turn[call[t].child].n)]
    BY <1>11 DEF RecordTurn, Record
  <2>3. /\ call'[t].child = call[t].child
        /\ call'[t].turn = turn[call[t].child].n
        /\ \A u \in Call \ {t} : call'[u] = call[u]
    BY <2>2 DEF TypeOK, At
  <2> QED
    BY <2>1, <2>2, <2>3, FirstWriter
<1>12. ASSUME NEW t \in Call, EpisodeWritten(t) PROVE Marked'
  BY <1>12, ReturnsAfter, CallAfter, Written DEF EpisodeWritten, Writing, Idle, At
<1>13. ASSUME NEW t \in Call, NEW h \in Handle, CloseRegistered(t, h)
       PROVE  /\ SameTurns
              /\ ~Writing(t)'
              /\ \A u \in Call \ {t} : call'[u] = call[u]
  BY <1>13, ReturnsAfter, CallAfter, AtAfter, BeginCloseTurns
     DEF CloseRegistered, Writing, Idle, At
<1>14. ASSUME NEW t \in Call, InterruptionNoted(t) PROVE Marked'
  <2>1. call[t].handle \in Handle
    BY <1>14 DEF InterruptionNoted, CallsMatch, Matches
  <2>2. Writing(t)
    BY <1>14 DEF InterruptionNoted, Writing
  <2>3. /\ SameTurns
        /\ ~Writing(t)'
        /\ \A u \in Call \ {t} : call'[u] = call[u]
    BY <1>13, <1>14, <2>1 DEF InterruptionNoted
  <2>4. episodes' = episodes \cup {<<call[t].child, call[t].turn>>}
    BY <1>14 DEF InterruptionNoted
  <2> QED
    BY <2>2, <2>3, <2>4, Written
<1>15. ASSUME NEW t \in Call, NEW h \in Handle, RunLive(t, h) PROVE Marked'
  <2>1. registry[h] \in Child
    BY <1>15 DEF RunLive, TypeOK
  <2>2. /\ StartTurn(registry[h])
        /\ UNCHANGED episodes
        /\ call' = [call EXCEPT ![t] = At("waiting", h, registry[h], 0)]
    BY <1>15 DEF RunLive
  <2>3. /\ call'[t].pc = "waiting"
        /\ \A u \in Call \ {t} : call'[u] = call[u]
    BY <2>2 DEF TypeOK, At
  <2> QED
    BY <1>9, <2>1, <2>2, <2>3
<1>16. ASSUME NEW t \in Call, NEW h \in Handle, RunDead(t, h) PROVE Marked'
  <2>1. /\ BeginClose(h)
        /\ UNCHANGED episodes
        /\ call' = [call EXCEPT ![t] = At("burying", h, registry[h], 0)]
    BY <1>16 DEF RunDead
  <2>2. /\ ~Writing(t)'
        /\ \A u \in Call \ {t} : call'[u] = call[u]
    BY <2>1 DEF TypeOK, Writing, At
  <2> QED
    BY <1>1, <2>1, <2>2, BeginCloseTurns
<1>17. ASSUME NEW t \in Call, NEW h \in Handle, RunReattach(t, h) \/ RunFresh(t, h)
       PROVE  Marked'
  BY <1>1, <1>3, <1>4, <1>17 DEF RunReattach, RunFresh, CallState
<1>18. ASSUME NEW t \in Call, NEW h \in Handle, CloseSession(t, h) PROVE Marked'
  <2>1. registry[h] \in Child
    BY <1>18 DEF CloseSession, TypeOK
  <2>2. CASE turn[registry[h]].n > 0 /\ ~turn[registry[h]].recorded
    <3>1. /\ UNCHANGED episodes
          /\ turn' = [turn EXCEPT ![registry[h]].recorded = TRUE]
          /\ call' = [call EXCEPT ![t] = At("noting", h, registry[h],
                                            turn[registry[h]].n)]
      BY <1>18, <2>2 DEF CloseSession
    <3>2. /\ call'[t].child = registry[h]
          /\ call'[t].turn = turn[registry[h]].n
          /\ \A u \in Call \ {t} : call'[u] = call[u]
      BY <3>1 DEF TypeOK, At
    <3> QED
      BY <2>1, <2>2, <3>1, <3>2, FirstWriter
  <2>3. CASE ~(turn[registry[h]].n > 0 /\ ~turn[registry[h]].recorded)
    BY <1>1, <1>13, <1>18, <2>3 DEF CloseSession
  <2> QED
    BY <2>2, <2>3
<1>19. ASSUME NEW t \in Call, NEW h \in Handle, CloseForgotten(t, h) PROVE Marked'
  BY <1>2, <1>3, <1>19 DEF CloseForgotten
<1>20. ASSUME NEW t \in Call, NEW h \in Handle, NEW q \in Request, NEW d \in Decision,
              Respond(t, h, q, d)
       PROVE  Marked'
  BY <1>1, <1>3, <1>20, AtAfter DEF Respond, Writing, At
<1>21. ASSUME NEW q \in Request, Deliver(q) \/ TimeOut(q) PROVE Marked'
  BY <1>2, <1>3, <1>21 DEF Deliver, TimeOut
<1>22. ASSUME NEW q \in Request, NEW c \in Child, NEW x \in Tool, Ask(q, c, x)
       PROVE  Marked'
  BY <1>2, <1>3, <1>22 DEF Ask
<1>23. ASSUME NEW c \in Child, TurnReplies(c) PROVE Marked'
  <2>1. SameTurns
    BY <1>23 DEF TurnReplies, TypeOK, TurnRecord
  <2> QED
    BY <1>2, <1>23, <2>1 DEF TurnReplies
<1>24. ASSUME NEW c \in Child, ChildExits(c) \/ ChildEnds(c) PROVE Marked'
  BY <1>2, <1>3, <1>24 DEF ChildExits, ChildEnds
<1>25. ASSUME NEW c \in Child, ReaderEnds(c) PROVE Marked'
  <2>1. SameTurns
    BY <1>25 DEF ReaderEnds, TypeOK, TurnRecord
  <2> QED
    BY <1>2, <1>25, <2>1 DEF ReaderEnds
<1>26. Restart => Marked'
  <2> SUFFICES ASSUME Restart PROVE Marked'
    OBVIOUS
  <2>1. SameTurns
    BY DEF Restart, TypeOK, TurnRecord
  <2>2. \A t \in Call : ~Writing(t)'
    BY DEF Restart, Writing, Idle, At
  <2> QED
    BY <2>1, <2>2, NoNewWriter DEF Restart
<1>27. UNCHANGED vars => Marked'
  BY <1>2, <1>3 DEF vars
<1> QED
  BY <1>5, <1>6, <1>7, <1>8, <1>10, <1>11, <1>12, <1>14, <1>15, <1>16, <1>17, <1>18,
     <1>19, <1>20, <1>21, <1>22, <1>23, <1>24, <1>25, <1>26, <1>27, Steps
-----------------------------------------------------------------------------
(* Sessions, their handles and the calls that open them. *)

\* A step that registers nothing, opens nothing and ends no child keeps the
\* invariant, whatever the other calls come to wait for.
LEMMA QuietStep ==
    ASSUME TypeOK, Sessions, UNCHANGED <<registry, dismissed>>,
           index' \subseteq index, asked \subseteq asked', raced \subseteq raced',
           \A c \in Child : child'[c].stage = child[c].stage
                         /\ child'[c].handle = child[c].handle,
           \A t \in Call : \/ call'[t] = call[t]
                           \/ call'[t].pc = "idle"
                           \/ /\ call'[t].pc \in CallState
                              /\ ~Reopens(t)'
                              /\ call'[t].handle \in Handle
                              /\ call'[t].child \in Child
                              /\ call'[t].pc \in {"noting", "closing"}
                                   => call'[t].handle \in asked'
    PROVE  Sessions'
<1>1. \A t \in Call : Reopens(t)' => Reopens(t) /\ call'[t] = call[t]
  BY DEF Reopens
<1>2. CallsMatch'
  <2> SUFFICES ASSUME NEW t \in Call, call'[t].pc # "idle" PROVE Matches(t)'
    BY DEF CallsMatch
  <2>1. CASE call'[t] = call[t]
    BY <2>1 DEF Sessions, CallsMatch, Matches, Reopens, Opens
  <2>2. CASE call'[t] # call[t]
    BY <2>2 DEF Matches, Reopens, Opens
  <2> QED
    BY <2>1, <2>2
<1>3. OneOpener'
  BY <1>1 DEF Sessions, OneOpener, Reopens, Opens
<1>4. RegisteredUp'
  BY DEF Sessions, RegisteredUp, TypeOK
<1>5. ReopenedAlone'
  BY <1>1 DEF Sessions, ReopenedAlone
<1>6. HeldWhileUp'
  BY DEF Sessions, HeldWhileUp
<1>7. DismissedAlone'
  BY <1>1 DEF Sessions, DismissedAlone
<1>8. ClosedStaysClosed'
  BY DEF Sessions, ClosedStaysClosed
<1>9. ChildrenHaveHandles'
  BY DEF Sessions, ChildrenHaveHandles
<1> QED
  BY <1>2, <1>3, <1>4, <1>5, <1>6, <1>7, <1>8, <1>9 DEF Sessions

\* A step that changes nothing of this.
LEMMA SameSessions ==
    ASSUME TypeOK, Sessions,
           UNCHANGED <<registry, index, asked, raced, dismissed, call>>,
           \A c \in Child : child'[c].stage = child[c].stage
                         /\ child'[c].handle = child[c].handle
    PROVE  Sessions'
  BY QuietStep


\* A child is spawned for a handle that nobody else reopens, or that is raced
\* for.
LEMMA SpawnedStep ==
    ASSUME TypeOK, Sessions, NEW t \in Call, NEW h \in Handle,
           NEW pc \in {"opening", "reopening"}, NEW c \in Child,
           child[c].stage = "unborn",
           child' = [child EXCEPT ![c] =
                       [stage |-> "opening", handle |-> h, exited |-> FALSE,
                        reading |-> TRUE]],
           call' = [call EXCEPT ![t] = At(pc, h, c, 0)],
           UNCHANGED <<registry, index, asked, dismissed>>,
           raced \subseteq raced', h \notin dismissed,
           h \notin raced' =>
               /\ registry[h] = NoChild
               /\ \A u \in Call \ {t} : Reopens(u) => call[u].handle # h
    PROVE  Sessions'
<1>1. /\ call'[t].pc = pc /\ call'[t].handle = h /\ call'[t].child = c
      /\ \A u \in Call \ {t} : call'[u] = call[u]
  BY DEF TypeOK, At
<1>2. /\ child'[c].stage = "opening" /\ child'[c].handle = h
      /\ \A d \in Child \ {c} : child'[d] = child[d]
  BY DEF TypeOK
<1>3. \A u \in Call : Reopens(u) => call[u].child # c
  BY DEF Sessions, CallsMatch, Matches, Reopens, Opens
<1>4. \A g \in Handle : registry[g] # c
  BY NamesAssumption DEF Sessions, RegisteredUp
<1>5. CallsMatch'
  <2> SUFFICES ASSUME NEW u \in Call, call'[u].pc # "idle" PROVE Matches(u)'
    BY DEF CallsMatch
  <2>1. CASE u = t
    BY <1>1, <1>2, <2>1 DEF Matches, Reopens, Opens
  <2>2. CASE u # t
    <3>1. Matches(u) /\ call'[u] = call[u]
      BY <1>1, <2>2 DEF Sessions, CallsMatch
    <3>2. Reopens(u) => child'[call[u].child] = child[call[u].child]
      BY <1>2, <1>3, <3>1 DEF Matches
    <3> QED
      BY <3>1, <3>2 DEF Matches, Reopens, Opens
  <2> QED
    BY <2>1, <2>2
<1>6. OneOpener'
  BY <1>1, <1>3 DEF Sessions, OneOpener, Reopens, Opens
<1>7. RegisteredUp'
  BY <1>2, <1>4 DEF Sessions, RegisteredUp, TypeOK
<1>8. ReopenedAlone'
  <2> SUFFICES ASSUME NEW u \in Call, Reopens(u)', call'[u].handle \notin raced'
               PROVE  /\ registry'[call'[u].handle] = NoChild
                      /\ \A v \in Call : Reopens(v)' /\ call'[v].handle = call'[u].handle
                                           => v = u
    BY DEF ReopenedAlone
  <2>1. CASE u = t
    BY <1>1, <2>1 DEF Reopens
  <2>2. CASE u # t
    BY <1>1, <2>2 DEF Sessions, ReopenedAlone, Reopens
  <2> QED
    BY <2>1, <2>2
<1>9. HeldWhileUp'
  BY <1>2 DEF Sessions, HeldWhileUp
<1>10. DismissedAlone'
  BY <1>1 DEF Sessions, DismissedAlone, Reopens
<1>11. ClosedStaysClosed'
  BY DEF Sessions, ClosedStaysClosed
<1>12. ChildrenHaveHandles'
  BY <1>2 DEF Sessions, ChildrenHaveHandles
<1> QED
  BY <1>5, <1>6, <1>7, <1>8, <1>9, <1>10, <1>11, <1>12 DEF Sessions

\* The session that is registered under h is being closed.
LEMMA CloseBegun ==
    ASSUME TypeOK, Sessions, NEW t \in Call, NEW h \in Handle,
           NEW pc \in {"burying", "closing"},
           ~Reopens(t), registry[h] # NoChild, BeginClose(h),
           call' = [call EXCEPT ![t] = At(pc, h, registry[h], 0)],
           UNCHANGED <<index, dismissed>>,
           asked \subseteq asked', raced \subseteq raced',
           pc = "closing" => h \in asked',
           pc = "burying" /\ h \notin raced' =>
               \A u \in Call : Reopens(u) => call[u].handle # h
    PROVE  Sessions'
<1> DEFINE c == registry[h]
<1>1. /\ c \in Child /\ child[c].stage = "up" /\ child[c].handle = h
  BY DEF TypeOK, Sessions, RegisteredUp
<1>2. /\ call'[t].pc = pc /\ call'[t].handle = h /\ call'[t].child = c
      /\ \A u \in Call \ {t} : call'[u] = call[u]
  BY DEF TypeOK, At
<1>3. /\ child'[c].stage = "closing" /\ child'[c].handle = h
      /\ \A d \in Child \ {c} : child'[d] = child[d]
  BY <1>1 DEF BeginClose, TypeOK, ChildRecord
<1>4. /\ registry'[h] = NoChild
      /\ \A g \in Handle \ {h} : registry'[g] = registry[g]
  BY DEF BeginClose, TypeOK
<1> HIDE DEF c
<1>5. \A u \in Call : Reopens(u) => call[u].child # c
  BY <1>1 DEF Sessions, CallsMatch, Matches, Reopens, Opens
<1>6. h \notin dismissed
  BY DEF Sessions, ClosedStaysClosed
<1>7. CallsMatch'
  <2> SUFFICES ASSUME NEW u \in Call, call'[u].pc # "idle" PROVE Matches(u)'
    BY DEF CallsMatch
  <2>1. CASE u = t
    BY <1>1, <1>2, <1>3, <2>1 DEF Matches, Reopens, Opens
  <2>2. CASE u # t
    <3>1. Matches(u) /\ call'[u] = call[u]
      BY <1>2, <2>2 DEF Sessions, CallsMatch
    <3>2. Reopens(u) => child'[call[u].child] = child[call[u].child]
      BY <1>3, <1>5, <3>1 DEF Matches
    <3> QED
      BY <3>1, <3>2 DEF Matches, Reopens, Opens
  <2> QED
    BY <2>1, <2>2
<1>8. OneOpener'
  BY <1>2 DEF Sessions, OneOpener, Opens
<1>9. RegisteredUp'
  <2> SUFFICES ASSUME NEW g \in Handle, registry'[g] # NoChild
               PROVE  /\ child'[registry'[g]].stage = "up"
                      /\ child'[registry'[g]].handle = g
    BY DEF RegisteredUp
  <2>1. g # h /\ registry'[g] = registry[g] /\ registry[g] \in Child
    BY <1>4 DEF TypeOK
  <2>2. child[registry[g]].stage = "up" /\ child[registry[g]].handle = g
    BY <2>1 DEF Sessions, RegisteredUp
  <2> QED
    BY <1>1, <1>3, <2>1, <2>2
<1>10. ReopenedAlone'
  BY <1>2, <1>4 DEF Sessions, ReopenedAlone, Reopens, CallsMatch, Matches
<1>11. HeldWhileUp'
  <2> SUFFICES ASSUME NEW d \in Child, child'[d].stage = "up",
                      child'[d].handle \notin raced'
               PROVE  registry'[child'[d].handle] = d
    BY DEF HeldWhileUp
  <2>1. d # c /\ child'[d] = child[d]
    BY <1>3
  <2>2. registry[child[d].handle] = d
    BY <2>1 DEF Sessions, HeldWhileUp
  <2>3. child[d].handle # h
    BY <2>1, <2>2 DEF c
  <2>4. child[d].handle \in Handle
    BY <2>1 DEF Sessions, ChildrenHaveHandles
  <2> QED
    BY <1>4, <2>1, <2>2, <2>3, <2>4
<1>12. DismissedAlone'
  BY <1>2, <1>6 DEF Sessions, DismissedAlone, Reopens
<1>13. ClosedStaysClosed'
  BY <1>4, <1>6 DEF Sessions, ClosedStaysClosed, TypeOK
<1>14. ChildrenHaveHandles'
  BY <1>1, <1>3 DEF Sessions, ChildrenHaveHandles
<1> QED
  BY <1>7, <1>8, <1>9, <1>10, <1>11, <1>12, <1>13, <1>14 DEF Sessions


\* The child that a call was opening is registered.
LEMMA OpenedStep ==
    ASSUME TypeOK, Sessions, NEW t \in Call, Opened(t),
           NEW pc \in {"waiting", "briefing"}, Goes(t, pc)
    PROVE  Sessions'
<1> DEFINE h == call[t].handle
           c == call[t].child
<1>1. Reopens(t) /\ Opens(t)
  BY DEF Opened, Reopens, Opens
<1>2. /\ h \in Handle /\ c \in Child
      /\ child[c].stage = "opening" /\ child[c].handle = h
  BY <1>1 DEF Sessions, CallsMatch, Matches, Opened
<1>3. /\ call'[t].pc = pc /\ call'[t].handle = h /\ call'[t].child = c
      /\ \A u \in Call \ {t} : call'[u] = call[u]
  BY DEF Goes, TypeOK, CallRecord
<1>4. /\ child'[c].stage = "up" /\ child'[c].handle = h
      /\ \A d \in Child \ {c} : child'[d] = child[d]
  BY <1>2 DEF Opened, TypeOK, ChildRecord
<1>5. /\ registry'[h] = c
      /\ \A g \in Handle \ {h} : registry'[g] = registry[g]
  BY <1>2 DEF Opened, TypeOK
<1>6. UNCHANGED <<asked, raced, dismissed>> /\ index' = index \cup {h}
  BY DEF Opened, ghosts
<1>7. h \notin dismissed
  BY <1>1 DEF Sessions, DismissedAlone
<1>8. h \notin raced =>
          /\ registry[h] = NoChild
          /\ \A u \in Call : Reopens(u) /\ call[u].handle = h => u = t
  BY <1>1 DEF Sessions, ReopenedAlone
<1>9. \A u \in Call \ {t} : Reopens(u) => call[u].child # c
  BY <1>1, <1>2 DEF Sessions, OneOpener, CallsMatch, Matches, Reopens, Opens
<1>10. \A g \in Handle : registry[g] # c
  BY <1>2, NamesAssumption DEF Sessions, RegisteredUp
<1> HIDE DEF h, c
<1>11. CallsMatch'
  <2> SUFFICES ASSUME NEW u \in Call, call'[u].pc # "idle" PROVE Matches(u)'
    BY DEF CallsMatch
  <2>1. CASE u = t
    BY <1>2, <1>3, <2>1 DEF Matches, Reopens, Opens
  <2>2. CASE u # t
    <3>1. Matches(u) /\ call'[u] = call[u]
      BY <1>3, <2>2 DEF Sessions, CallsMatch
    <3>2. Reopens(u) => child'[call[u].child] = child[call[u].child]
      BY <1>4, <1>9, <2>2, <3>1 DEF Matches
    <3> QED
      BY <1>6, <3>1, <3>2 DEF Matches, Reopens, Opens
  <2> QED
    BY <2>1, <2>2
<1>12. OneOpener'
  BY <1>3 DEF Sessions, OneOpener, Opens
<1>13. RegisteredUp'
  <2> SUFFICES ASSUME NEW g \in Handle, registry'[g] # NoChild
               PROVE  /\ child'[registry'[g]].stage = "up"
                      /\ child'[registry'[g]].handle = g
    BY DEF RegisteredUp
  <2>1. CASE g = h
    BY <1>4, <1>5, <2>1
  <2>2. CASE g # h
    <3>1. registry'[g] = registry[g] /\ registry[g] \in Child
      BY <1>5, <2>2 DEF TypeOK
    <3>2. child[registry[g]].stage = "up" /\ child[registry[g]].handle = g
      BY <3>1 DEF Sessions, RegisteredUp
    <3> QED
      BY <1>4, <1>10, <3>1, <3>2
  <2> QED
    BY <2>1, <2>2
<1>14. ReopenedAlone'
  <2> SUFFICES ASSUME NEW u \in Call, Reopens(u)', call'[u].handle \notin raced'
               PROVE  /\ registry'[call'[u].handle] = NoChild
                      /\ \A v \in Call : Reopens(v)' /\ call'[v].handle = call'[u].handle
                                           => v = u
    BY DEF ReopenedAlone
  <2>1. u # t /\ call'[u] = call[u] /\ Reopens(u)
    BY <1>3 DEF Reopens
  <2>2. call[u].handle # h
    BY <1>6, <1>8, <2>1
  <2>3. call[u].handle \in Handle
    BY <2>1 DEF Sessions, CallsMatch, Matches, Reopens
  <2>4. \A v \in Call : Reopens(v)' => Reopens(v) /\ call'[v] = call[v]
    BY <1>3 DEF Reopens
  <2> QED
    BY <1>5, <1>6, <2>1, <2>2, <2>3, <2>4 DEF Sessions, ReopenedAlone
<1>15. HeldWhileUp'
  <2> SUFFICES ASSUME NEW d \in Child, child'[d].stage = "up",
                      child'[d].handle \notin raced'
               PROVE  registry'[child'[d].handle] = d
    BY DEF HeldWhileUp
  <2>1. CASE d = c
    BY <1>4, <1>5, <2>1
  <2>2. CASE d # c
    <3>1. child'[d] = child[d]
      BY <1>4, <2>2
    <3>2. registry[child[d].handle] = d
      BY <1>6, <3>1 DEF Sessions, HeldWhileUp
    <3>3. child[d].handle # h
      BY <1>6, <1>8, <3>1, <3>2, NamesAssumption
    <3>4. child[d].handle \in Handle
      BY <3>1 DEF Sessions, ChildrenHaveHandles
    <3> QED
      BY <1>5, <3>1, <3>2, <3>3, <3>4
  <2> QED
    BY <2>1, <2>2
<1>16. DismissedAlone'
  BY <1>3, <1>6 DEF Sessions, DismissedAlone, Reopens
<1>17. ClosedStaysClosed'
  BY <1>5, <1>6, <1>7 DEF Sessions, ClosedStaysClosed, TypeOK
<1>18. ChildrenHaveHandles'
  BY <1>2, <1>4 DEF Sessions, ChildrenHaveHandles
<1> QED
  BY <1>11, <1>12, <1>13, <1>14, <1>15, <1>16, <1>17, <1>18 DEF Sessions

\* A child that is not registered goes on to its end.
LEMMA EndingStep ==
    ASSUME TypeOK, Sessions, NEW c \in Child, child[c].stage \in {"opening", "closing"},
           child'[c].stage \in {"closing", "closed"}, child'[c].handle = child[c].handle,
           \A d \in Child \ {c} : child'[d] = child[d],
           \A t \in Call : Opens(t)' => call[t].child # c,
           \A t \in Call : \/ call'[t] = call[t]
                           \/ /\ call'[t].pc = "aborting"
                              /\ call'[t].handle = call[t].handle
                              /\ call'[t].child = call[t].child
                              /\ call[t].pc # "idle",
           UNCHANGED <<registry, index, asked, raced, dismissed>>
    PROVE  Sessions'
<1>1. \A t \in Call : Reopens(t)' => Reopens(t) /\ call'[t] = call[t]
  BY DEF Reopens
<1>2. \A h \in Handle : registry[h] # c
  BY NamesAssumption DEF Sessions, RegisteredUp
<1>3. CallsMatch'
  <2> SUFFICES ASSUME NEW t \in Call, call'[t].pc # "idle" PROVE Matches(t)'
    BY DEF CallsMatch
  <2>1. Matches(t)
    BY DEF Sessions, CallsMatch
  <2>2. CASE call'[t] = call[t]
    <3>1. Opens(t)' => child'[call[t].child] = child[call[t].child]
      BY <2>1 DEF Matches
    <3>2. Reopens(t) => child'[call[t].child].handle = call[t].handle
      BY <2>1 DEF Matches
    <3>3. call[t].pc = "burying" => child'[call[t].child].stage \in {"closing", "closed"}
      BY <2>1 DEF Matches
    <3> QED
      BY <2>1, <2>2, <3>1, <3>2, <3>3 DEF Matches, Reopens, Opens
  <2>3. CASE call'[t] # call[t]
    BY <2>1, <2>3 DEF Matches, Reopens, Opens
  <2> QED
    BY <2>2, <2>3
<1>4. OneOpener'
  BY <1>1 DEF Sessions, OneOpener, Reopens, Opens
<1>5. RegisteredUp'
  BY <1>2 DEF Sessions, RegisteredUp, TypeOK
<1>6. ReopenedAlone'
  BY <1>1 DEF Sessions, ReopenedAlone
<1>7. HeldWhileUp'
  BY DEF Sessions, HeldWhileUp
<1>8. DismissedAlone'
  BY <1>1 DEF Sessions, DismissedAlone
<1>9. ClosedStaysClosed'
  BY DEF Sessions, ClosedStaysClosed
<1>10. ChildrenHaveHandles'
  BY DEF Sessions, ChildrenHaveHandles
<1> QED
  BY <1>3, <1>4, <1>5, <1>6, <1>7, <1>8, <1>9, <1>10 DEF Sessions


\* What is dismissed is nobody's, and has no pointer left.
LEMMA DismissStep ==
    ASSUME TypeOK, Sessions, NEW h \in Handle, h \in asked',
           index' = index \ {h}, Dismiss(h), asked \subseteq asked',
           UNCHANGED <<registry, child, raced>>,
           \A t \in Call : call'[t] = call[t] \/ call'[t].pc = "idle"
    PROVE  Sessions'
<1>1. \A t \in Call : Reopens(t)' => Reopens(t) /\ call'[t] = call[t]
  BY DEF Reopens
<1>2. \A g \in dismissed' : \/ g \in dismissed
                            \/ /\ g = h /\ registry[h] = NoChild
                               /\ \A t \in Call : Reopens(t) => call[t].handle # h
  BY DEF Dismiss, Reopening, Reopens
<1>3. CallsMatch'
  <2> SUFFICES ASSUME NEW t \in Call, call'[t].pc # "idle" PROVE Matches(t)'
    BY DEF CallsMatch
  <2> QED
    BY DEF Sessions, CallsMatch, Matches, Reopens, Opens
<1>4. OneOpener'
  BY <1>1 DEF Sessions, OneOpener, Reopens, Opens
<1>5. RegisteredUp' /\ HeldWhileUp' /\ ChildrenHaveHandles'
  BY DEF Sessions, RegisteredUp, HeldWhileUp, ChildrenHaveHandles
<1>6. ReopenedAlone'
  BY <1>1 DEF Sessions, ReopenedAlone
<1>7. DismissedAlone'
  BY <1>1, <1>2 DEF Sessions, DismissedAlone
<1>8. ClosedStaysClosed'
  BY <1>2 DEF Sessions, ClosedStaysClosed
<1> QED
  BY <1>3, <1>4, <1>5, <1>6, <1>7, <1>8 DEF Sessions

\* Every step keeps Sessions.
LEMMA SessionsStep ==
    TypeOK /\ ParkedHasChild /\ Sessions /\ [Next]_vars => Sessions'
<1> SUFFICES ASSUME TypeOK, ParkedHasChild, Sessions, [Next]_vars PROVE Sessions'
  OBVIOUS
<1> USE DEF ghosts
<1>1. ASSUME NEW t \in Call, Returns(t), UNCHANGED <<registry, child, dismissed>>,
             index' = index, asked \subseteq asked', raced \subseteq raced'
      PROVE  Sessions'
  <2>1. \A u \in Call : call'[u] = call[u] \/ call'[u].pc = "idle"
    BY <1>1 DEF TypeOK, Returns, Idle, At
  <2> QED
    BY <1>1, <2>1, QuietStep
<1>2. ASSUME NEW t \in Call, NEW pc \in {"waiting", "recording", "noting"},
             NEW h \in Handle, NEW c \in Child, NEW n,
             call' = [call EXCEPT ![t] = At(pc, h, c, n)],
             pc = "noting" => h \in asked',
             UNCHANGED <<registry, child, index, raced, dismissed>>,
             asked \subseteq asked'
      PROVE  Sessions'
  <2>1. \A u \in Call : \/ call'[u] = call[u]
                        \/ /\ call'[u].pc = pc /\ call'[u].handle = h
                           /\ call'[u].child = c
    BY <1>2 DEF TypeOK, At
  <2> QED
    BY <1>2, <2>1, QuietStep DEF Reopens, CallState
<1>3. ASSUME NEW t \in Call, Goes(t, "waiting"), call[t].pc # "idle",
             UNCHANGED <<registry, index, child, ghosts>>
      PROVE  Sessions'
  <2>1. Matches(t)
    BY <1>3 DEF Sessions, CallsMatch
  <2>2. \A u \in Call : \/ call'[u] = call[u]
                        \/ /\ u = t /\ call'[u].pc = "waiting"
                           /\ call'[u].handle = call[u].handle
                           /\ call'[u].child = call[u].child
    BY <1>3 DEF TypeOK, CallRecord, Goes
  <2> QED
    BY <1>3, <2>1, <2>2, QuietStep DEF Matches, Reopens, CallState
<1>4. ASSUME NEW t \in Call, NEW h \in Handle, CloseRegistered(t, h), ~Reopens(t),
             UNCHANGED <<index, raced, dismissed>>, asked \subseteq asked', h \in asked'
      PROVE  Sessions'
  <2>1. CASE registry[h] # NoChild
    BY <1>4, <2>1, CloseBegun DEF CloseRegistered
  <2>2. CASE registry[h] = NoChild
    BY <1>1, <1>4, <2>2 DEF CloseRegistered
  <2> QED
    BY <2>1, <2>2
<1>5. ASSUME NEW t \in Call, NEW h \in Handle, NEW pc \in {"opening", "reopening"},
             Spawn(t, h, pc),
             UNCHANGED <<registry, asked, dismissed>>,
             index' = index, raced \subseteq raced', h \notin dismissed,
             h \notin raced' =>
                 /\ registry[h] = NoChild
                 /\ \A u \in Call \ {t} : Reopens(u) => call[u].handle # h
      PROVE  Sessions'
  <2>1. pc \in CallState
    BY DEF CallState
  <2>2. ASSUME NEW c \in Child, child[c].stage = "unborn",
               child' = [child EXCEPT ![c] =
                           [stage |-> "opening", handle |-> h, exited |-> FALSE,
                            reading |-> TRUE]],
               call' = [call EXCEPT ![t] = At(pc, h, c, 0)]
        PROVE  Sessions'
    BY <1>5, <2>2, SpawnedStep
  <2>3. CASE call' = [call EXCEPT ![t] = Idle] /\ child' = child
    BY <1>1, <1>5, <2>3 DEF Returns
  <2> QED
    BY <1>5, <2>1, <2>2, <2>3, SpawnCases
<1>6. \A h \in Handle : NoteRace(h) =>
          /\ raced \subseteq raced'
          /\ h \notin raced' => \A u \in Call : Reopens(u) => call[u].handle # h
  BY DEF NoteRace, Reopening, Reopens
<1>7. ASSUME NEW t \in Call, Buried(t) PROVE Sessions'
  <2>1. call[t].handle \in Handle /\ Reopens(t)
    BY <1>7 DEF Buried, Sessions, CallsMatch, Matches, Reopens
  <2>2. call[t].handle \notin dismissed
    BY <2>1 DEF Sessions, DismissedAlone
  <2>3. call[t].handle \notin raced =>
            /\ registry[call[t].handle] = NoChild
            /\ \A u \in Call \ {t} : Reopens(u) => call[u].handle # call[t].handle
    BY <2>1 DEF Sessions, ReopenedAlone
  <2>4. /\ UNCHANGED <<registry, asked, dismissed>>
        /\ index' = index /\ raced' = raced
    BY <1>7 DEF Buried, Touch
  <2>5. CASE Spawn(t, call[t].handle, "reopening")
    BY <1>5, <2>1, <2>2, <2>3, <2>4, <2>5
  <2>6. CASE Returns(t) /\ UNCHANGED child
    BY <1>1, <2>4, <2>6
  <2> QED
    BY <1>7, <2>5, <2>6 DEF Buried
<1>8. ASSUME NEW t \in Call, OpenSucceeds(t) \/ OpenStartsAnew(t) PROVE Sessions'
  BY <1>8, OpenedStep DEF OpenSucceeds, OpenStartsAnew
<1>9. ASSUME NEW t \in Call, OpenFails(t) PROVE Sessions'
  <2>1. /\ call[t].child \in Child /\ child[call[t].child].stage = "opening"
        /\ Opens(t)
    BY <1>9 DEF OpenFails, Sessions, CallsMatch, Matches, Opens
  <2>2. /\ child'[call[t].child].stage = "closing"
        /\ child'[call[t].child].handle = child[call[t].child].handle
        /\ \A d \in Child \ {call[t].child} : child'[d] = child[d]
    BY <1>9, <2>1 DEF OpenFails, TypeOK, ChildRecord
  <2>3. /\ call'[t].pc = "aborting" /\ call'[t].handle = call[t].handle
        /\ call'[t].child = call[t].child
        /\ \A u \in Call \ {t} : call'[u] = call[u]
    BY <1>9 DEF OpenFails, Goes, TypeOK, CallRecord
  <2>4. \A u \in Call : Opens(u)' => call[u].child # call[t].child
    BY <2>1, <2>3 DEF Sessions, OneOpener, Opens
  <2>5. UNCHANGED <<registry, index, asked, raced, dismissed>>
    BY <1>9 DEF OpenFails
  <2> QED
    BY <2>1, <2>2, <2>3, <2>4, <2>5, EndingStep DEF Opens
<1>10. ASSUME NEW t \in Call, Aborted(t) \/ StopWaiting(t) \/ EpisodeWritten(t)
       PROVE  Sessions'
  BY <1>1, <1>10 DEF Aborted, StopWaiting, EpisodeWritten, Touch
<1>11. ASSUME NEW t \in Call, Briefed(t) PROVE Sessions'
  BY <1>1, <1>3, <1>11 DEF Briefed
<1>12. ASSUME NEW t \in Call, RecordTurn(t) PROVE Sessions'
  <2>1. call[t].handle \in Handle /\ call[t].child \in Child
    BY <1>12 DEF RecordTurn, Sessions, CallsMatch, Matches
  <2>2. call' = [call EXCEPT ![t] = At("recording", call[t].handle, call[t].child,
                                       turn[call[t].child].n)]
    BY <1>12 DEF RecordTurn, Record
  <2>3. UNCHANGED <<registry, child, index, ghosts>>
    BY <1>12 DEF RecordTurn
  <2> QED
    BY <1>2, <2>1, <2>2, <2>3
<1>13. ASSUME NEW t \in Call, InterruptionNoted(t) PROVE Sessions'
  <2>1. call[t].handle \in Handle /\ call[t].handle \in asked /\ ~Reopens(t)
    BY <1>13 DEF InterruptionNoted, Sessions, CallsMatch, Matches, Reopens
  <2> QED
    BY <1>4, <1>13, <2>1 DEF InterruptionNoted
<1>14. ASSUME NEW t \in Call, Closed(t) PROVE Sessions'
  <2>1. call[t].handle \in Handle /\ call[t].handle \in asked
    BY <1>14 DEF Closed, Sessions, CallsMatch, Matches
  <2>2. \A u \in Call : call'[u] = call[u] \/ call'[u].pc = "idle"
    BY <1>14 DEF Closed, TypeOK, Returns, Idle, At
  <2> QED
    BY <1>14, <2>1, <2>2, DismissStep DEF Closed
<1>15. ASSUME NEW t \in Call, NEW h \in Handle, RunLive(t, h) PROVE Sessions'
  <2>1. registry[h] \in Child
    BY <1>15 DEF RunLive, TypeOK
  <2> QED
    BY <1>2, <1>15, <2>1 DEF RunLive
<1>16. ASSUME NEW t \in Call, NEW h \in Handle, RunDead(t, h) PROVE Sessions'
  <2>1. ~Reopens(t)
    BY <1>16 DEF RunDead, MayRun, Reopens
  <2> QED
    BY <1>6, <1>16, <2>1, CloseBegun DEF RunDead
<1>17. ASSUME NEW t \in Call, NEW h \in Handle, RunReattach(t, h) PROVE Sessions'
  <2>1. h \notin dismissed
    BY <1>17 DEF RunReattach, Sessions, ClosedStaysClosed
  <2> QED
    BY <1>5, <1>6, <1>17, <2>1 DEF RunReattach
<1>18. ASSUME NEW t \in Call, NEW h \in Handle, RunFresh(t, h) PROVE Sessions'
  <2>1. h \notin dismissed
    BY <1>18 DEF RunFresh, Sessions, DismissedAlone
  <2>2. registry[h] = NoChild
    BY <1>18 DEF RunFresh, Sessions, RegisteredUp, TypeOK
  <2>3. \A u \in Call : Reopens(u) => call[u].handle # h
    BY <1>18 DEF RunFresh, Sessions, CallsMatch, Matches, Reopens
  <2> QED
    BY <1>5, <1>18, <2>1, <2>2, <2>3 DEF RunFresh
<1>19. ASSUME NEW t \in Call, NEW h \in Handle, CloseSession(t, h) PROVE Sessions'
  <2>1. registry[h] \in Child /\ ~Reopens(t) /\ h \in asked' /\ asked \subseteq asked'
    BY <1>19 DEF CloseSession, TypeOK, Reopens
  <2>2. UNCHANGED <<index, raced, dismissed>>
    BY <1>19 DEF CloseSession
  <2>3. CASE turn[registry[h]].n > 0 /\ ~turn[registry[h]].recorded
    <3>1. /\ call' = [call EXCEPT ![t] = At("noting", h, registry[h],
                                            turn[registry[h]].n)]
          /\ UNCHANGED <<registry, child>>
      BY <1>19, <2>3 DEF CloseSession
    <3> QED
      BY <1>2, <2>1, <2>2, <3>1
  <2>4. CASE ~(turn[registry[h]].n > 0 /\ ~turn[registry[h]].recorded)
    BY <1>4, <1>19, <2>1, <2>2, <2>4 DEF CloseSession
  <2> QED
    BY <2>3, <2>4
<1>20. ASSUME NEW t \in Call, NEW h \in Handle, CloseForgotten(t, h) PROVE Sessions'
  BY <1>20, DismissStep DEF CloseForgotten
<1>21. ASSUME NEW t \in Call, NEW h \in Handle, NEW q \in Request, NEW d \in Decision,
              Respond(t, h, q, d)
       PROVE  Sessions'
  <2>1. request[q].child \in Child
    BY <1>21 DEF Respond, ParkedHasChild
  <2> QED
    BY <1>2, <1>21, <2>1 DEF Respond
<1>22. ASSUME NEW q \in Request, Deliver(q) \/ TimeOut(q) PROVE Sessions'
  BY <1>22, SameSessions DEF Deliver, TimeOut
<1>23. ASSUME NEW q \in Request, NEW c \in Child, NEW x \in Tool, Ask(q, c, x)
       PROVE  Sessions'
  BY <1>23, SameSessions DEF Ask
<1>24. ASSUME NEW c \in Child, TurnReplies(c) PROVE Sessions'
  BY <1>24, SameSessions DEF TurnReplies
<1>25. ASSUME NEW c \in Child, ChildExits(c) \/ ReaderEnds(c) PROVE Sessions'
  <2>1. \A d \in Child : child'[d].stage = child[d].stage
                      /\ child'[d].handle = child[d].handle
    BY <1>25 DEF ChildExits, ReaderEnds, TypeOK, ChildRecord
  <2> QED
    BY <1>25, <2>1, SameSessions DEF ChildExits, ReaderEnds
<1>26. ASSUME NEW c \in Child, ChildEnds(c) PROVE Sessions'
  <2>1. /\ child'[c].stage = "closed" /\ child'[c].handle = child[c].handle
        /\ \A d \in Child \ {c} : child'[d] = child[d]
    BY <1>26 DEF ChildEnds, Gone, TypeOK
  <2>2. /\ child[c].stage = "closing" /\ UNCHANGED call
        /\ UNCHANGED <<registry, index, asked, raced, dismissed>>
    BY <1>26 DEF ChildEnds
  <2>3. \A t \in Call : Opens(t)' => call[t].child # c
    BY <2>2 DEF Sessions, CallsMatch, Matches, Opens
  <2> QED
    BY <2>1, <2>2, <2>3, EndingStep
<1>27. Restart => Sessions'
  <2> SUFFICES ASSUME Restart PROVE Sessions'
    OBVIOUS
  <2>1. \A t \in Call : call'[t].pc = "idle"
    BY DEF Restart, Idle, At
  <2>2. \A h \in Handle : registry'[h] = NoChild
    BY DEF Restart
  <2>3. \A c \in Child : /\ child'[c].stage # "up"
                         /\ child'[c].stage # "unborn" => child'[c].handle \in Handle
    BY DEF Restart, Gone, Sessions, ChildrenHaveHandles
  <2>4. UNCHANGED <<index, asked, raced, dismissed>>
    BY DEF Restart
  <2>5. CallsMatch' /\ OneOpener' /\ ReopenedAlone'
    BY <2>1 DEF CallsMatch, OneOpener, ReopenedAlone, Opens, Reopens
  <2>6. RegisteredUp' /\ HeldWhileUp' /\ ChildrenHaveHandles'
    BY <2>2, <2>3 DEF RegisteredUp, HeldWhileUp, ChildrenHaveHandles
  <2>7. DismissedAlone'
    BY <2>1, <2>4 DEF Sessions, DismissedAlone, Reopens
  <2>8. ClosedStaysClosed'
    BY <2>2, <2>4 DEF Sessions, ClosedStaysClosed, TypeOK
  <2> QED
    BY <2>5, <2>6, <2>7, <2>8 DEF Sessions
<1>28. UNCHANGED vars => Sessions'
  BY SameSessions DEF vars
<1> QED
  BY <1>7, <1>8, <1>9, <1>10, <1>11, <1>12, <1>13, <1>14, <1>15, <1>16, <1>17, <1>18,
     <1>19, <1>20, <1>21, <1>22, <1>23, <1>24, <1>25, <1>26, <1>27, <1>28, Steps
-----------------------------------------------------------------------------
(* The theorems. *)

\* The inductive invariant.
Inv == TypeOK /\ Sessions /\ Marked /\ Consent

LEMMA InvInit == Init => Inv
<1> SUFFICES ASSUME Init PROVE Inv
  OBVIOUS
<1>1. TypeOK
  <2>1. [stage |-> "unborn", handle |-> NoHandle, exited |-> FALSE,
         reading |-> FALSE] \in ChildRecord
    BY DEF ChildRecord, Stage
  <2>2. [n |-> 0, state |-> "none", recorded |-> FALSE] \in TurnRecord
    BY DEF TurnRecord
  <2>3. Idle \in CallRecord
    BY DEF Idle, At, CallRecord, CallState
  <2>4. Unasked \in RequestRecord
    BY DEF Unasked, RequestRecord
  <2> QED
    BY <2>1, <2>2, <2>3, <2>4 DEF Init, TypeOK
<1>2. \A t \in Call : call[t].pc = "idle"
  BY DEF Init, Idle, At
<1>3. \A c \in Child : child[c].stage = "unborn"
  BY DEF Init
<1>4. Sessions
  BY <1>2, <1>3 DEF Init, Sessions, CallsMatch, OneOpener, RegisteredUp, ReopenedAlone,
     HeldWhileUp, DismissedAlone, ClosedStaysClosed, ChildrenHaveHandles, Opens, Reopens
<1>5. Marked
  BY <1>2 DEF Init, Marked, TurnsMarked, OneEpisodePerTurn, Writing
<1>6. Consent
  BY DEF Init, Consent, ConsentOnly, GrantsConsented, ParkedHasChild, Unasked
<1> QED
  BY <1>1, <1>4, <1>5, <1>6 DEF Inv

LEMMA InvStep == Inv /\ [Next]_vars => Inv'
  BY TypeStep, SessionsStep, MarkedStep, ConsentStep DEF Inv, Sessions, Consent

\* What the theorems rest on holds in every state.
THEOREM Invariance == Spec => []Inv
<1> QED
  BY InvInit, InvStep, PTL DEF Spec

\* Every state is of its type, however many sessions, calls, children and
\* restarts there are.
THEOREM TypeCorrect == Spec => []TypeOK
<1>1. Inv => TypeOK
  BY DEF Inv
<1> QED
  BY <1>1, Invariance, PTL

\* Nothing is ever allowed to an agent but by a user's answer to that request
\* or by a stored answer for that tool that said always: over any number of
\* answers, timers, closings and restarts (permissions.py).
THEOREM OnlyByConsent == Spec => []ConsentOnly
<1>1. Inv => ConsentOnly
  BY DEF Inv, Consent
<1> QED
  BY <1>1, Invariance, PTL

\* A turn goes into memory at most once, however many calls wait for its end
\* and whoever closes its session meanwhile (_record_turn, close_session).
THEOREM OneEpisode == Spec => []OneEpisodePerTurn
<1>1. Inv => OneEpisodePerTurn
  BY DEF Inv, Marked
<1> QED
  BY <1>1, Invariance, PTL

\* A session that is up is registered under its handle, unless two calls were
\* reopening that handle at once (SessionRegistry.open, close).
THEOREM SessionsAreHeld == Spec => []HeldWhileUp
<1>1. Inv => HeldWhileUp
  BY DEF Inv, Sessions
<1> QED
  BY <1>1, Invariance, PTL

\* No call that was under way, and no restart, brings back the handle of a
\* session that was closed (close_session, touch, forget).
THEOREM ClosedSessionsStayClosed == Spec => []ClosedStaysClosed
<1>1. Inv => ClosedStaysClosed
  BY DEF Inv, Sessions
<1> QED
  BY <1>1, Invariance, PTL

\* A handle keeps its pointer until somebody asks to close it, whatever
\* becomes of the agent or of this process (run_task, ContinuityIndex).
THEOREM HandlesSurvive == Spec => HandlesStayUsable
<1>1. Inv /\ [Next]_vars => [\A h \in index : h \in index' \/ h \in asked']_vars
  <2> SUFFICES ASSUME Inv, [Next]_vars, NEW h \in index
               PROVE  h \in index' \/ h \in asked'
    OBVIOUS
  <2>1. \A t \in Call : Closed(t) => call[t].handle \in asked'
    BY DEF Inv, Sessions, CallsMatch, Matches, Closed
  <2> QED
    BY <2>1, Steps DEF vars, ghosts, Touch, Buried, OpenSucceeds, OpenStartsAnew, Opened,
       OpenFails, Aborted, Briefed, StopWaiting, RecordTurn, EpisodeWritten,
       InterruptionNoted, Closed, RunLive, RunDead, RunReattach, RunFresh, CloseSession,
       CloseForgotten, Respond, Deliver, TimeOut, Ask, TurnReplies, ChildExits,
       ReaderEnds, ChildEnds, Restart
<1> QED
  BY <1>1, Invariance, PTL DEF Spec, HandlesStayUsable
=============================================================================
