------------------------------ MODULE TaskFlow ------------------------------
(* The durable task flows of agents/taskflow.py: flows and their steps are  *)
(* rows of a database; one runner, a coroutine of the brain's event loop,    *)
(* takes the ready flow that was touched longest ago and executes its steps  *)
(* until the flow waits, fails, ends or raises. The interface (create,       *)
(* cancel, resume) runs on the same event loop, so it interleaves with the   *)
(* runner only where the runner awaits. The process may stop at any point:   *)
(* the rows stay, the runner and the lock of the runtime do not.             *)
(*                                                                           *)
(* Steps are counted from 1 here and from 0 in the code. wait_until is kept  *)
(* as the ticks left until it, 0 when it is due.                             *)
EXTENDS Integers, Sequences

CONSTANTS
    Flow,           \* identifiers of flows
    NoFlow,         \* the runner has no flow
    Programs,       \* the lists of steps that callers create flows with
    Seconds,        \* the ticks a sleep step asks for
    Raising,        \* kinds of step whose handler lets an exception out
    MaxCalls,       \* bound on the cancel and resume calls
    MaxRestarts     \* bound on the times the process ends

\* noop:      completes without awaiting
\* condition: completes without awaiting and chooses the next step
\* sleep:     waits, or completes once its time has passed
\* work:      awaits a skill, a web page or the memory store (note.save,
\*            wiki.compile, memory.search), and completes or fails
\* chat:      awaits the orchestrator; its exceptions become failures
\* bad:       fails without awaiting (unknown type, missing argument)
Kind == {"noop", "condition", "sleep", "work", "chat", "bad"}
Awaits == {"work", "chat"}
Fails == {"work", "chat", "bad"}

\* next: the steps that may follow, which only a condition chooses among.
Step == [kind : Kind, next : SUBSET Nat]

ASSUME FlowAssumption == NoFlow \notin Flow
ASSUME ProgramsAssumption ==
    \A p \in Programs :
        /\ p \in Seq(Step) /\ p # <<>>
        /\ \A i \in DOMAIN p : /\ p[i].next # {} /\ 0 \notin p[i].next
                               /\ p[i].kind # "condition" => p[i].next = {i + 1}
ASSUME SecondsAssumption == Seconds \in Nat \ {0}
ASSUME RaisingAssumption == Raising \subseteq {"condition", "sleep", "work"}
ASSUME BoundsAssumption == MaxCalls \in Nat /\ MaxRestarts \in Nat

VARIABLES
    status,         \* status[f]: the column of the flow's row
    program,        \* program[f]: the types and payloads of its steps
    current,        \* current[f]: current_step
    step,           \* step[f][i]: the status of the row of step i
    wait,           \* wait[f]: ticks until wait_until, or NoWait
    older,          \* <<g, f>>: g has an earlier updated_at than f
    runner,         \* the runner: what it is doing, with which flow and step
    hung,           \* the event loop waits for a lock that it holds itself
    slept,          \* slept[f]: ticks since its current step was reached
    calls,          \* cancel and resume calls so far
    restarts        \* ends of the process so far

rows == <<status, program, current, step, wait, older>>
vars == <<rows, runner, hung, slept, calls, restarts>>

NoWait == -1
Settled == {"completed", "failed", "cancelled"}
FlowStatus == {"absent", "queued", "running", "waiting"} \cup Settled
StepStatus == {"pending", "running", "waiting", "completed", "failed"}

\* off: no process; scan: about to look for a ready flow; asleep: in the
\* pause of one second; begin: about to take up a step; exec: inside it.
RunnerState == [pc : {"off", "scan", "asleep", "begin", "exec"},
                flow : Flow \cup {NoFlow}, at : Nat]

TypeOK ==
    /\ status \in [Flow -> FlowStatus]
    /\ program \in [Flow -> Programs \cup {<<>>}]
    /\ current \in [Flow -> Nat \ {0}]
    /\ step = [f \in Flow |-> step[f]]
    /\ \A f \in Flow : step[f] \in [DOMAIN program[f] -> StepStatus]
    /\ wait \in [Flow -> 0..Seconds \cup {NoWait}]
    /\ older \subseteq Flow \X Flow
    /\ runner \in RunnerState
    /\ hung \in BOOLEAN
    /\ slept \in [Flow -> 0..Seconds]
    /\ calls \in Nat /\ restarts \in Nat

Free(pc) == [pc |-> pc, flow |-> NoFlow, at |-> 0]

Init ==
    /\ status = [f \in Flow |-> "absent"]
    /\ program = [f \in Flow |-> <<>>]
    /\ current = [f \in Flow |-> 1]
    /\ step = [f \in Flow |-> <<>>]
    /\ wait = [f \in Flow |-> NoWait]
    /\ older = {}
    /\ runner = Free("off")
    /\ hung = FALSE
    /\ slept = [f \in Flow |-> 0]
    /\ calls = 0
    /\ restarts = 0

\* updated_at = now for the flows F.
Touch(F) == older' = {p \in older : p[1] \notin F /\ p[2] \notin F}
                       \cup ((Flow \ F) \X F)
-----------------------------------------------------------------------------
(* The interface. *)

\* A request is served where the runner has given the event loop away.
LoopServes ==
    /\ ~hung
    /\ \/ runner.pc = "asleep"
       \/ /\ runner.pc = "exec"
          /\ program[runner.flow][runner.at].kind \in Awaits

Create(f) ==
    /\ LoopServes
    /\ status[f] = "absent"
    /\ \E p \in Programs :
          /\ program' = [program EXCEPT ![f] = p]
          /\ step' = [step EXCEPT ![f] = [i \in DOMAIN p |-> "pending"]]
    /\ status' = [status EXCEPT ![f] = "queued"]
    /\ Touch({f})
    /\ UNCHANGED <<current, wait, runner, hung, slept, calls, restarts>>

Called(f) ==
    /\ LoopServes
    /\ status[f] # "absent"
    /\ calls < MaxCalls
    /\ calls' = calls + 1

\* cancel_flow() asks only that the flow exists; its steps and its wait stay.
Cancel(f) ==
    /\ Called(f)
    /\ status' = [status EXCEPT ![f] = "cancelled"]
    /\ Touch({f})
    /\ UNCHANGED <<program, current, step, wait, runner, hung, slept, restarts>>

Resume(f) ==
    /\ Called(f)
    /\ status[f] \notin {"completed", "cancelled"}
    /\ status' = [status EXCEPT ![f] = "queued"]
    /\ wait' = [wait EXCEPT ![f] = NoWait]
    /\ step' = [step EXCEPT ![f] =
                  [i \in DOMAIN @ |-> IF @[i] \in {"failed", "waiting"}
                                      THEN "pending" ELSE @[i]]]
    /\ slept' = [slept EXCEPT ![f] = 0]
    /\ Touch({f})
    /\ UNCHANGED <<program, current, runner, hung, restarts>>

\* resume_flow() of a flow that is over calls get_flow() while it holds the
\* lock that get_flow() takes, and the lock is not reentrant.
ResumeOfSettledFlow(f) ==
    /\ Called(f)
    /\ status[f] \in {"completed", "cancelled"}
    /\ hung' = TRUE
    /\ UNCHANGED <<rows, runner, slept, restarts>>
-----------------------------------------------------------------------------
(* The runner. _run_flow() also looks for status cancelled when it takes the *)
(* flow and before each step, but never sees it: a row that was just         *)
(* selected as ready, or just committed as running, is read again before     *)
(* anything else can run.                                                    *)

Ready(f) == status[f] = "queued" \/ (status[f] = "waiting" /\ wait[f] = 0)

PickFlow(f) ==
    /\ runner.pc = "scan"
    /\ Ready(f)
    /\ \A g \in Flow : Ready(g) => <<g, f>> \notin older
    /\ status' = [status EXCEPT ![f] = "running"]
    /\ runner' = [pc |-> "begin", flow |-> f, at |-> current[f]]
    /\ Touch({f})
    /\ UNCHANGED <<program, current, step, wait, hung, slept, calls, restarts>>

NothingReady ==
    /\ runner.pc = "scan"
    /\ \A f \in Flow : ~Ready(f)
    /\ runner' = Free("asleep")
    /\ UNCHANGED <<rows, hung, slept, calls, restarts>>

WakeUp ==
    /\ runner.pc = "asleep" /\ ~hung
    /\ runner' = Free("scan")
    /\ UNCHANGED <<rows, hung, slept, calls, restarts>>

Running(f, pc) == runner.pc = pc /\ runner.flow = f

BeginStep(f) ==
    /\ Running(f, "begin")
    /\ runner.at <= Len(program[f])
    /\ step' = [step EXCEPT ![f][runner.at] = "running"]
    /\ runner' = [runner EXCEPT !.pc = "exec"]
    /\ UNCHANGED <<status, program, current, wait, older, hung, slept, calls, restarts>>

FinishFlow(f) ==
    /\ Running(f, "begin")
    /\ runner.at > Len(program[f])
    /\ status' = [status EXCEPT ![f] = "completed"]
    /\ wait' = [wait EXCEPT ![f] = NoWait]
    /\ runner' = Free("scan")
    /\ Touch({f})
    /\ UNCHANGED <<program, current, step, hung, slept, calls, restarts>>

\* The step that the runner executes, and what it is.
Executing(f) == Running(f, "exec") /\ ~hung
KindNow(f) == program[f][runner.at].kind

\* Mutant: the time that the step asked for is not written.
NotWritten(w) == w

\* The wait_until that a sleep step returns: the one it has, if it has one.
WaitUntil(w) == IF w = NoWait THEN Seconds ELSE w

\* The outcome "waiting" of a sleep step.
StepWaits(f) ==
    /\ Executing(f)
    /\ KindNow(f) = "sleep" /\ wait[f] # 0
    /\ step' = [step EXCEPT ![f][runner.at] = "waiting"]
    /\ status' = [status EXCEPT ![f] = "waiting"]
    /\ wait' = [wait EXCEPT ![f] = WaitUntil(@)]
    /\ current' = [current EXCEPT ![f] = runner.at]
    /\ runner' = Free("scan")
    /\ Touch({f})
    /\ UNCHANGED <<program, hung, slept, calls, restarts>>

StepFails(f) ==
    /\ Executing(f)
    /\ KindNow(f) \in Fails
    /\ step' = [step EXCEPT ![f][runner.at] = "failed"]
    /\ status' = [status EXCEPT ![f] = "failed"]
    /\ wait' = [wait EXCEPT ![f] = NoWait]
    /\ runner' = Free("scan")
    /\ Touch({f})
    /\ UNCHANGED <<program, current, hung, slept, calls, restarts>>

\* Mutant: the next step is kept in the runner's local variable only.
AdvanceInMemory(f, n) ==
    /\ wait' = [wait EXCEPT ![f] = NoWait]
    /\ UNCHANGED current

\* Mutant: wait_until is left for the next step.
AdvanceKeepingWait(f, n) ==
    /\ current' = [current EXCEPT ![f] = n]
    /\ UNCHANGED wait

\* The row of a flow whose next step is n.
Advance(f, n) ==
    /\ current' = [current EXCEPT ![f] = n]
    /\ wait' = [wait EXCEPT ![f] = NoWait]

\* The commit of a completed step writes status running, whatever it was.
StepCompletes(f) ==
    /\ Executing(f)
    /\ KindNow(f) # "bad"
    /\ KindNow(f) = "sleep" => wait[f] = 0
    /\ step' = [step EXCEPT ![f][runner.at] = "completed"]
    /\ status' = [status EXCEPT ![f] = "running"]
    /\ slept' = [slept EXCEPT ![f] = 0]
    /\ \E n \in program[f][runner.at].next :
          /\ Advance(f, n)
          /\ runner' = [pc |-> "begin", flow |-> f, at |-> n]
    /\ Touch({f})
    /\ UNCHANGED <<program, hung, calls, restarts>>

\* An exception out of the step is logged by the loop; the rows stay.
StepRaises(f) ==
    /\ Executing(f)
    /\ KindNow(f) \in Raising
    /\ runner' = Free("scan")
    /\ UNCHANGED <<rows, hung, slept, calls, restarts>>

RunnerStep(f) ==
    PickFlow(f) \/ BeginStep(f) \/ StepWaits(f) \/ StepFails(f)
    \/ StepCompletes(f) \/ StepRaises(f) \/ FinishFlow(f)

Runner == NothingReady \/ WakeUp \/ \E f \in Flow : RunnerStep(f)
-----------------------------------------------------------------------------
(* The process and time. *)

\* stop(), or the death of the process, at any point.
ProcessEnds ==
    /\ runner.pc # "off"
    /\ restarts < MaxRestarts
    /\ restarts' = restarts + 1
    /\ runner' = Free("off")
    /\ hung' = FALSE
    /\ UNCHANGED <<rows, slept, calls>>

\* Mutant: flows that ran when the process ended are left as they are.
RecoveredWaiting == {f \in Flow : status[f] = "waiting" /\ wait[f] = 0}

Recovered == {f \in Flow : \/ status[f] = "running"
                           \/ status[f] = "waiting" /\ wait[f] = 0}

\* start(): _recover_after_restart(), then the runner.
Start ==
    /\ runner.pc = "off"
    /\ status' = [f \in Flow |-> IF f \in Recovered THEN "queued" ELSE status[f]]
    /\ Touch(Recovered)
    /\ runner' = Free("scan")
    /\ UNCHANGED <<program, current, step, wait, hung, slept, calls, restarts>>

\* Mutant: a tick is also taken from a column that is NULL.
ElapseNull(w) == IF w = 0 THEN 0 ELSE w - 1

Elapse(w) == IF w > 0 THEN w - 1 ELSE w

\* A tick passes while some wait_until lies ahead.
Tick ==
    /\ \E f \in Flow : wait[f] > 0
    /\ wait' = [f \in Flow |-> Elapse(wait[f])]
    /\ slept' = [f \in Flow |-> IF slept[f] < Seconds THEN slept[f] + 1 ELSE slept[f]]
    /\ UNCHANGED <<status, program, current, step, older, runner, hung, calls, restarts>>

Interface ==
    \E f \in Flow : Create(f) \/ Cancel(f) \/ Resume(f) \/ ResumeOfSettledFlow(f)

Next == Interface \/ Runner \/ ProcessEnds \/ Start \/ Tick

Spec == Init /\ [][Next]_vars

\* The event loop runs the runner whenever it can, an awaited step returns
\* (its client has a timeout), time passes, and the supervisor starts the
\* process again. Nobody has to call the interface.
FairSpec == Spec /\ WF_vars(Runner) /\ WF_vars(Start) /\ WF_vars(Tick)
-----------------------------------------------------------------------------
(* Properties. *)

\* No condition jumps back, so that no step is meant to run twice.
Forward(f) == \A i \in DOMAIN program[f] : \A n \in program[f][i].next : n > i

\* What lies ahead of the current step is pending, the current step has not
\* completed, a waiting flow has a sleep step that waits for a time, a failed
\* one has a failed step, and only a flow past its last step is completed.
RowAgrees(f) ==
    /\ wait[f] # NoWait => /\ current[f] <= Len(program[f])
                           /\ program[f][current[f]].kind = "sleep"
    /\ status[f] = "waiting" => /\ wait[f] # NoWait
                                /\ step[f][current[f]] = "waiting"
    /\ status[f] = "failed" => step[f][current[f]] = "failed"
    /\ status[f] = "completed" => current[f] > Len(program[f])
    /\ Forward(f) =>
          /\ \A i \in DOMAIN step[f] : i > current[f] => step[f][i] = "pending"
          /\ current[f] \in DOMAIN step[f] => step[f][current[f]] # "completed"

\* The row of every flow and the rows of its steps, written by separate
\* statements and read again after a restart, tell the same story.
RowsAgree == \A f \in Flow : RowAgrees(f)

\* A step whose completion was committed is never executed again, across
\* cancellations, resumptions and restarts, in a program without loops.
CommittedStepsStay ==
    [][\A f \in Flow : \A i \in DOMAIN step[f] :
          Forward(f) /\ step[f][i] = "completed" => step'[f][i] = "completed"]_vars

\* A sleep step completes no earlier than its seconds after the runner came
\* to it, or after it was resumed, however often the flow is picked up, the
\* process restarts, or one sleep follows another.
SleepLasts ==
    [][\A f \in Flow : \A i \in DOMAIN step[f] :
          /\ program[f][i].kind = "sleep"
          /\ step[f][i] # "completed" /\ step'[f][i] = "completed"
          => slept[f] >= Seconds]_vars

\* A queued flow of which no step can raise comes to an end, through waits
\* and restarts, unless a resumption froze the event loop or a program that
\* loops keeps the runner.
FlowsSettle ==
    \A f \in Flow :
        (status[f] = "queued" /\ \A i \in DOMAIN program[f] :
                                     program[f][i].kind \notin Raising)
        ~> \/ status[f] \in Settled
           \/ hung
           \/ \E g \in Flow : ~Forward(g)

\* "Cancel a running or queued workflow by flow_id.": a cancelled flow stays
\* cancelled.
CancelSticks ==
    [][\A f \in Flow : status[f] = "cancelled" => status'[f] = "cancelled"]_vars
=============================================================================
