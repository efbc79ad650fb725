------------------------------ MODULE ToolGate ------------------------------
(* The gate of the tool calls that go through ToolRunner                     *)
(* (agents/tool_runner.py): plan mode, the guard against loops, the autonomy *)
(* mode, approvals of the user, and the trust a tool earns by running        *)
(* cleanly (security/trust_ledger.py), with the calls, the answers to        *)
(* approval requests and the operator's settings interleaved on one event    *)
(* loop.                                                                     *)
(*                                                                           *)
(* Left out: the callers that go to SkillExecutor.execute by themselves      *)
(* (skills/executor.py:640-658 counts five places), which meet the gate in   *)
(* SkillExecutor._gate instead, and the inverse calls of a revert, for which *)
(* that gate is skipped (skills/checkpoint_actions.py:60-78).                *)
EXTENDS Integers, Sequences, FiniteSets

CONSTANTS
    Tool, NoTool,
    Arg, NoArg,
    Session, NoSession,
    Root,           \* the session that a subagent's session belongs to
    Call,           \* the calls that may be under way at once
    ReadOnly,       \* tools that change nothing
    PlanSafe,       \* tools that plan mode lets through
    Confirm,        \* tools of the safety level CONFIRM
    Denied,         \* <<x, s>>: policy denies x on the surface of s
    Undoable,       \* UNDOABLE_TOOLS: what a checkpoint can take back
    Looping,        \* tools the loop guard counts: not MCP, not subagents
    PromoteAfter,   \* clean runs that earn trust
    LoopLimit,      \* identical calls in a row of which the last is blocked
    MaxCalls        \* bound on the calls

ASSUME NamesAssumption ==
    NoTool \notin Tool /\ NoArg \notin Arg /\ NoSession \notin Session
ASSUME SessionsAssumption ==
    /\ Root \in [Session -> Session]
    /\ Denied \subseteq Tool \X Session
ASSUME BoundsAssumption ==
    /\ PromoteAfter \in Nat \ {0}
    /\ LoopLimit \in Nat \ {0}
    /\ MaxCalls \in Nat
    /\ IsFiniteSet(Call)

VARIABLES
    mode,       \* _autonomy_mode (persisted by its settings)
    plan,       \* the sessions that are in plan mode
    pending,    \* _pending_approvals, oldest first
    grants,     \* the approvals <<x, s>> (persisted)
    streak,     \* _streaks of the trust ledger (persisted)
    repeat,     \* _tool_repeat_state: the last call of a session, how often
    call,       \* the calls under way
    calls,      \* calls so far
    yes,        \* history: <<x, s>> where a user approved a request
    earned,     \* history: clean runs since the last setback of a tool that
                \* can be undone, in the batches of turns
    overtaken   \* history: tools with a setback the ledger was not told of, or
                \* with clean runs of before one it is still to hear of

history == <<yes, earned, overtaken>>
vars == <<mode, plan, pending, grants, streak, repeat, call, calls, history>>

Mode == {"strict", "hybrid", "loose"}
Request == [session : Session, tool : Tool, arg : Arg]

\* approved: a user said yes, and the call is on its way to the gate; ended:
\* the call has its result; folding: so have all calls of its batch, whose
\* outcomes go into the ledger one by one.
CallRecord == [pc : {"idle", "approved", "running", "ended", "folding"},
               session : Session \cup {NoSession}, tool : Tool \cup {NoTool},
               arg : Arg \cup {NoArg}, outcome : {"none", "clean", "failed", "asked"},
               folds : BOOLEAN]
RepeatRecord == [tool : Tool \cup {NoTool}, arg : Arg \cup {NoArg}, n : 0..LoopLimit]

TypeOK ==
    /\ mode \in Mode
    /\ plan \subseteq Session
    /\ pending \in Seq(Request)
    /\ grants \subseteq Tool \X Session
    /\ streak \in [Tool -> Nat]
    /\ repeat \in [Session -> RepeatRecord]
    /\ call \in [Call -> CallRecord]
    /\ calls \in Nat
    /\ yes \subseteq Tool \X Session
    /\ earned \in [Tool -> Nat]
    /\ overtaken \subseteq Tool

Idle == [pc |-> "idle", session |-> NoSession, tool |-> NoTool, arg |-> NoArg,
         outcome |-> "none", folds |-> FALSE]
Fresh == [tool |-> NoTool, arg |-> NoArg, n |-> 0]

Init ==
    /\ mode \in Mode
    /\ plan = {}
    /\ pending = <<>>
    /\ grants = {}
    /\ streak = [x \in Tool |-> 0]
    /\ repeat = [s \in Session |-> Fresh]
    /\ call = [t \in Call |-> Idle]
    /\ calls = 0
    /\ yes = {}
    /\ earned = [x \in Tool |-> 0]
    /\ overtaken = {}
-----------------------------------------------------------------------------
(* The gate. *)

\* is_active() walks to the session's root.
Planned(s) == s \in plan \/ Root[s] \in plan

\* Mutant: a subagent's session is looked up alone.
BlocksOwn(s, x) == s \in plan /\ x \notin PlanSafe

\* enforce_plan_mode()
Blocks(s, x) == Planned(s) /\ x \notin PlanSafe

\* register_tool_attempt(), counting no further than the guard looks.
Attempt(s, x, a) ==
    LET n == IF repeat[s].tool = x /\ repeat[s].arg = a THEN repeat[s].n + 1 ELSE 1
    IN  [tool |-> x, arg |-> a, n |-> IF n > LoopLimit THEN LoopLimit ELSE n]

Loops(s, x, a) == x \in Looping /\ Attempt(s, x, a).n = LoopLimit
Attempted(s, x, a) ==
    repeat' = IF x \in Looping THEN [repeat EXCEPT ![s] = Attempt(s, x, a)] ELSE repeat

Trusted(x) == x \in Undoable /\ streak[x] >= PromoteAfter

\* Mutant: trust counts in every mode.
NeedsYesButTrust(x) ==
    /\ mode = "strict" => x \notin ReadOnly
    /\ mode = "hybrid" => x \in Confirm
    /\ mode # "loose"
    /\ ~Trusted(x)

\* What the autonomy mode, and earned trust, leave to the user.
NeedsYes(x) ==
    \/ mode = "strict" /\ x \notin ReadOnly
    \/ mode = "hybrid" /\ x \in Confirm /\ ~Trusted(x)

Permitted(s, x) == <<x, s>> \notin Denied /\ (NeedsYes(x) => <<x, s>> \in grants)
Asks(s, x) == <<x, s>> \notin Denied /\ ~Permitted(s, x)

\* The call t has its result. One of a batch waits for the others; any other
\* has a caller that keeps no account.
Ended(t, s, x, a, folds, outcome) ==
    call' = [call EXCEPT ![t] =
               IF folds THEN [pc |-> "ended", session |-> s, tool |-> x, arg |-> a,
                              outcome |-> outcome, folds |-> TRUE]
               ELSE Idle]

\* Refused by plan mode, before anything is counted; by the loop guard; by
\* policy.
Refused(t, s, x, a, folds) ==
    /\ \/ Blocks(s, x) /\ UNCHANGED repeat
       \/ ~Blocks(s, x) /\ Attempted(s, x, a) /\ (Loops(s, x, a) \/ <<x, s>> \in Denied)
    /\ Ended(t, s, x, a, folds, "failed")
    /\ UNCHANGED pending

\* A pending approval, the one there is for an identical call or a new one.
Asked(t, s, x, a, folds) ==
    LET r == [session |-> s, tool |-> x, arg |-> a] IN
    /\ ~Blocks(s, x) /\ ~Loops(s, x, a) /\ Asks(s, x)
    /\ Attempted(s, x, a)
    /\ pending' = IF \E i \in DOMAIN pending : pending[i] = r THEN pending
                  ELSE Append(pending, r)
    /\ Ended(t, s, x, a, folds, "asked")

Started(t, s, x, a, folds) ==
    /\ ~Blocks(s, x) /\ ~Loops(s, x, a) /\ Permitted(s, x)
    /\ Attempted(s, x, a)
    /\ call' = [call EXCEPT ![t] = [pc |-> "running", session |-> s, tool |-> x,
                                    arg |-> a, outcome |-> "none", folds |-> folds]]
    /\ UNCHANGED pending

Gate(t, s, x, a, folds) ==
    /\ Refused(t, s, x, a, folds) \/ Asked(t, s, x, a, folds) \/ Started(t, s, x, a, folds)
    /\ UNCHANGED <<mode, plan, grants, streak, history>>

\* A batch does not begin while the last one of its session is folded.
Folding(s) == \E t \in Call : call[t].pc = "folding" /\ call[t].session = s

\* A call of the model's, in the batch of a turn, or of a subagent, a fallback
\* or a flow.
Dispatch(t, s, x, a, folds) ==
    /\ call[t].pc = "idle"
    /\ folds => ~Folding(s)
    /\ calls < MaxCalls
    /\ calls' = calls + 1
    /\ Gate(t, s, x, a, folds)
-----------------------------------------------------------------------------
(* Answers. *)

Without(i) == SubSeq(pending, 1, i - 1) \o SubSeq(pending, i + 1, Len(pending))

\* The request is taken out and the standing approval made, before the call
\* is announced.
Approve(t, i) ==
    LET r == pending[i] IN
    /\ call[t].pc = "idle"
    /\ pending' = Without(i)
    /\ grants' = grants \cup {<<r.tool, r.session>>}
    /\ yes' = yes \cup {<<r.tool, r.session>>}
    /\ call' = [call EXCEPT ![t] = [pc |-> "approved", session |-> r.session,
                                    tool |-> r.tool, arg |-> r.arg,
                                    outcome |-> "none", folds |-> FALSE]]
    /\ UNCHANGED <<mode, plan, streak, repeat, calls, earned, overtaken>>

Deny(i) ==
    /\ pending' = Without(i)
    /\ UNCHANGED <<mode, plan, grants, streak, repeat, call, calls, history>>

\* A yes or no in the chat is for the newest request of the session.
Newest(s, i) ==
    /\ pending[i].session = s
    /\ \A j \in DOMAIN pending : pending[j].session = s => j <= i
ChatAnswers(t, s) ==
    \E i \in DOMAIN pending : Newest(s, i) /\ (Approve(t, i) \/ Deny(i))

\* The approved call goes through the whole gate.
Redispatch(t) ==
    /\ call[t].pc = "approved"
    /\ Gate(t, call[t].session, call[t].tool, call[t].arg, FALSE)
    /\ UNCHANGED calls
-----------------------------------------------------------------------------
(* Runs, and what the ledger makes of them. *)

\* Clean runs of x that the ledger is still to hear of.
Unheard(x) == {t \in Call : /\ call[t].pc \in {"ended", "folding"}
                            /\ call[t].tool = x /\ call[t].outcome = "clean"}

\* A setback of the tools of X, at this moment: the count starts anew.
Setback(X) == earned' = [x \in Tool |-> IF x \in X THEN 0 ELSE earned[x]]

\* The ledger is told of it: it is still behind where earlier clean runs are to
\* come.
Told(X) ==
    overtaken' = (overtaken \ X) \cup {x \in X \cap Undoable : Unheard(x)' # {}}

\* Nobody tells the ledger, or the fold of the batch does, later.
RunFails(t) ==
    /\ call[t].pc = "running"
    /\ Ended(t, call[t].session, call[t].tool, call[t].arg, call[t].folds, "failed")
    /\ Setback({call[t].tool})
    /\ overtaken' = overtaken \cup {x \in {call[t].tool} \cap Undoable :
                                      streak[x] > 0 \/ Unheard(x) # {}}
    /\ UNCHANGED <<mode, plan, pending, grants, streak, repeat, calls, yes>>

RunSucceeds(t) ==
    LET x == call[t].tool IN
    /\ call[t].pc = "running"
    /\ Ended(t, call[t].session, x, call[t].arg, call[t].folds, "clean")
    /\ earned' = IF call[t].folds /\ x \in Undoable
                 THEN [earned EXCEPT ![x] = @ + 1] ELSE earned
    /\ UNCHANGED <<mode, plan, pending, grants, streak, repeat, calls, yes, overtaken>>

\* The tool did its work and no record of how to undo it could be written.
UndoIsLost(t) ==
    LET x == call[t].tool IN
    /\ call[t].pc = "running"
    /\ x \in Undoable
    /\ Ended(t, call[t].session, x, call[t].arg, call[t].folds, "clean")
    /\ streak' = [streak EXCEPT ![x] = 0]
    /\ Setback({x}) /\ Told({x})
    /\ UNCHANGED <<mode, plan, pending, grants, repeat, calls, yes>>

\* asyncio.gather() of a session's batch returns.
Gathered(s) ==
    /\ \A t \in Call : call[t].session = s /\ call[t].folds => call[t].pc = "ended"
    /\ \E t \in Call : call[t].session = s /\ call[t].pc = "ended"
    /\ call' = [t \in Call |->
                  IF call[t].session = s /\ call[t].pc = "ended"
                  THEN [call[t] EXCEPT !.pc = "folding"] ELSE call[t]]
    /\ UNCHANGED <<mode, plan, pending, grants, streak, repeat, calls, history>>

\* Mutant: a question counts as a clean run.
RecordedAskedToo(x, outcome) ==
    IF x \notin Undoable THEN streak[x]
    ELSE IF outcome = "failed" THEN 0 ELSE streak[x] + 1

\* Mutant: a failure takes one clean run away.
RecordedTakingOneOff(x, outcome) ==
    IF x \notin Undoable \/ outcome = "asked" THEN streak[x]
    ELSE IF outcome = "failed" THEN streak[x] - 1 ELSE streak[x] + 1

\* record(), of any outcome but a question.
Recorded(x, outcome) ==
    IF x \notin Undoable \/ outcome = "asked" THEN streak[x]
    ELSE IF outcome = "failed" THEN 0 ELSE streak[x] + 1

Fold(t) ==
    LET x == call[t].tool IN
    /\ call[t].pc = "folding"
    /\ streak' = [streak EXCEPT ![x] = Recorded(x, call[t].outcome)]
    /\ call' = [call EXCEPT ![t] = Idle]
    /\ overtaken' = overtaken \ {y \in {x} : call[t].outcome = "failed"
                                             /\ Unheard(y)' = {}}
    /\ UNCHANGED <<mode, plan, pending, grants, repeat, calls, yes, earned>>
-----------------------------------------------------------------------------
(* The operator, and the process. *)

SetMode(m) ==
    /\ m # mode
    /\ mode' = m
    /\ UNCHANGED <<plan, pending, grants, streak, repeat, call, calls, history>>

EnterPlan(s) ==
    /\ s \notin plan
    /\ plan' = plan \cup {s}
    /\ UNCHANGED <<mode, pending, grants, streak, repeat, call, calls, history>>

\* Approved or not, leaving plan mode grants nothing.
ExitPlan(s) ==
    /\ s \in plan
    /\ plan' = plan \ {s}
    /\ UNCHANGED <<mode, pending, grants, streak, repeat, call, calls, history>>

\* A turn is reverted: revoke_all().
Revert ==
    /\ streak' = [x \in Tool |-> 0]
    /\ UNCHANGED <<mode, plan, pending, grants, repeat, call, calls, yes>>
    /\ Setback(Tool) /\ Told(Tool)

\* clear_session() of a session that has disconnected. Its pending requests,
\* its approvals and the calls under way stay.
Disconnect(s) ==
    /\ repeat' = [repeat EXCEPT ![s] = Fresh]
    /\ plan' = plan \ {s}
    /\ UNCHANGED <<mode, pending, grants, streak, call, calls, history>>

\* What is not persisted is gone.
Restart ==
    /\ plan' = {}
    /\ pending' = <<>>
    /\ repeat' = [s \in Session |-> Fresh]
    /\ call' = [t \in Call |-> Idle]
    /\ UNCHANGED <<mode, grants, streak, calls, history>>
-----------------------------------------------------------------------------
CallStep(t) ==
    Redispatch(t) \/ RunFails(t) \/ RunSucceeds(t) \/ UndoIsLost(t) \/ Fold(t)

Next ==
    \/ \E t \in Call :
          \/ \E s \in Session, x \in Tool, a \in Arg, folds \in BOOLEAN :
                Dispatch(t, s, x, a, folds)
          \/ \E i \in DOMAIN pending : Approve(t, i)
          \/ \E s \in Session : ChatAnswers(t, s)
          \/ CallStep(t)
    \/ \E i \in DOMAIN pending : Deny(i)
    \/ \E m \in Mode : SetMode(m)
    \/ \E s \in Session : EnterPlan(s) \/ ExitPlan(s) \/ Disconnect(s) \/ Gathered(s)
    \/ Revert
    \/ Restart

Spec == Init /\ [][Next]_vars
-----------------------------------------------------------------------------
(* Properties. *)

\* What a user would accept as the reason that x runs in s.
Licensed(s, x) ==
    /\ <<x, s>> \notin Denied
    /\ \/ mode = "loose"
       \/ mode = "hybrid" /\ x \notin Confirm
       \/ mode = "strict" /\ x \in ReadOnly
       \/ <<x, s>> \in yes
       \/ mode = "hybrid" /\ Trusted(x)

Starts(t) == call[t].pc # "running" /\ call'[t].pc = "running"

\* Whatever was asked, answered, earned, reverted, forgotten or persisted
\* before: a call that goes through ToolRunner starts to run only if the mode
\* of that moment allows it, or a user approved the tool in that very session,
\* or, in hybrid mode, it can be undone and is trusted, as the ledger counts.
RunsAreLicensed ==
    [][\A t \in Call : Starts(t) => Licensed(call'[t].session, call'[t].tool)]_vars

\* Nothing that could change anything starts in a session while it, or the
\* session it is a subagent of, is in plan mode: not an approved call either.
\* The subagents are those with a ":sub:" identifier, whose ancestry can be
\* walked; spawn_subsession mints identifiers that name no parent
\* (agents/plan_mode.py:124-130).
PlanModeHolds ==
    [][\A t \in Call : Starts(t) =>
          \/ call'[t].tool \in PlanSafe
          \/ {call'[t].session, Root[call'[t].session]} \cap plan = {}]_vars

\* The ledger credits no tool with more clean runs than the batches have made
\* since the tool last failed, was reverted or lost its undo record, however
\* parallel calls, reverts and restarts interleave, unless that setback has
\* overtaken the ledger: a failure that nobody told it of, or not yet, when it
\* credited the tool, or clean runs of before the setback it was still to hear of.
TrustIsEarned == \A x \in Tool : x \notin overtaken => streak[x] <= earned[x]
=============================================================================
