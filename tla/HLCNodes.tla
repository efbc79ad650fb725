------------------------------ MODULE HLCNodes ------------------------------
(* Several brains, each with the clock of HLC.tla, stamping operations and *)
(* absorbing each other's stamps in any order, while their physical clocks *)
(* run at different speeds, are stepped back, and while brains reboot.     *)
(* The clock is not written to disk, so a reboot starts it at zero.        *)
EXTENDS HLC

CONSTANTS
    Node,           \* the brains, as ranks of their node identifiers
    MaxTime,        \* bound on physical time
    MaxStamps,      \* bound on the stamps issued
    MaxStepBacks,   \* bound on backward steps of physical clocks
    MaxReboots      \* bound on reboots, of all brains together

ASSUME NodeAssumption == Node \subseteq Nat \ {0}
ASSUME BoundsAssumption ==
    /\ MaxTime \in Nat \ {0} /\ MaxStamps \in Nat
    /\ MaxStepBacks \in Nat /\ MaxReboots \in Nat

VARIABLES
    pt,             \* pt[n]: what _physical_ms() returns on n
    clock,          \* clock[n]: (_wall_ms, _counter)
    stabilized,     \* stabilized[n]: the counter "stabilizations" is not 0
    sent,           \* every stamp issued so far
    rebooted,       \* the brains that have rebooted
    stepBacks,      \* backward steps so far
    reboots,        \* reboots so far
    stamps          \* stamps issued so far

vars == <<pt, clock, stabilized, sent, rebooted, stepBacks, reboots, stamps>>

Stamp == [wall : Nat, counter : Nat, node : Node]

TypeOK ==
    /\ pt \in [Node -> Nat]
    /\ clock \in [Node -> Clock]
    /\ stabilized \in [Node -> BOOLEAN]
    /\ sent \subseteq Stamp
    /\ rebooted \subseteq Node
    /\ stepBacks \in Nat
    /\ reboots \in Nat
    /\ stamps \in Nat

Init ==
    /\ pt = [n \in Node |-> 1]
    /\ clock = [n \in Node |-> ClockAtBoot]
    /\ stabilized = [n \in Node |-> FALSE]
    /\ sent = {}
    /\ rebooted = {}
    /\ stepBacks = 0
    /\ reboots = 0
    /\ stamps = 0

NoteStabilization(n) ==
    stabilized' = [stabilized EXCEPT ![n] = @ \/ RanAway(clock[n], pt[n])]

\* now(): a local event is stamped.
LocalEvent(n) ==
    /\ stamps < MaxStamps
    /\ stamps' = stamps + 1
    /\ clock' = [clock EXCEPT ![n] = Now(clock[n], pt[n])]
    /\ sent' = sent \cup {StampOf(clock'[n], n)}
    /\ NoteStabilization(n)
    /\ UNCHANGED <<pt, rebooted, stepBacks, reboots>>

\* receive(): the clock moves, or declines a stamp from too far ahead.
Absorb(n, ts) ==
    /\ clock' = [clock EXCEPT ![n] = Receive(clock[n], ts, pt[n])]
    /\ NoteStabilization(n)
    /\ UNCHANGED <<pt, sent, rebooted, stepBacks, reboots, stamps>>

\* receive_strict(), whether or not it raises.
AbsorbStrict(n, ts) ==
    /\ clock' = [clock EXCEPT ![n] = ReceiveStrict(clock[n], ts, pt[n])]
    /\ NoteStabilization(n)
    /\ UNCHANGED <<pt, sent, rebooted, stepBacks, reboots, stamps>>

Reboot(n) ==
    /\ reboots < MaxReboots
    /\ clock' = [clock EXCEPT ![n] = ClockAtBoot]
    /\ stabilized' = [stabilized EXCEPT ![n] = FALSE]
    /\ rebooted' = rebooted \cup {n}
    /\ reboots' = reboots + 1
    /\ UNCHANGED <<pt, sent, stepBacks, stamps>>

PhysicalTick(n) ==
    /\ pt[n] < MaxTime
    /\ pt' = [pt EXCEPT ![n] = @ + 1]
    /\ UNCHANGED <<clock, stabilized, sent, rebooted, stepBacks, reboots, stamps>>

\* The operating system corrects the clock backwards (NTP, a resumed VM).
PhysicalStepBack(n) ==
    /\ stepBacks < MaxStepBacks
    /\ \E t \in 1 .. MaxTime :
          /\ t < pt[n]
          /\ pt' = [pt EXCEPT ![n] = t]
    /\ stepBacks' = stepBacks + 1
    /\ UNCHANGED <<clock, stabilized, sent, rebooted, reboots, stamps>>

Next ==
    \E n \in Node :
        \/ LocalEvent(n)
        \/ \E ts \in sent : Absorb(n, ts)
        \/ \E ts \in sent : AbsorbStrict(n, ts)
        \/ Reboot(n)
        \/ PhysicalTick(n)
        \/ PhysicalStepBack(n)

Spec == Init /\ [][Next]_vars

------------------------------------------------------------------------------
(* Properties. *)

\* No operation leaves a logical clock more than MaxDrift ahead of the
\* physical clock that operation read: a clock that ran away, because
\* physical time was stepped back under it, is repaired by the next operation
\* whichever that is (_stabilize runs first in now, receive, receive_strict).
EveryOperationBoundsDrift ==
    [][\A n \in Node :
          clock'[n] # clock[n] => clock'[n].wall <= pt[n] + MaxDrift]_vars

\* send(ts) < receive(ts): a clock that accepts a stamp ends above it, also
\* when the same call had to stabilise the clock first.
ReceiveIsAboveTheStamp ==
    [][\A n \in Node, ts \in sent :
          Absorb(n, ts) /\ WithinDrift(ts, pt[n])
              => MarkLess(ts, clock'[n])]_vars

\* The logical counter of a stamp that these clocks issue never passes
\* MAX_COUNTER + 1, in whatever order they absorb each other's stamps (a clock
\* itself reaches one more, after a receive). A stamp that no clock issued may
\* bear any counter, and the clock that absorbs it one more.
CounterBounded ==
    /\ \A ts \in sent : ts.counter <= MaxCounter + 1
    /\ \A n \in Node : clock[n].counter <= MaxCounter + 2

\* Until a brain reboots or its health reports a stabilisation, each stamp it
\* issues is above every stamp it issued before.
StampsIncreaseUntilReset ==
    [][\A n \in Node :
          LocalEvent(n) /\ ~stabilized'[n] /\ n \notin rebooted
              => \A ts \in sent : ts.node = n => MarkLess(ts, clock'[n])]_vars
==============================================================================
