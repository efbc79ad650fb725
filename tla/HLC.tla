-------------------------------- MODULE HLC --------------------------------
(* The hybrid logical clock of memory/hlc.py, as operators.                *)
(*                                                                         *)
(* A clock is the pair (_wall_ms, _counter) that HybridLogicalClock keeps; *)
(* every operator takes the clock and the physical time it reads and       *)
(* returns the clock it leaves.  A timestamp (HLCTimestamp) adds the node  *)
(* that issued it, and is ordered by (wall, counter, node).  Node          *)
(* identifiers are strings in the code and are compared as strings; here   *)
(* a node is its rank in that order, a positive number, and 0 stands for   *)
(* the empty string.                                                       *)
EXTENDS Integers

CONSTANTS
    MaxDrift,       \* MAX_CLOCK_DRIFT_MS, in units of the modelled time
    MaxCounter      \* MAX_COUNTER

ASSUME MaxDriftAssumption == MaxDrift \in Nat
ASSUME MaxCounterAssumption == MaxCounter \in Nat

Clock == [wall : Nat, counter : Nat]

ClockAtBoot == [wall |-> 0, counter |-> 0]

\* Order of the dataclass HLCTimestamp, and of the tuples _parse_hlc returns.
TsLess(a, b) ==
    \/ a.wall < b.wall
    \/ a.wall = b.wall /\ a.counter < b.counter
    \/ a.wall = b.wall /\ a.counter = b.counter /\ a.node < b.node

\* The same order without the node: what a watermark comparison uses.
MarkLess(a, b) ==
    \/ a.wall < b.wall
    \/ a.wall = b.wall /\ a.counter < b.counter

Mark(ts) == [wall |-> ts.wall, counter |-> ts.counter]

\* The timestamp a clock shows under the identifier of its node.
StampOf(c, n) == [wall |-> c.wall, counter |-> c.counter, node |-> n]

------------------------------------------------------------------------------
(* The internals. *)

\* Mutant: the bound is one unit too wide.
WithinDriftLoose(remote, pt) == remote.wall <= pt + MaxDrift + 1

WithinDrift(remote, pt) == remote.wall <= pt + MaxDrift

RanAway(c, pt) == c.wall > pt + MaxDrift \/ c.counter > MaxCounter

\* Mutant: the reset forgets that the bound is MaxDrift ahead of pt.
StabilizeLate(c, pt) ==
    IF c.wall > pt + MaxDrift + 1 THEN [wall |-> pt, counter |-> 0] ELSE c

\* Mutant: the counter starts below zero, for the tick to bring it to zero.
StabilizeBelow(c, pt) ==
    IF RanAway(c, pt) THEN [wall |-> pt, counter |-> -1] ELSE c

Stabilize(c, pt) ==
    IF RanAway(c, pt) THEN [wall |-> pt, counter |-> 0] ELSE c

TickLocal(c, pt) ==
    IF pt > c.wall
    THEN [wall |-> pt, counter |-> 0]
    ELSE [wall |-> c.wall, counter |-> c.counter + 1]

------------------------------------------------------------------------------
(* The public operations. *)

\* Mutant: a tick that restarts the counter whenever it reads the clock.
NowFromPhysical(c, pt) == [wall |-> pt, counter |-> 0]

Now(c, pt) == TickLocal(Stabilize(c, pt), pt)

\* The branch of receive() for a remote timestamp that is accepted.
Merge(c, remote, pt) ==
    IF pt > c.wall /\ pt > remote.wall THEN
        [wall |-> pt, counter |-> 0]
    ELSE IF remote.wall > c.wall THEN
        [wall |-> remote.wall, counter |-> remote.counter + 1]
    ELSE IF c.wall > remote.wall THEN
        [wall |-> c.wall, counter |-> c.counter + 1]
    ELSE
        [wall |-> c.wall,
         counter |-> (IF c.counter > remote.counter
                      THEN c.counter ELSE remote.counter) + 1]

Receive(c, remote, pt) ==
    IF WithinDrift(remote, pt)
    THEN Merge(Stabilize(c, pt), remote, pt)
    ELSE TickLocal(Stabilize(c, pt), pt)

\* receive_strict() raises where receive() declines: the clock is left as the
\* stabilisation left it.
ReceiveStrict(c, remote, pt) ==
    IF WithinDrift(remote, pt)
    THEN Receive(Stabilize(c, pt), remote, pt)
    ELSE Stabilize(c, pt)
==============================================================================
