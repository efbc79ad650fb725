---------------------------- MODULE ScopedGossip ----------------------------
(* What federated memory promises about where an operation may end up,     *)
(* with nothing said about clocks, sessions, batches or rows: a brain      *)
(* learns an operation by writing it, from a brain it shares the           *)
(* operation's scope with, or off a medium its owner carried over.         *)
CONSTANTS
    Node,           \* the brains
    Scope           \* the scopes that can be granted

VARIABLES
    log,            \* log[n]: the operations n holds
    share,          \* share[n][p]: the scopes n ever granted p
    carried         \* the pairs <<m, n>> with a bundle of m imported by n

vars == <<log, share, carried>>

Init ==
    /\ log = [n \in Node |-> {}]
    /\ share \in [Node -> [Node -> SUBSET Scope]]
    /\ carried = {}

\* a and b each granted the other the scope, or the owner carried a's memory.
Linked(a, b, scope) ==
    \/ scope \in share[a][b] /\ scope \in share[b][a]
    \/ <<a, b>> \in carried

Learn(n, op) == log' = [log EXCEPT ![n] = @ \cup {op}]

Write(n) ==
    /\ \E op \in log'[n] : op.origin = n /\ Learn(n, op)
    /\ UNCHANGED <<share, carried>>

Deliver(a, n) ==
    /\ \E op \in log[a] : Linked(a, n, op.scope) /\ Learn(n, op)
    /\ UNCHANGED <<share, carried>>

Widen(n, p) ==
    /\ \E scope \in Scope : share' = [share EXCEPT ![n][p] = @ \cup {scope}]
    /\ UNCHANGED <<log, carried>>

Carry(m, n) ==
    /\ carried' = carried \cup {<<m, n>>}
    /\ UNCHANGED <<log, share>>

Next ==
    \E n, p \in Node : Write(n) \/ Deliver(p, n) \/ Widen(n, p) \/ Carry(p, n)

Spec == Init /\ [][Next]_vars

------------------------------------------------------------------------------
(* Properties. *)

TypeOK ==
    /\ log = [n \in Node |-> log[n]]
    /\ share \in [Node -> [Node -> SUBSET Scope]]
    /\ carried \subseteq Node \X Node

\* A set of brains that no link leaves, for one scope.
Closed(S, scope) ==
    \A a \in S, b \in Node : Linked(a, b, scope) => b \in S

\* An operation is held only by brains that a chain of links in its scope
\* joins to the brain that wrote it: every set of brains that contains the
\* writer, and that no link in that scope leaves, contains every holder.
Confined ==
    \A S \in SUBSET Node, n \in Node :
        \A op \in log[n] :
            op.origin \in S /\ Closed(S, op.scope) => n \in S

\* The operations of a brain whose memory nobody carried away, in a scope
\* that cannot be granted (the reserved "private"), never leave it.
PrivateStaysHome ==
    \A n \in Node : \A op \in log[n] :
        \/ op.scope \in Scope
        \/ op.origin = n
        \/ \E m \in Node : <<op.origin, m>> \in carried
==============================================================================
