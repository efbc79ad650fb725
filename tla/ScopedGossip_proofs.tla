------------------------ MODULE ScopedGossip_proofs ------------------------
(* The confinement of scopes, for any number of brains, any scopes and any *)
(* operations.                                                             *)
EXTENDS ScopedGossip, TLAPS

\* The brains' logs are a function on Node, grants are sets of scopes, and
\* links join brains.
THEOREM GossipTypeCorrect == Spec => []TypeOK
<1>1. Init => TypeOK
  BY DEF Init, TypeOK
<1>2. TypeOK /\ [Next]_vars => TypeOK'
  BY DEF TypeOK, Next, vars, Write, Deliver, Widen, Carry, Learn
<1> QED
  BY <1>1, <1>2, PTL DEF Spec

\* Links are never taken away: granting and carrying are the only changes.
LEMMA LinksGrow ==
    ASSUME TypeOK, [Next]_vars, NEW a \in Node, NEW b \in Node, NEW s,
           Linked(a, b, s)
    PROVE  Linked(a, b, s)'
<1>1. CASE UNCHANGED vars
  BY <1>1 DEF vars, Linked
<1>2. ASSUME NEW n \in Node, Write(n) PROVE Linked(a, b, s)'
  BY <1>2 DEF Write, Linked
<1>3. ASSUME NEW n \in Node, NEW p \in Node, Deliver(p, n)
      PROVE  Linked(a, b, s)'
  BY <1>3 DEF Deliver, Linked
<1>4. ASSUME NEW n \in Node, NEW p \in Node, Widen(n, p)
      PROVE  Linked(a, b, s)'
  BY <1>4 DEF Widen, Linked, TypeOK
<1>5. ASSUME NEW n \in Node, NEW p \in Node, Carry(p, n)
      PROVE  Linked(a, b, s)'
  BY <1>5 DEF Carry, Linked
<1> QED
  BY <1>1, <1>2, <1>3, <1>4, <1>5 DEF Next

\* A brain that holds a new operation wrote it, or is linked in its scope to
\* a brain that held it.
LEMMA NewOperations ==
    ASSUME TypeOK, [Next]_vars, NEW n \in Node, NEW op \in log'[n],
           op \notin log[n]
    PROVE  \/ op.origin = n
           \/ \E a \in Node : op \in log[a] /\ Linked(a, n, op.scope)
<1>1. CASE UNCHANGED vars
  BY <1>1 DEF vars
<1>2. ASSUME NEW m \in Node, Write(m) PROVE op.origin = n
  BY <1>2 DEF Write, Learn, TypeOK
<1>3. ASSUME NEW m \in Node, NEW a \in Node, Deliver(a, m)
      PROVE  op \in log[a] /\ Linked(a, n, op.scope)
  BY <1>3 DEF Deliver, Learn, TypeOK
<1>4. ASSUME NEW m \in Node, NEW p \in Node, Widen(m, p) \/ Carry(p, m)
      PROVE  FALSE
  BY <1>4 DEF Widen, Carry
<1> QED
  BY <1>1, <1>2, <1>3, <1>4 DEF Next

\* No operation leaves a set of brains that contains its writer and that no
\* link in its scope leaves (Confined is inductive, since links only grow).
THEOREM GossipConfined == Spec => []Confined
<1>1. Init => Confined
  BY DEF Init, Confined
<1>2. TypeOK /\ Confined /\ [Next]_vars => Confined'
  <2> SUFFICES ASSUME TypeOK, Confined, [Next]_vars,
                      NEW S \in SUBSET Node, NEW n \in Node,
                      NEW op \in log'[n], op.origin \in S,
                      Closed(S, op.scope)'
               PROVE  n \in S
    BY DEF Confined
  <2>1. Closed(S, op.scope)
    <3> SUFFICES ASSUME NEW a \in S, NEW b \in Node, Linked(a, b, op.scope)
                 PROVE  b \in S
      BY DEF Closed
    <3>1. Linked(a, b, op.scope)'
      BY LinksGrow
    <3> QED
      BY <3>1 DEF Closed
  <2>2. CASE op \in log[n]
    BY <2>1, <2>2 DEF Confined
  <2>3. CASE op.origin = n
    BY <2>3
  <2>4. ASSUME NEW a \in Node, op \in log[a], Linked(a, n, op.scope)
        PROVE  n \in S
    <3>1. a \in S
      BY <2>1, <2>4 DEF Confined
    <3> QED
      BY <2>1, <2>4, <3>1 DEF Closed
  <2> QED
    BY <2>2, <2>3, <2>4, NewOperations
<1> QED
  BY <1>1, <1>2, GossipTypeCorrect, PTL DEF Spec

WriterIsABrain == \A n \in Node : \A op \in log[n] : op.origin \in Node

\* Every operation was written by one of the brains.
LEMMA WritersAreBrains == Spec => []WriterIsABrain
<1>1. Init => WriterIsABrain
  BY DEF Init, WriterIsABrain
<1>2. TypeOK /\ WriterIsABrain /\ [Next]_vars => WriterIsABrain'
  BY NewOperations DEF WriterIsABrain
<1> QED
  BY <1>1, <1>2, GossipTypeCorrect, PTL DEF Spec

\* An operation in a scope nobody can grant, like the reserved "private", is
\* held elsewhere only if its writer's memory was carried away: with no
\* carried bundle it stays on the brain that wrote it.
THEOREM GossipPrivateStaysHome == Spec => []PrivateStaysHome
<1>1. TypeOK /\ Confined /\ WriterIsABrain => PrivateStaysHome
  <2> SUFFICES ASSUME TypeOK, Confined, WriterIsABrain,
                      NEW n \in Node, NEW op \in log[n],
                      op.scope \notin Scope,
                      \A m \in Node : <<op.origin, m>> \notin carried
               PROVE  op.origin = n
    BY DEF PrivateStaysHome
  <2> DEFINE S == {op.origin}
  <2>1. S \in SUBSET Node
    BY DEF WriterIsABrain
  <2>2. Closed(S, op.scope)
    BY <2>1 DEF Closed, Linked, TypeOK
  <2> QED
    BY <2>1, <2>2 DEF Confined
<1> QED
  BY <1>1, GossipTypeCorrect, GossipConfined, WritersAreBrains, PTL
==============================================================================
