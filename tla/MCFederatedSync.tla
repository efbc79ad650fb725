-------------------------- MODULE MCFederatedSync --------------------------
(* Constants for checking FederatedSync.                                   *)
EXTENDS FederatedSync

TwoNodes == {1, 2}
ThreeNodes == {1, 2, 3}

\* One brain dials the other; both dial; a relay in the middle.
OneDials == {<<1, 2>>}
BothDial == {<<1, 2>>, <<2, 1>>}
Relay == {<<1, 2>>, <<3, 2>>}

\* Every brain shares every scope with every other.
AllGranted == [n \in Node |-> [p \in Node |-> IF n = p THEN {} ELSE Scope]]

\* Any roster entry may change; only those between the relay and 3.
Everybody == Node \X Node
FarLink == {<<2, 3>>, <<3, 2>>}

\* 1 and the relay share with each other; the relay shares with 3, which has
\* not agreed yet.
RelayUnagreed ==
    [n \in Node |-> [p \in Node |->
        IF <<n, p>> \in {<<1, 2>>, <<2, 1>>, <<2, 3>>} THEN Scope ELSE {}]]
==============================================================================
