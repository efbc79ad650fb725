----------------------------- MODULE MCToolGate -----------------------------
(* Constants for checking ToolGate.tla with TLC.                            *)
EXTENDS ToolGate, TLC

CONSTANTS write, mail, read, top, sub

\* A tool that can be undone, one that cannot, and one that only reads.
Tools == {write, mail, read}
Sessions == {top, sub}
TopIsRoot == [s \in Session |-> top]
MailFromSub == {<<mail, sub>>}

\* No property singles out a call.
Swaps == Permutations(Call)
=============================================================================
