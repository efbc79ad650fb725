-------------------------- MODULE ToolGate_proofs --------------------------
(* Proofs about ToolGate.tla, for any tools, sessions, policies and any      *)
(* number of calls.                                                          *)
EXTENDS ToolGate, FiniteSetTheorems, SequenceTheorems, TLAPS

\* A call that is under way has a session, a tool and an argument; one that has
\* ended has an outcome.
Named ==
    \A t \in Call : call[t].pc # "idle" =>
        /\ call[t].session \in Session /\ call[t].tool \in Tool /\ call[t].arg \in Arg
        /\ call[t].pc \in {"ended", "folding"} => call[t].outcome # "none"

\* Every standing approval was a user's.
Consented == grants \subseteq yes

\* The ledger, with the clean runs that it will yet hear of, unless a setback has
\* overtaken it; it keeps none of a tool that cannot be undone.
Credited ==
    \A x \in Tool :
        /\ x \in Undoable \ overtaken =>
              streak[x] + Cardinality(Unheard(x)) <= earned[x]
        /\ x \notin Undoable => streak[x] = 0

Inv == TypeOK /\ Named /\ Consented /\ Credited

\* Calls can be counted, whichever they are.
LEMMA CallsAreFinite ==
    ASSUME NEW S \in SUBSET Call
    PROVE  IsFiniteSet(S) /\ Cardinality(S) \in Nat
<1>1. IsFiniteSet(S)
    BY BoundsAssumption, FS_Subset
<1>. QED
    BY <1>1, FS_CardinalityType

\* Clean runs that are not yet in the ledger are calls.
LEMMA UnheardCounts ==
    ASSUME NEW x
    PROVE  /\ Cardinality(Unheard(x)) \in Nat
           /\ Cardinality(Unheard(x)') \in Nat
           /\ IsFiniteSet(Unheard(x))
<1>1. Unheard(x) \in SUBSET Call /\ Unheard(x)' \in SUBSET Call
    BY DEF Unheard
<1>. QED
    BY <1>1, CallsAreFinite

\* Taking a request out of the list leaves a list of requests.
LEMMA WithoutType ==
    ASSUME pending \in Seq(Request), NEW i \in DOMAIN pending
    PROVE  pending[i] \in Request /\ Without(i) \in Seq(Request)
<1>1. i \in 1..Len(pending) /\ Len(pending) \in Nat
    BY LenProperties
<1>2. \A j \in 1..Len(pending) : pending[j] \in Request
    BY ElementOfSeq
<1>3. SubSeq(pending, 1, i - 1) \in Seq(Request)
  <2>1. \A j \in 1..(i - 1) : pending[j] \in Request
      BY <1>1, <1>2
  <2>. QED
      BY <1>1, <2>1, SubSeqProperties
<1>4. SubSeq(pending, i + 1, Len(pending)) \in Seq(Request)
  <2>1. \A j \in (i + 1)..Len(pending) : pending[j] \in Request
      BY <1>1, <1>2
  <2>. QED
      BY <1>1, <2>1, SubSeqProperties
<1>. QED
    BY <1>1, <1>2, <1>3, <1>4, ConcatProperties DEF Without

\* A call that ends, or that the caller of nobody forgets, is typed and named.
LEMMA EndedType ==
    ASSUME TypeOK, Named, NEW t \in Call, NEW s \in Session, NEW x \in Tool,
           NEW a \in Arg, NEW folds \in BOOLEAN,
           NEW outcome \in {"clean", "failed", "asked"},
           Ended(t, s, x, a, folds, outcome)
    PROVE  call' \in [Call -> CallRecord] /\ Named'
<1>1. Idle \in CallRecord
    BY DEF Idle, CallRecord
<1>2. [pc |-> "ended", session |-> s, tool |-> x, arg |-> a, outcome |-> outcome,
       folds |-> TRUE] \in CallRecord
    BY DEF CallRecord
<1>3. call' \in [Call -> CallRecord]
    BY <1>1, <1>2 DEF TypeOK, Ended
<1>. QED
    BY <1>3 DEF TypeOK, Ended, Named, Idle

\* What the loop guard notes is a record of its own.
LEMMA AttemptedType ==
    ASSUME TypeOK, NEW s \in Session, NEW x \in Tool, NEW a \in Arg,
           Attempted(s, x, a)
    PROVE  repeat' \in [Session -> RepeatRecord]
<1>1. repeat[s].n \in 0..LoopLimit /\ LoopLimit \in Nat /\ LoopLimit > 0
    BY BoundsAssumption DEF TypeOK, RepeatRecord
<1>2. Attempt(s, x, a) \in RepeatRecord
    BY <1>1 DEF Attempt, RepeatRecord
<1>. QED
    BY <1>2 DEF Attempted, TypeOK

\* The gate keeps types and names, and moves no clean run.
LEMMA GateStep ==
    ASSUME Inv, NEW t \in Call, NEW s \in Session, NEW x \in Tool, NEW a \in Arg,
           NEW folds \in BOOLEAN, call[t].pc \in {"idle", "approved"},
           Gate(t, s, x, a, folds), calls' \in Nat
    PROVE  Inv'
<1>1. CASE Refused(t, s, x, a, folds)
  <2>1. call' \in [Call -> CallRecord] /\ Named'
      BY <1>1, EndedType DEF Refused, Inv
  <2>2. repeat' \in [Session -> RepeatRecord]
      BY <1>1, AttemptedType DEF Refused, Inv, TypeOK
  <2>3. \A y \in Tool : Unheard(y)' = Unheard(y)
      BY <1>1 DEF Refused, Ended, Unheard, Idle, Inv, TypeOK
  <2>4. TypeOK' /\ Consented'
      BY <1>1, <2>1, <2>2 DEF Inv, TypeOK, Consented, Gate, Refused, history
  <2>5. Credited'
      BY <2>3 DEF Inv, Credited, Gate, history
  <2>. QED
      BY <2>1, <2>4, <2>5 DEF Inv
<1>2. CASE Asked(t, s, x, a, folds)
  <2>1. call' \in [Call -> CallRecord] /\ Named'
      BY <1>2, EndedType DEF Asked, Inv
  <2>2. repeat' \in [Session -> RepeatRecord]
      BY <1>2, AttemptedType DEF Asked, Inv, TypeOK
  <2>3. \A y \in Tool : Unheard(y)' = Unheard(y)
      BY <1>2 DEF Asked, Ended, Unheard, Idle, Inv, TypeOK
  <2>4. pending' \in Seq(Request)
    <3>1. [session |-> s, tool |-> x, arg |-> a] \in Request
        BY DEF Request
    <3>. QED
        BY <1>2, <3>1, AppendProperties DEF Asked, Inv, TypeOK
  <2>5. TypeOK' /\ Consented'
      BY <2>1, <2>2, <2>4 DEF Inv, TypeOK, Consented, Gate, history
  <2>6. Credited'
      BY <2>3 DEF Inv, Credited, Gate, history
  <2>. QED
      BY <2>1, <2>5, <2>6 DEF Inv
<1>3. CASE Started(t, s, x, a, folds)
  <2>1. call' \in [Call -> CallRecord] /\ Named'
    <3>1. [pc |-> "running", session |-> s, tool |-> x, arg |-> a,
           outcome |-> "none", folds |-> folds] \in CallRecord
        BY DEF CallRecord
    <3>. QED
        BY <1>3, <3>1 DEF Started, Inv, TypeOK, Named
  <2>2. repeat' \in [Session -> RepeatRecord]
      BY <1>3, AttemptedType DEF Started, Inv, TypeOK
  <2>3. \A y \in Tool : Unheard(y)' = Unheard(y)
      BY <1>3 DEF Started, Unheard, Inv, TypeOK
  <2>4. TypeOK' /\ Consented'
      BY <1>3, <2>1, <2>2 DEF Inv, TypeOK, Consented, Gate, Started, history
  <2>5. Credited'
      BY <2>3 DEF Inv, Credited, Gate, history
  <2>. QED
      BY <2>1, <2>4, <2>5 DEF Inv
<1>. QED
    BY <1>1, <1>2, <1>3 DEF Gate

\* An approval makes the one standing approval that the user gave.
LEMMA ApproveStep ==
    ASSUME Inv, NEW t \in Call, NEW i \in DOMAIN pending, Approve(t, i)
    PROVE  Inv'
<1>1. pending[i] \in Request /\ Without(i) \in Seq(Request)
    BY WithoutType DEF Inv, TypeOK
<1>2. /\ pending[i].session \in Session
      /\ pending[i].tool \in Tool
      /\ pending[i].arg \in Arg
    BY <1>1 DEF Request
<1>3. call' \in [Call -> CallRecord] /\ Named'
  <2>1. [pc |-> "approved", session |-> pending[i].session, tool |-> pending[i].tool,
         arg |-> pending[i].arg, outcome |-> "none", folds |-> FALSE] \in CallRecord
      BY <1>2 DEF CallRecord
  <2>. QED
      BY <1>2, <2>1 DEF Approve, Inv, TypeOK, Named
<1>4. TypeOK' /\ Consented'
    BY <1>1, <1>2, <1>3 DEF Inv, TypeOK, Consented, Approve
<1>5. \A y \in Tool : Unheard(y)' = Unheard(y)
    BY DEF Approve, Unheard, Inv, TypeOK
<1>6. Credited'
    BY <1>5 DEF Inv, Credited, Approve
<1>. QED
    BY <1>3, <1>4, <1>6 DEF Inv

\* A refusal takes the request out and nothing else.
LEMMA DenyStep ==
    ASSUME Inv, NEW i \in DOMAIN pending, Deny(i)
    PROVE  Inv'
<1>1. Without(i) \in Seq(Request)
    BY WithoutType DEF Inv, TypeOK
<1>2. \A y \in Tool : Unheard(y)' = Unheard(y)
    BY DEF Deny, Unheard
<1>. QED
    BY <1>1, <1>2 DEF Deny, Inv, TypeOK, Named, Consented, Credited, history

\* A setback that the ledger hears of leaves a tool with no clean run, unless
\* clean runs are still to be heard.
LEMMA ToldOfSetback ==
    ASSUME TypeOK, NEW X \in SUBSET Tool, Setback(X), Told(X)
    PROVE  /\ earned' \in [Tool -> Nat]
           /\ \A x \in Tool : earned'[x] = IF x \in X THEN 0 ELSE earned[x]
           /\ overtaken' \subseteq Tool
           /\ \A x \in X : x \in Undoable \ overtaken' =>
                 Cardinality(Unheard(x)') = 0
           /\ \A x \in Tool \ X : x \in overtaken' <=> x \in overtaken
<1>1. \A x \in X : x \in Undoable \ overtaken' => Unheard(x)' = {}
    BY DEF Told
<1>2. \A x \in X : x \in Undoable \ overtaken' => Cardinality(Unheard(x)') = 0
    BY <1>1, FS_EmptySet
<1>3. overtaken' \subseteq Tool /\ \A x \in Tool \ X : x \in overtaken' <=> x \in overtaken
    BY DEF Told, TypeOK
<1>4. earned' \in [Tool -> Nat]
      /\ \A x \in Tool : earned'[x] = IF x \in X THEN 0 ELSE earned[x]
    BY DEF Setback, TypeOK
<1>. QED
    BY <1>2, <1>3, <1>4

\* What a run that ends adds to the clean runs to be heard.
LEMMA EndedUnheard ==
    ASSUME TypeOK, NEW t \in Call, call[t].pc = "running", NEW folds \in BOOLEAN,
           NEW outcome,
           Ended(t, call[t].session, call[t].tool, call[t].arg, folds, outcome)
    PROVE  \A y \in Tool :
              Unheard(y)' = IF folds /\ outcome = "clean" /\ y = call[t].tool
                            THEN Unheard(y) \cup {t} ELSE Unheard(y)
BY DEF TypeOK, Ended, Unheard, Idle

\* One more clean run that the ledger is to hear of, and it has been had.
LEMMA RunSucceedsStep ==
    ASSUME Inv, NEW t \in Call, RunSucceeds(t)
    PROVE  Inv'
<1> DEFINE x == call[t].tool
<1>1. call[t].pc = "running" /\ call[t].folds \in BOOLEAN
    BY DEF RunSucceeds, Inv, TypeOK, CallRecord
<1>2. x \in Tool /\ call[t].session \in Session /\ call[t].arg \in Arg
    BY <1>1 DEF Inv, Named
<1>3. call' \in [Call -> CallRecord] /\ Named'
    BY <1>1, <1>2, EndedType DEF RunSucceeds, Inv
<1>4. earned' \in [Tool -> Nat]
    BY <1>2 DEF RunSucceeds, Inv, TypeOK
<1>5. TypeOK' /\ Consented'
    BY <1>3, <1>4 DEF RunSucceeds, Inv, TypeOK, Consented
<1>6. \A y \in Tool :
         Unheard(y)' = IF call[t].folds /\ y = x THEN Unheard(y) \cup {t}
                       ELSE Unheard(y)
  <2>1. Ended(t, call[t].session, x, call[t].arg, call[t].folds, "clean")
      BY DEF RunSucceeds
  <2>2. TypeOK
      BY DEF Inv
  <2>. HIDE DEF x
  <2>3. \A y \in Tool :
           Unheard(y)' = IF call[t].folds /\ "clean" = "clean" /\ y = call[t].tool
                         THEN Unheard(y) \cup {t} ELSE Unheard(y)
      BY <1>1, <2>1, <2>2, EndedUnheard DEF x
  <2>. QED
      BY <2>3 DEF x
<1>7. t \notin Unheard(x)
    BY <1>1 DEF Unheard
<1>8. Credited'
  <2> SUFFICES ASSUME NEW y \in Tool
               PROVE  /\ y \in Undoable \ overtaken' =>
                            streak'[y] + Cardinality(Unheard(y)') <= earned'[y]
                      /\ y \notin Undoable => streak'[y] = 0
      BY DEF Credited
  <2>1. /\ streak'[y] = streak[y] /\ streak[y] \in Nat /\ earned[y] \in Nat
        /\ overtaken' = overtaken
      BY DEF RunSucceeds, Inv, TypeOK
  <2>2. /\ y \in Undoable \ overtaken =>
              streak[y] + Cardinality(Unheard(y)) <= earned[y]
        /\ y \notin Undoable => streak[y] = 0
      BY DEF Inv, Credited
  <2>3. CASE call[t].folds /\ y = x /\ y \in Undoable
    <3>1. Cardinality(Unheard(y)') = Cardinality(Unheard(y)) + 1
        BY <1>6, <1>7, <2>3, UnheardCounts, FS_AddElement
    <3>2. earned'[y] = earned[y] + 1
        BY <1>2, <2>3 DEF RunSucceeds, Inv, TypeOK
    <3>. QED
        BY <2>1, <2>2, <3>1, <3>2, UnheardCounts
  <2>4. CASE ~(call[t].folds /\ y = x)
    <3>1. Unheard(y)' = Unheard(y)
        BY <1>6, <2>4
    <3>2. earned'[y] = earned[y]
        BY <1>2, <2>4 DEF RunSucceeds, Inv, TypeOK
    <3>. QED
        BY <2>1, <2>2, <3>1, <3>2
  <2>5. CASE y \notin Undoable
      BY <2>1, <2>2, <2>5
  <2>. QED
      BY <2>3, <2>4, <2>5
<1>. QED
    BY <1>3, <1>5, <1>8 DEF Inv

\* Without a record to undo it by, a clean run starts the account anew.
LEMMA UndoIsLostStep ==
    ASSUME Inv, NEW t \in Call, UndoIsLost(t)
    PROVE  Inv'
<1> DEFINE x == call[t].tool
<1>1. call[t].pc = "running" /\ call[t].folds \in BOOLEAN
    BY DEF UndoIsLost, Inv, TypeOK, CallRecord
<1>2. x \in Tool /\ call[t].session \in Session /\ call[t].arg \in Arg
    BY <1>1 DEF Inv, Named
<1>3. call' \in [Call -> CallRecord] /\ Named'
    BY <1>1, <1>2, EndedType DEF UndoIsLost, Inv
<1>4. /\ earned' \in [Tool -> Nat] /\ overtaken' \subseteq Tool
      /\ \A y \in Tool : earned'[y] = IF y = x THEN 0 ELSE earned[y]
      /\ \A y \in Tool : y = x /\ y \in Undoable \ overtaken' =>
            Cardinality(Unheard(y)') = 0
      /\ \A y \in Tool : y # x => (y \in overtaken' <=> y \in overtaken)
  <2>1. PICK X \in SUBSET Tool : X = {x} /\ Setback(X) /\ Told(X)
      BY <1>2 DEF UndoIsLost
  <2>2. \A y \in Tool : y \in X <=> y = x
      BY <2>1
  <2>3. TypeOK
      BY DEF Inv
  <2>. HIDE DEF x
  <2>4. /\ earned' \in [Tool -> Nat]
        /\ \A y \in Tool : earned'[y] = IF y \in X THEN 0 ELSE earned[y]
        /\ overtaken' \subseteq Tool
        /\ \A y \in X : y \in Undoable \ overtaken' => Cardinality(Unheard(y)') = 0
        /\ \A y \in Tool \ X : y \in overtaken' <=> y \in overtaken
      BY <2>1, <2>3, ToldOfSetback
  <2>. QED
      BY <2>2, <2>4
<1>5. streak' \in [Tool -> Nat] /\ streak'[x] = 0
      /\ \A y \in Tool : y # x => streak'[y] = streak[y]
    BY <1>2 DEF UndoIsLost, Inv, TypeOK
<1>6. TypeOK' /\ Consented'
    BY <1>3, <1>4, <1>5 DEF UndoIsLost, Inv, TypeOK, Consented
<1>7. \A y \in Tool : y # x => Unheard(y)' = Unheard(y)
    BY <1>1, EndedUnheard DEF UndoIsLost, Inv
<1>8. Credited'
  <2> SUFFICES ASSUME NEW y \in Tool
               PROVE  /\ y \in Undoable \ overtaken' =>
                            streak'[y] + Cardinality(Unheard(y)') <= earned'[y]
                      /\ y \notin Undoable => streak'[y] = 0
      BY DEF Credited
  <2>2. CASE y = x
    <3>1. streak'[y] = 0 /\ earned'[y] = 0
        BY <1>4, <1>5, <2>2
    <3>2. y \in Undoable \ overtaken' => Cardinality(Unheard(y)') = 0
        BY <1>4, <2>2
    <3>. QED
        BY <3>1, <3>2
  <2>3. CASE y # x
    <3>1. streak'[y] = streak[y] /\ earned'[y] = earned[y] /\ Unheard(y)' = Unheard(y)
        BY <1>4, <1>5, <1>7, <2>3
    <3>2. y \in overtaken' <=> y \in overtaken
        BY <1>4, <2>3
    <3>. QED
        BY <3>1, <3>2 DEF Inv, Credited
  <2>. QED
      BY <2>2, <2>3
<1>. QED
    BY <1>3, <1>6, <1>8 DEF Inv

\* A run that fails is no clean run.
LEMMA RunFailsStep ==
    ASSUME Inv, NEW t \in Call, RunFails(t)
    PROVE  Inv'
<1>1. call[t].pc = "running" /\ call[t].folds \in BOOLEAN
    BY DEF RunFails, Inv, TypeOK, CallRecord
<1>2. /\ call[t].tool \in Tool
      /\ call[t].session \in Session
      /\ call[t].arg \in Arg
    BY <1>1 DEF Inv, Named
<1>3. call' \in [Call -> CallRecord] /\ Named'
    BY <1>1, <1>2, EndedType DEF RunFails, Inv
<1>4. \A y \in Tool : Unheard(y)' = Unheard(y)
  <2>1. Ended(t, call[t].session, call[t].tool, call[t].arg, call[t].folds, "failed")
        /\ TypeOK
      BY DEF RunFails, Inv
  <2>. QED
      BY <1>1, <2>1, EndedUnheard
<1>5. earned' \in [Tool -> Nat]
      /\ \A y \in Tool : earned'[y] = IF y = call[t].tool THEN 0 ELSE earned[y]
    BY DEF RunFails, Setback, Inv, TypeOK
<1>6. overtaken' \subseteq Tool /\ overtaken \subseteq overtaken'
    BY <1>2 DEF RunFails, Inv, TypeOK
<1>7. TypeOK' /\ Consented'
    BY <1>3, <1>5, <1>6 DEF RunFails, Inv, TypeOK, Consented
<1>8. Credited'
  <2> SUFFICES ASSUME NEW y \in Tool
               PROVE  /\ y \in Undoable \ overtaken' =>
                            streak'[y] + Cardinality(Unheard(y)') <= earned'[y]
                      /\ y \notin Undoable => streak'[y] = 0
      BY DEF Credited
  <2>1. streak' = streak /\ Unheard(y)' = Unheard(y)
      BY <1>4 DEF RunFails
  <2>2. CASE y = call[t].tool
    <3>1. y \in Undoable \ overtaken' => streak[y] = 0 /\ Unheard(y) = {}
        BY <2>2 DEF RunFails, Inv, TypeOK
    <3>2. Cardinality({}) = 0
        BY FS_EmptySet
    <3>. QED
        BY <1>5, <2>1, <2>2, <3>1, <3>2 DEF Inv, Credited
  <2>3. CASE y # call[t].tool
      BY <1>5, <1>6, <2>1, <2>3 DEF Inv, Credited
  <2>. QED
      BY <2>2, <2>3
<1>. QED
    BY <1>3, <1>7, <1>8 DEF Inv

\* What one outcome makes of a streak.
LEMMA RecordedType ==
    ASSUME TypeOK, NEW x \in Tool, NEW outcome
    PROVE  /\ Recorded(x, outcome) \in Nat
           /\ Recorded(x, outcome) <= streak[x] + 1
           /\ outcome = "asked" => Recorded(x, outcome) = streak[x]
           /\ outcome = "failed" => Recorded(x, outcome) <= streak[x]
BY DEF TypeOK, Recorded

\* An outcome leaves the calls and enters the ledger in one step.
LEMMA FoldStep ==
    ASSUME Inv, NEW t \in Call, Fold(t)
    PROVE  Inv'
<1> DEFINE x == call[t].tool
           o == call[t].outcome
<1>1. call[t].pc = "folding"
    BY DEF Fold
<1>2. x \in Tool
    BY <1>1 DEF Inv, Named
<1>3. call' \in [Call -> CallRecord] /\ Named'
    BY DEF Fold, Inv, TypeOK, Named, Idle, CallRecord
<1>4. \A y \in Tool : Unheard(y)' = IF y = x /\ o = "clean" THEN Unheard(y) \ {t}
                                    ELSE Unheard(y)
    BY <1>1 DEF Fold, Inv, TypeOK, Unheard, Idle
<1>5. streak' \in [Tool -> Nat] /\ streak'[x] = Recorded(x, o)
      /\ \A y \in Tool : y # x => streak'[y] = streak[y]
    BY <1>2, RecordedType DEF Fold, Inv, TypeOK
<1>6. /\ earned' = earned /\ overtaken' \subseteq overtaken
      /\ \A y \in Tool : y \in overtaken /\ y \notin overtaken' =>
            y = x /\ o = "failed" /\ Unheard(y)' = {}
    BY DEF Fold
<1>7. TypeOK' /\ Consented'
    BY <1>3, <1>5, <1>6 DEF Fold, Inv, TypeOK, Consented
<1>8. Credited'
  <2> SUFFICES ASSUME NEW y \in Tool
               PROVE  /\ y \in Undoable \ overtaken' =>
                            streak'[y] + Cardinality(Unheard(y)') <= earned'[y]
                      /\ y \notin Undoable => streak'[y] = 0
      BY DEF Credited
  <2>1. /\ streak[y] \in Nat /\ earned[y] \in Nat
        /\ y \in Undoable \ overtaken =>
              streak[y] + Cardinality(Unheard(y)) <= earned[y]
        /\ y \notin Undoable => streak[y] = 0
      BY DEF Inv, TypeOK, Credited
  <2>2. y \notin Undoable => streak'[y] = 0
    <3>1. CASE y # x
        BY <1>5, <2>1, <3>1
    <3>2. CASE y = x
        BY <1>5, <2>1, <3>2 DEF Recorded
    <3>. QED
        BY <3>1, <3>2
  <2>3. CASE y # x
    <3>1. Unheard(y)' = Unheard(y) /\ streak'[y] = streak[y]
        BY <1>4, <1>5, <2>3
    <3>2. y \in overtaken => y \in overtaken'
        BY <1>6, <2>3
    <3>. QED
        BY <1>6, <2>1, <2>2, <3>1, <3>2
  <2>4. CASE y = x /\ o = "failed"
    <3>1. y \in Undoable => streak'[y] = 0
        BY <1>5, <2>4 DEF Recorded
    <3>2. Unheard(y)' = Unheard(y)
        BY <1>4, <2>4
    <3>3. CASE y \in overtaken
      <4>1. y \in Undoable \ overtaken' => Cardinality(Unheard(y)') = 0
          BY <1>6, <2>4, <3>3, FS_EmptySet
      <4>. QED
          BY <1>6, <2>1, <2>2, <3>1, <4>1
    <3>4. CASE y \notin overtaken
        BY <1>6, <2>1, <2>2, <3>1, <3>2, <3>4, UnheardCounts
    <3>. QED
        BY <3>3, <3>4
  <2>5. CASE y = x /\ o = "clean"
    <3>1. t \in Unheard(y)
        BY <1>1, <2>5 DEF Unheard
    <3>2. Cardinality(Unheard(y)') = Cardinality(Unheard(y)) - 1
        BY <1>4, <2>5, <3>1, UnheardCounts, FS_RemoveElement
    <3>3. y \in overtaken => y \in overtaken'
        BY <1>6, <2>5
    <3>4. streak'[y] <= streak[y] + 1 /\ streak'[y] \in Nat
        BY <1>2, <1>5, <2>5, RecordedType DEF Inv
    <3>. QED
        BY <1>6, <2>1, <2>2, <3>2, <3>3, <3>4, UnheardCounts
  <2>6. CASE y = x /\ o \notin {"failed", "clean"}
    <3>1. o = "asked"
        BY <1>1, <2>6 DEF Inv, TypeOK, CallRecord, Named
    <3>2. streak'[y] = streak[y]
        BY <1>2, <1>5, <2>6, <3>1, RecordedType DEF Inv
    <3>3. Unheard(y)' = Unheard(y) /\ (y \in overtaken => y \in overtaken')
        BY <1>4, <1>6, <2>6, <3>1
    <3>. QED
        BY <1>6, <2>1, <2>2, <3>2, <3>3
  <2>. QED
      BY <2>3, <2>4, <2>5, <2>6
<1>. QED
    BY <1>3, <1>7, <1>8 DEF Inv

\* A batch that is gathered keeps its outcomes for the ledger.
LEMMA GatheredStep ==
    ASSUME Inv, NEW s \in Session, Gathered(s)
    PROVE  Inv'
<1>1. \A t \in Call :
         call'[t] = IF call[t].session = s /\ call[t].pc = "ended"
                    THEN [call[t] EXCEPT !.pc = "folding"] ELSE call[t]
    BY DEF Gathered
<1>2. \A t \in Call : call'[t] \in CallRecord
  <2> SUFFICES ASSUME NEW t \in Call PROVE call'[t] \in CallRecord
      OBVIOUS
  <2>1. call[t] \in CallRecord
      BY DEF Inv, TypeOK
  <2>2. [call[t] EXCEPT !.pc = "folding"] \in CallRecord
      BY <2>1 DEF CallRecord
  <2>. QED
      BY <1>1, <2>1, <2>2
<1>3. call' \in [Call -> CallRecord]
    BY <1>2 DEF Gathered
<1>4. \A t \in Call : /\ call'[t].session = call[t].session
                      /\ call'[t].tool = call[t].tool
                      /\ call'[t].arg = call[t].arg
                      /\ call'[t].outcome = call[t].outcome
                      /\ \/ call'[t].pc = call[t].pc
                         \/ /\ call[t].pc = "ended"
                            /\ call'[t].pc = "folding"
  <2> SUFFICES ASSUME NEW t \in Call
               PROVE  /\ call'[t].session = call[t].session
                      /\ call'[t].tool = call[t].tool
                      /\ call'[t].arg = call[t].arg
                      /\ call'[t].outcome = call[t].outcome
                      /\ \/ call'[t].pc = call[t].pc
                         \/ /\ call[t].pc = "ended"
                            /\ call'[t].pc = "folding"
      OBVIOUS
  <2>1. call[t] \in CallRecord
      BY DEF Inv, TypeOK
  <2>2. CASE call[t].session = s /\ call[t].pc = "ended"
      BY <1>1, <2>1, <2>2 DEF CallRecord
  <2>3. CASE ~(call[t].session = s /\ call[t].pc = "ended")
      BY <1>1, <2>1, <2>3
  <2>. QED
      BY <2>2, <2>3
<1>5. Named'
    BY <1>4 DEF Inv, Named
<1>6. \A y \in Tool : Unheard(y)' = Unheard(y)
    BY <1>4 DEF Unheard
<1>. QED
    BY <1>3, <1>5, <1>6 DEF Gathered, Inv, TypeOK, Consented, Credited, history

\* A revert leaves no credit; a restart forgets clean runs and credits none.
LEMMA OperatorStep ==
    ASSUME Inv,
           \/ \E m \in Mode : SetMode(m)
           \/ \E s \in Session : EnterPlan(s) \/ ExitPlan(s) \/ Disconnect(s)
           \/ Revert
           \/ Restart
    PROVE  Inv'
<1>1. Idle \in CallRecord /\ Fresh \in RepeatRecord
    BY BoundsAssumption DEF Idle, CallRecord, Fresh, RepeatRecord
<1>2. CASE /\ UNCHANGED <<call, streak, earned, overtaken, yes, grants, pending, calls>>
           /\ mode' \in Mode /\ plan' \subseteq Session
           /\ repeat' \in [Session -> RepeatRecord]
  <2>1. \A y \in Tool : Unheard(y)' = Unheard(y)
      BY <1>2 DEF Unheard
  <2>. QED
      BY <1>2, <2>1 DEF Inv, TypeOK, Named, Consented, Credited
<1>3. ASSUME NEW m \in Mode, SetMode(m) PROVE Inv'
    BY <1>2, <1>3 DEF SetMode, Inv, TypeOK, history
<1>4. ASSUME NEW s \in Session, EnterPlan(s) PROVE Inv'
    BY <1>2, <1>4 DEF EnterPlan, Inv, TypeOK, history
<1>5. ASSUME NEW s \in Session, ExitPlan(s) PROVE Inv'
    BY <1>2, <1>5 DEF ExitPlan, Inv, TypeOK, history
<1>6. ASSUME NEW s \in Session, Disconnect(s) PROVE Inv'
    BY <1>1, <1>2, <1>6 DEF Disconnect, Inv, TypeOK, history
<1>7. CASE Revert
  <2>1. /\ earned' \in [Tool -> Nat] /\ overtaken' \subseteq Tool
        /\ \A x \in Tool : /\ earned'[x] = 0
                           /\ x \in Undoable \ overtaken' =>
                                 Cardinality(Unheard(x)') = 0
      BY <1>7, ToldOfSetback DEF Revert, Inv
  <2>2. streak' \in [Tool -> Nat] /\ \A x \in Tool : streak'[x] = 0
      BY <1>7 DEF Revert
  <2>3. TypeOK' /\ Named' /\ Consented'
      BY <1>7, <2>1, <2>2 DEF Revert, Inv, TypeOK, Named, Consented
  <2>4. Credited'
      BY <2>1, <2>2 DEF Credited
  <2>. QED
      BY <2>3, <2>4 DEF Inv
<1>8. CASE Restart
  <2>1. call' \in [Call -> CallRecord] /\ repeat' \in [Session -> RepeatRecord]
      BY <1>1, <1>8 DEF Restart
  <2>2. \A y \in Tool : Unheard(y)' = {}
      BY <1>8 DEF Restart, Unheard, Idle
  <2>3. pending' \in Seq(Request)
      BY <1>8 DEF Restart
  <2>4. TypeOK' /\ Consented'
      BY <1>8, <2>1, <2>3 DEF Restart, Inv, TypeOK, Consented, history
  <2>5. Named'
      BY <1>8 DEF Restart, Named, Idle
  <2>6. Credited'
    <3> SUFFICES ASSUME NEW y \in Tool
                 PROVE  /\ y \in Undoable \ overtaken' =>
                              streak'[y] + Cardinality(Unheard(y)') <= earned'[y]
                        /\ y \notin Undoable => streak'[y] = 0
        BY DEF Credited
    <3>1. Cardinality(Unheard(y)') = 0
        BY <2>2, FS_EmptySet
    <3>2. streak'[y] = streak[y] /\ earned'[y] = earned[y] /\ overtaken' = overtaken
        BY <1>8 DEF Restart, history
    <3>3. streak[y] \in Nat /\ earned[y] \in Nat
        BY DEF Inv, TypeOK
    <3>4. /\ y \in Undoable \ overtaken =>
                streak[y] + Cardinality(Unheard(y)) <= earned[y]
          /\ y \notin Undoable => streak[y] = 0
        BY DEF Inv, Credited
    <3>. QED
        BY <3>1, <3>2, <3>3, <3>4, UnheardCounts
  <2>. QED
      BY <2>4, <2>5, <2>6 DEF Inv
<1>. QED
    BY <1>3, <1>4, <1>5, <1>6, <1>7, <1>8

\* Nothing has been granted, earned or started at first.
LEMMA InitInv == Init => Inv
<1> SUFFICES ASSUME Init PROVE Inv
    OBVIOUS
<1>1. Idle \in CallRecord /\ Fresh \in RepeatRecord
    BY BoundsAssumption DEF Idle, CallRecord, Fresh, RepeatRecord
<1>2. pending \in Seq(Request)
    BY DEF Init
<1>3. TypeOK
    BY <1>1, <1>2 DEF Init, TypeOK
<1>4. \A y \in Tool : Unheard(y) = {}
    BY DEF Init, Unheard, Idle
<1>5. \A y \in Tool : Cardinality(Unheard(y)) = 0
    BY <1>4, FS_EmptySet
<1>6. Credited
    BY <1>5 DEF Init, Credited
<1>. QED
    BY <1>3, <1>6 DEF Inv, Init, Named, Idle, Consented

\* Every step keeps the invariant.
LEMMA NextInv == Inv /\ [Next]_vars => Inv'
<1> SUFFICES ASSUME Inv, [Next]_vars PROVE Inv'
    OBVIOUS
<1>1. ASSUME NEW t \in Call, NEW s \in Session, NEW x \in Tool, NEW a \in Arg,
             NEW folds \in BOOLEAN, Dispatch(t, s, x, a, folds)
      PROVE  Inv'
  <2>1. calls' \in Nat
      BY <1>1 DEF Dispatch, Inv, TypeOK
  <2>. QED
      BY <1>1, <2>1, GateStep DEF Dispatch
<1>2. ASSUME NEW t \in Call, NEW i \in DOMAIN pending, Approve(t, i)
      PROVE  Inv'
    BY <1>2, ApproveStep
<1>3. ASSUME NEW i \in DOMAIN pending, Deny(i)
      PROVE  Inv'
    BY <1>3, DenyStep
<1>4. ASSUME NEW t \in Call, NEW s \in Session, ChatAnswers(t, s)
      PROVE  Inv'
    BY <1>2, <1>3, <1>4 DEF ChatAnswers
<1>5. ASSUME NEW t \in Call, Redispatch(t)
      PROVE  Inv'
  <2>1. /\ call[t].session \in Session
        /\ call[t].tool \in Tool
        /\ call[t].arg \in Arg
      BY <1>5 DEF Redispatch, Inv, Named
  <2>. QED
      BY <1>5, <2>1, GateStep DEF Redispatch, Inv, TypeOK
<1>6. ASSUME NEW t \in Call, CallStep(t)
      PROVE  Inv'
    BY <1>5, <1>6, RunFailsStep, RunSucceedsStep, UndoIsLostStep, FoldStep
       DEF CallStep
<1>7. ASSUME NEW s \in Session, Gathered(s)
      PROVE  Inv'
    BY <1>7, GatheredStep
<1>8. CASE \/ \E m \in Mode : SetMode(m)
           \/ \E s \in Session : EnterPlan(s) \/ ExitPlan(s) \/ Disconnect(s)
           \/ Revert
           \/ Restart
    BY <1>8, OperatorStep
<1>9. CASE UNCHANGED vars
  <2>1. \A y \in Tool : Unheard(y)' = Unheard(y)
      BY <1>9 DEF vars, Unheard
  <2>. QED
      BY <1>9, <2>1 DEF vars, history, Inv, TypeOK, Named, Consented, Credited
<1>. QED
    BY <1>1, <1>2, <1>3, <1>4, <1>6, <1>7, <1>8, <1>9 DEF Next

\* The invariant of the gate, whatever is called, answered and set.
THEOREM Invariance == Spec => []Inv
BY InitInv, NextInv, PTL DEF Spec

\* The gate's state keeps its types.
THEOREM TypeCorrect == Spec => []TypeOK
<1>1. Inv => TypeOK
    BY DEF Inv
<1>. QED
    BY <1>1, Invariance, PTL

\* No tool is credited with clean runs it has not had since its last setback,
\* unless that setback has overtaken the ledger.
THEOREM TrustHasBeenEarned == Spec => []TrustIsEarned
<1>1. Inv => TrustIsEarned
  <2> SUFFICES ASSUME Inv, NEW x \in Tool, x \notin overtaken
               PROVE  streak[x] <= earned[x]
      BY DEF TrustIsEarned
  <2>1. streak[x] \in Nat /\ earned[x] \in Nat
      BY DEF Inv, TypeOK
  <2>2. CASE x \in Undoable
    <3>1. streak[x] + Cardinality(Unheard(x)) <= earned[x]
        BY <2>2 DEF Inv, Credited
    <3>. QED
        BY <2>1, <3>1, UnheardCounts
  <2>3. CASE x \notin Undoable
      BY <2>1, <2>3 DEF Inv, Credited
  <2>. QED
      BY <2>2, <2>3
<1>. QED
    BY <1>1, Invariance, PTL

\* A call that starts to run has just passed the gate.
LEMMA StartsAtTheGate ==
    ASSUME Inv, [Next]_vars, NEW t \in Call, Starts(t)
    PROVE  /\ call'[t].tool \in Tool
           /\ ~Blocks(call'[t].session, call'[t].tool)
           /\ Permitted(call'[t].session, call'[t].tool)
<1>1. ASSUME NEW u \in Call, NEW s \in Session, NEW x \in Tool, NEW a \in Arg,
             NEW folds \in BOOLEAN, Gate(u, s, x, a, folds)
      PROVE  /\ call'[t].tool \in Tool
             /\ ~Blocks(call'[t].session, call'[t].tool)
             /\ Permitted(call'[t].session, call'[t].tool)
  <2>1. CASE Started(u, s, x, a, folds)
    <3>1. call'[t] = IF t = u THEN [pc |-> "running", session |-> s, tool |-> x,
                                    arg |-> a, outcome |-> "none", folds |-> folds]
                     ELSE call[t]
        BY <2>1 DEF Started, Inv, TypeOK
    <3>2. call'[t].session = s /\ call'[t].tool = x
        BY <3>1 DEF Starts
    <3>. QED
        BY <2>1, <3>2 DEF Started
  <2>2. ASSUME NEW outcome, Ended(u, s, x, a, folds, outcome)
        PROVE  FALSE
      BY <2>2 DEF Ended, Idle, Starts, Inv, TypeOK
  <2>3. CASE Refused(u, s, x, a, folds) \/ Asked(u, s, x, a, folds)
      BY <2>2, <2>3 DEF Refused, Asked
  <2>. QED
      BY <1>1, <2>1, <2>3 DEF Gate
<1>2. ASSUME NEW u \in Call, Redispatch(u)
      PROVE  /\ call'[t].tool \in Tool
             /\ ~Blocks(call'[t].session, call'[t].tool)
             /\ Permitted(call'[t].session, call'[t].tool)
  <2>1. /\ call[u].session \in Session
        /\ call[u].tool \in Tool
        /\ call[u].arg \in Arg
      BY <1>2 DEF Redispatch, Inv, Named
  <2>. QED
      BY <1>1, <1>2, <2>1 DEF Redispatch
<1>3. ASSUME NEW u \in Call, NEW i \in DOMAIN pending, Approve(u, i)
      PROVE  FALSE
    BY <1>3 DEF Approve, Starts, Inv, TypeOK
<1>4. ASSUME NEW i \in DOMAIN pending, Deny(i)
      PROVE  FALSE
    BY <1>4 DEF Deny, Starts
<1>5. ASSUME NEW u \in Call, RunFails(u) \/ RunSucceeds(u) \/ UndoIsLost(u) \/ Fold(u)
      PROVE  FALSE
  <2>1. ASSUME NEW c, c.pc # "running", call' = [call EXCEPT ![u] = c]
        PROVE  FALSE
      BY <2>1 DEF Starts, Inv, TypeOK
  <2>2. ASSUME NEW outcome,
               Ended(u, call[u].session, call[u].tool, call[u].arg, call[u].folds, outcome)
        PROVE  FALSE
    <3>1. CASE call[u].folds
        BY <2>1, <2>2, <3>1 DEF Ended
    <3>2. CASE ~call[u].folds
        BY <2>1, <2>2, <3>2 DEF Ended, Idle
    <3>. QED
        BY <3>1, <3>2
  <2>3. CASE RunFails(u)
      BY <2>2, <2>3 DEF RunFails
  <2>4. CASE RunSucceeds(u)
      BY <2>2, <2>4 DEF RunSucceeds
  <2>5. CASE UndoIsLost(u)
      BY <2>2, <2>5 DEF UndoIsLost
  <2>6. CASE Fold(u)
      BY <2>1, <2>6 DEF Fold, Idle
  <2>. QED
      BY <1>5, <2>3, <2>4, <2>5, <2>6
<1>6. ASSUME NEW s \in Session, Gathered(s)
      PROVE  FALSE
    BY <1>6 DEF Gathered, Starts, Inv, TypeOK, CallRecord
<1>7. CASE \/ \E m \in Mode : SetMode(m)
           \/ \E s \in Session : EnterPlan(s) \/ ExitPlan(s) \/ Disconnect(s)
           \/ Revert
           \/ Restart
           \/ UNCHANGED vars
    BY <1>7 DEF SetMode, EnterPlan, ExitPlan, Disconnect, Revert, Restart, Idle,
                Starts, vars
<1>. QED
    BY <1>1, <1>2, <1>3, <1>4, <1>5, <1>6, <1>7 DEF Next, Dispatch, ChatAnswers, CallStep

\* Whatever starts to run is allowed by the mode, by a user of that session, or
\* by the trust the ledger keeps.
THEOREM RunsHaveALicence == Spec => RunsAreLicensed
<1>1. ASSUME Inv, [Next]_vars, NEW t \in Call, Starts(t)
      PROVE  Licensed(call'[t].session, call'[t].tool)
  <2> DEFINE s == call'[t].session
             x == call'[t].tool
  <2>1. x \in Tool /\ Permitted(s, x)
      BY <1>1, StartsAtTheGate
  <2>2. mode \in Mode
      BY <1>1 DEF Inv, TypeOK
  <2>3. <<x, s>> \in grants => <<x, s>> \in yes
      BY <1>1 DEF Inv, Consented
  <2>. QED
      BY <2>1, <2>2, <2>3 DEF Permitted, NeedsYes, Licensed, Mode
<1>2. Inv /\ [Next]_vars =>
         [\A t \in Call : Starts(t) => Licensed(call'[t].session, call'[t].tool)]_vars
    BY <1>1
<1>. QED
    BY <1>2, Invariance, PTL DEF Spec, RunsAreLicensed

\* In plan mode only what plan mode lets through starts, approved or not.
THEOREM PlanModeIsKept == Spec => PlanModeHolds
<1>1. ASSUME Inv, [Next]_vars, NEW t \in Call, Starts(t)
      PROVE  \/ call'[t].tool \in PlanSafe
             \/ {call'[t].session, Root[call'[t].session]} \cap plan = {}
    BY <1>1, StartsAtTheGate DEF Blocks, Planned
<1>2. Inv /\ [Next]_vars =>
         [\A t \in Call : Starts(t) =>
             \/ call'[t].tool \in PlanSafe
             \/ {call'[t].session, Root[call'[t].session]} \cap plan = {}]_vars
    BY <1>1
<1>. QED
    BY <1>2, Invariance, PTL DEF Spec, PlanModeHolds
=============================================================================
