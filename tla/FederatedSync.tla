--------------------------- MODULE FederatedSync ---------------------------
(* Federated memory: brains that log their writes, exchange logs with the  *)
(* peers they dial, and apply what they receive to their own rows          *)
(* (memory/sync.py, the /sync handler of api/server.py, and the writers of *)
(* memory/store.py and memory/notes_legacy.py).                            *)
(*                                                                         *)
(* A brain is one event loop: an action is what runs between two awaits.   *)
(* Local writes are coroutines (task), an exchange is a session between    *)
(* two coroutines (sess), and the operations it delivers are applied one   *)
(* by one (job), so all of these interleave on the same rows.              *)
EXTENDS HLC, FiniteSets

CONSTANTS
    Node,           \* the brains, as ranks of their node identifiers
    Note,           \* row identifiers of notes, which are logged in the loop
    Episode,        \* row identifiers of episodes, logged on a thread
    Scope,          \* the scope names that can be granted
    Private,        \* the reserved scope
    Dial,           \* the pairs <<c, s>> of brains where c dials s
    InitialGrants,  \* InitialGrants[n][p]: the scopes n shares with p at first
    MaxClauses,     \* _MAX_VC_CLAUSES: the origins one query can tell apart
    Faults          \* the faults that may happen: "append" (the log refuses
                    \* a write), "diskfull" (it is full), "materialize" (the
                    \* write to a row fails), "drop" (a session times out or
                    \* breaks), "crash" (the process restarts)

CONSTANTS
    Writer,             \* bound: the brains whose users save and delete
    Edited,             \* bound: <<n, p>> where n's roster entry of p changes
    MaxTime,            \* bound on physical time
    MaxDeletes,         \* bound on local deletes
    MaxFaults,          \* bound on faults
    MaxRosterChanges,   \* bound on grants and revocations
    MaxBundles          \* bound on imported bundles

ASSUME NodeAssumption == Node \subseteq Nat \ {0}
ASSUME ScopeAssumption == Private \notin Scope
ASSUME DialAssumption == Dial \subseteq Node \X Node
ASSUME GrantsAssumption == InitialGrants \in [Node -> [Node -> SUBSET Scope]]
ASSUME BoundsAssumption ==
    /\ MaxTime \in Nat /\ MaxDeletes \in Nat /\ MaxFaults \in Nat
    /\ MaxRosterChanges \in Nat /\ MaxBundles \in Nat
    /\ MaxClauses \in Nat

Row == Note \cup Episode
AnyScope == Scope \cup {Private}

Stamp == [wall : Nat, counter : Nat, node : Node]
Blank == [wall |-> 0, counter |-> 0, node |-> 0]    \* an empty hlc_string
VectorClock == [Node -> Clock]
EmptyVC == [o \in Node |-> ClockAtBoot]     \* "0:0:" for every origin

\* SyncOperation.  Two operations that differ in their op_id alone have the
\* same effects, so the identifier is left out.
Op == [kind : {"insert", "delete"}, row : Row, origin : Node,
       hlc : Stamp, scope : AnyScope]

\* The coroutine that saves or deletes a row, where it waits:
\*   "minted"   the operation is built, its append runs on a thread;
\*   "logged"   the append returned (no op: logging failed or was refused);
\*   "deleted"  the row is deleted, the operation not yet built.
Task == [pc : {"idle", "minted", "logged", "deleted"}, op : SUBSET Op]
NoTask == [pc |-> "idle", op |-> {}]

\* A call of apply_remote_changes: what is left of the batch, and the
\* operation _apply_to_memory works on, if any: "recorded" before its row is
\* looked up, "absent" when there was no row and the tombstone is next,
\* "winning" once it passed the gates, "reviving" when it did so over a
\* tombstone.
Current == [op : Op, pc : {"recorded", "absent", "winning", "reviving"}]
Job == [todo : SUBSET Op, cur : SUBSET Current]
NoJob == [todo |-> {}, cur |-> {}]
JobKey == {"server", "client", "bundle"} \X Node

\* An exchange as its two ends see it, by the frame last sent or read;
\* "retrying" when the last attempt broke and the same call has another one.
Session == [pc : {"idle", "retrying", "requested", "responded", "uploading",
                  "applying", "downloading", "finishing"},
            cvc : VectorClock, svc : VectorClock, ops : SUBSET Op]
NoSession == [pc |-> "idle", cvc |-> EmptyVC, svc |-> EmptyVC, ops |-> {}]
Broken == [NoSession EXCEPT !.pc = "retrying"]

Budget == [faults : Nat, deletes : Nat, grants : Nat, bundles : Nat]

VARIABLES
    pt,         \* pt[n]: the physical clock of n
    clock,      \* clock[n]: its HLC
    wal,        \* wal[n]: the operations in sync_wal.db
    vc,         \* vc[n]: the vector clock, in memory only
    row,        \* row[n][r]: {hlc_string} of the row, {} when absent
    tomb,       \* tomb[n][r]: {hlc_string} of the tombstone, {} when none
    paused,     \* paused[n]: _io_paused
    grant,      \* grant[n][p]: the scopes in n's roster for p
    task,       \* task[n][r]: the local coroutine on r
    sess,       \* sess[<<c, s>>]: the exchange c began with s
    job,        \* job[n][k]: the batch being applied for the caller k
    minted,     \* row identifiers used so far (uuid4)
    spent,      \* what is used up of the bounds
    shared,     \* history: shared[n][p], the scopes ever in grant[n][p]
    carried,    \* history: <<m, n>> when n imported a bundle of m
    disturbed,  \* history: <<n, r>> when the write of r on n failed halfway,
                \* two writers of r overlapped on n, or n stamped a delete of
                \* r below what it deletes
    passed      \* history: passed[n], the operations that n was passed over
                \* with: not given, not taken or not yet in their writer's log
                \* when n was given a later one of the same writer

local == <<task, minted>>
exchange == <<sess, job>>
roster == <<grant, shared>>
history == <<carried, disturbed, passed>>
vars == <<pt, clock, wal, vc, row, tomb, paused, local, exchange, roster,
          history, spent>>

TypeOK ==
    /\ pt \in [Node -> Nat]
    /\ clock \in [Node -> Clock]
    /\ wal \in [Node -> SUBSET Op]
    /\ vc \in [Node -> VectorClock]
    /\ row \in [Node -> [Row -> SUBSET (Stamp \cup {Blank})]]
    /\ tomb \in [Node -> [Row -> SUBSET Stamp]]
    /\ paused \in [Node -> BOOLEAN]
    /\ grant \in [Node -> [Node -> SUBSET Scope]]
    /\ task \in [Node -> [Row -> Task]]
    /\ sess \in [Dial -> Session]
    /\ job \in [Node -> [JobKey -> Job]]
    /\ minted \subseteq Row
    /\ spent \in Budget
    /\ shared \in [Node -> [Node -> SUBSET Scope]]
    /\ carried \subseteq Node \X Node
    /\ disturbed \subseteq Node \X Row
    /\ passed \in [Node -> SUBSET Op]

Init ==
    /\ pt = [n \in Node |-> 1]
    /\ clock = [n \in Node |-> ClockAtBoot]
    /\ wal = [n \in Node |-> {}]
    /\ vc = [n \in Node |-> EmptyVC]
    /\ row = [n \in Node |-> [r \in Row |-> {}]]
    /\ tomb = [n \in Node |-> [r \in Row |-> {}]]
    /\ paused = [n \in Node |-> FALSE]
    /\ grant = InitialGrants
    /\ task = [n \in Node |-> [r \in Row |-> NoTask]]
    /\ sess = [d \in Dial |-> NoSession]
    /\ job = [n \in Node |-> [k \in JobKey |-> NoJob]]
    /\ minted = {}
    /\ spent = [faults |-> 0, deletes |-> 0, grants |-> 0, bundles |-> 0]
    /\ shared = InitialGrants
    /\ carried = {}
    /\ disturbed = {}
    /\ passed = [n \in Node |-> {}]

------------------------------------------------------------------------------
(* Helpers. *)

Later(a, b) == IF MarkLess(a, b) THEN b ELSE a

\* SyncWAL.append, and the VectorClock.update that follows it everywhere.
Append(n, op) ==
    /\ wal' = [wal EXCEPT ![n] = @ \cup {op}]
    /\ vc' = [vc EXCEPT ![n][op.origin] = Later(@, Mark(op.hlc))]

\* A fault uses one of the budget.
Fault(kind) ==
    /\ kind \in Faults
    /\ spent.faults < MaxFaults
    /\ spent' = [spent EXCEPT !.faults = @ + 1]

\* _on_wal_append_failure: only a full disk pauses the engine.
LocalAppendFails(n) ==
    /\ \/ Fault("append") /\ paused' = paused
       \/ Fault("diskfull") /\ paused' = [paused EXCEPT ![n] = TRUE]
    /\ UNCHANGED <<wal, vc>>

\* Mutant: the scope is stored as the caller passed it for a delete.
MintUnresolved(n, kind, r, scope) ==
    [kind |-> kind, row |-> r, origin |-> n,
     hlc |-> StampOf(Now(clock[n], pt[n]), n),
     scope |-> IF kind = "delete" THEN "__inherit__" ELSE scope]

Mint(n, kind, r, scope) ==
    [kind |-> kind, row |-> r, origin |-> n,
     hlc |-> StampOf(Now(clock[n], pt[n]), n), scope |-> scope]

OpsOf(n, r) == {op \in wal[n] : op.row = r}

\* The operations of S no other one of S is above: what ORDER BY hlc_wall,
\* hlc_counter can put last (a tie goes either way).
Newest(S) == {op \in S : \A o \in S : ~MarkLess(op.hlc, o.hlc)}

\* Mutant: a change set in no order.
Unordered(S) == S

Oldest(S) == {op \in S : \A o \in S : ~MarkLess(o.hlc, op.hlc)}

\* Mutant: the scope of a delete follows from its table.
ScopesForTable(n, r) == Scope

\* SyncWAL.scope_for_row.
ScopesForRow(n, r) ==
    IF OpsOf(n, r) = {}
    THEN {Private}
    ELSE {op.scope : op \in Newest(OpsOf(n, r))}

\* Mutant: the node to exclude is the sender.
SelectForeign(n, peer, remoteVC) ==
    {op \in wal[n] : /\ op.origin # n
                     /\ op.scope \in grant[n][peer]
                     /\ MarkLess(remoteVC[op.origin], op.hlc)}

\* What the peer is missing, judged per origin, with the grants of the moment.
MissingAt(n, peer, remoteVC) ==
    {op \in wal[n] : /\ op.origin # peer
                     /\ op.scope \in grant[n][peer]
                     /\ MarkLess(remoteVC[op.origin], op.hlc)}

KnownOrigins(remoteVC) == {o \in Node : remoteVC[o] # ClockAtBoot}

\* With too many watermarks for one query, what is not above the oldest of them
\* is left out first.
Prefiltered(n, remoteVC) ==
    {op \in wal[n] :
        /\ Cardinality(KnownOrigins(remoteVC)) > MaxClauses
        /\ \A o \in KnownOrigins(remoteVC) : ~MarkLess(remoteVC[o], op.hlc)}

\* SyncWAL.get_changes_for_peer.
SelectFor(n, peer, remoteVC) ==
    MissingAt(n, peer, remoteVC) \ Prefiltered(n, remoteVC)

\* Mutant: the sender's filter is trusted.
AdmitAll(n, peer, ops) == ops

\* The receive-side scope gate of apply_remote_changes_from_peer.
Admit(n, peer, ops) == {op \in ops : op.scope \in grant[n][peer]}

\* Those of a set that n is not to have of, or give to, the peer.
Ungranted(n, peer, ops) == {op \in ops : op.scope \notin grant[n][peer]}

\* What the peer is not sent although its watermarks may be below it: what it
\* is not granted, what one query cannot tell apart, and what n itself was
\* passed over with.
Withheld(n, peer, remoteVC) ==
    Ungranted(n, peer, wal[n])
        \cup Prefiltered(n, remoteVC)
        \cup (passed[n] \ wal[n])

\* The LWW gate of _apply_to_memory.
Wins(n, op) == \A e \in row[n][op.row] : TsLess(e, op.hlc)

\* Mutant: no tombstone gate.
OutlivesAll(n, op) == TRUE

\* Its tombstone gate.
Outlives(n, op) == \A t \in tomb[n][op.row] : TsLess(t, op.hlc)

\* Somebody on n has an operation of the row in hand.
RowBusy(n, r) ==
    \/ task[n][r].pc # "idle"
    \/ \E k \in JobKey : \E c \in job[n][k].cur : c.op.row = r

\* Somebody on n has decided to write the row, or deleted it, and is yet to
\* settle it.
RowHeld(n, r) ==
    \/ task[n][r].pc # "idle"
    \/ \E k \in JobKey : \E c \in job[n][k].cur :
          c.op.row = r /\ c.pc \in {"winning", "reviving"}

\* What n would stamp now is above all its operations of r: a clock that was
\* set back (a restart, a counter that overflowed) can stamp a delete below
\* the very insert it deletes.
Outstamps(n, r) ==
    \A op \in OpsOf(n, r) :
        TsLess(op.hlc, StampOf(Now(clock[n], pt[n]), n))

DisturbedBy(n, r, cond) ==
    disturbed' = disturbed \cup (IF cond THEN {<<n, r>>} ELSE {})

\* Those of S that some operation of T, by the same brain, is not below: whoever
\* takes T has a watermark that no longer asks for them.
Below(S, T) ==
    {p \in S : \E q \in T : q.origin = p.origin /\ ~MarkLess(q.hlc, p.hlc)}

\* n is passed over with those of S that T passes and it does not hold.
PassOver(n, S, T) ==
    passed' = [passed EXCEPT ![n] = @ \cup (Below(S, T) \ wal[n])]

\* An operation that reaches its writer's log after one it is not above passes
\* everybody over, with itself and those of the same mark.
PassLate(op) ==
    LET own == {o \in wal[op.origin] : o.origin = op.origin} IN
    passed' = IF \A o \in own : MarkLess(o.hlc, op.hlc) THEN passed
              ELSE [n \in Node |->
                      passed[n] \cup {op} \cup {o \in own : Mark(o.hlc) = Mark(op.hlc)}]

------------------------------------------------------------------------------
(* Local writes. *)

\* A physical clock advances.
PhysicalTick(n) ==
    /\ pt[n] < MaxTime
    /\ pt' = [pt EXCEPT ![n] = @ + 1]
    /\ UNCHANGED <<clock, wal, vc, row, tomb, paused, local, exchange, roster,
                   history, spent>>

\* save_note: the operation is logged without leaving the loop.
SaveNote(n, r, scope) ==
    LET op == Mint(n, "insert", r, scope) IN
    /\ n \in Writer /\ r \in Note \ minted
    /\ minted' = minted \cup {r}
    /\ \/ /\ ~paused[n]
          /\ clock' = [clock EXCEPT ![n] = Now(@, pt[n])]
          /\ Append(n, op)
          /\ PassLate(op)
          /\ task' = [task EXCEPT ![n][r] = [pc |-> "logged", op |-> {op}]]
          /\ UNCHANGED <<paused, spent>>
       \/ /\ ~paused[n]
          /\ clock' = [clock EXCEPT ![n] = Now(@, pt[n])]
          /\ LocalAppendFails(n)
          /\ task' = [task EXCEPT ![n][r] = [pc |-> "logged", op |-> {}]]
          /\ UNCHANGED passed
       \/ /\ paused[n]
          /\ task' = [task EXCEPT ![n][r] = [pc |-> "logged", op |-> {}]]
          /\ UNCHANGED <<clock, wal, vc, paused, spent, passed>>
    /\ UNCHANGED <<pt, row, tomb, exchange, roster, carried, disturbed>>

\* episode_save: the operation is built, its append goes to a thread.
SaveEpisode(n, r, scope) ==
    /\ n \in Writer /\ r \in Episode \ minted
    /\ minted' = minted \cup {r}
    /\ \/ /\ ~paused[n]
          /\ clock' = [clock EXCEPT ![n] = Now(@, pt[n])]
          /\ task' = [task EXCEPT ![n][r] =
                        [pc |-> "minted", op |-> {Mint(n, "insert", r, scope)}]]
       \/ /\ paused[n]
          /\ task' = [task EXCEPT ![n][r] = [pc |-> "logged", op |-> {}]]
          /\ UNCHANGED clock
    /\ UNCHANGED <<pt, wal, vc, row, tomb, paused, exchange, roster, history,
                   spent>>

\* The thread of append_async returns.
AppendLocal(n, r) ==
    /\ task[n][r].pc = "minted"
    /\ \E op \in task[n][r].op :
          /\ Append(n, op)
          /\ PassLate(op)
          /\ task' = [task EXCEPT ![n][r] = [pc |-> "logged", op |-> {op}]]
    /\ UNCHANGED <<pt, clock, row, tomb, paused, minted, exchange, roster,
                   carried, disturbed, spent>>

\* ... or raises, which _log_sync_async swallows: an insert goes on with an
\* empty hlc, a delete leaves no tombstone.
AppendLocalFails(n, r) ==
    /\ task[n][r].pc = "minted"
    /\ LocalAppendFails(n)
    /\ \E op \in task[n][r].op :
          /\ task' = [task EXCEPT ![n][r] =
                        IF op.kind = "insert"
                        THEN [pc |-> "logged", op |-> {}] ELSE NoTask]
          /\ DisturbedBy(n, r, op.kind = "delete")
    /\ UNCHANGED <<pt, clock, row, tomb, minted, exchange, roster, carried,
                   passed>>

\* The saved row is inserted, with the hlc the log returned.  A row that is
\* already there is an IntegrityError.
WriteRow(n, r) ==
    /\ task[n][r].pc = "logged"
    /\ \A op \in task[n][r].op : op.kind = "insert"
    /\ row' = [row EXCEPT ![n][r] =
                 IF @ # {} THEN @
                 ELSE IF task[n][r].op = {} THEN {Blank}
                 ELSE {op.hlc : op \in task[n][r].op}]
    /\ task' = [task EXCEPT ![n][r] = NoTask]
    /\ UNCHANGED <<pt, clock, wal, vc, tomb, paused, minted, exchange, roster,
                   history, spent>>

\* delete_note, or the forget sweep over an episode: the row goes first.
DeleteRow(n, r) ==
    /\ n \in Writer /\ row[n][r] # {}
    /\ task[n][r].pc = "idle"
    /\ spent.deletes < MaxDeletes
    /\ spent' = [spent EXCEPT !.deletes = @ + 1]
    /\ row' = [row EXCEPT ![n][r] = {}]
    /\ task' = [task EXCEPT ![n][r] = [pc |-> "deleted", op |-> {}]]
    /\ DisturbedBy(n, r, RowHeld(n, r))
    /\ UNCHANGED <<pt, clock, wal, vc, tomb, paused, minted, exchange, roster,
                   carried, passed>>

\* Then the delete is built, in the scope of the row's newest operation.
LogDelete(n, r) ==
    /\ task[n][r].pc = "deleted"
    /\ \/ /\ ~paused[n]
          /\ clock' = [clock EXCEPT ![n] = Now(@, pt[n])]
          /\ \E scope \in ScopesForRow(n, r) :
                task' = [task EXCEPT ![n][r] =
                           [pc |-> "minted",
                            op |-> {Mint(n, "delete", r, scope)}]]
          /\ DisturbedBy(n, r, ~Outstamps(n, r))
       \/ /\ paused[n]
          /\ task' = [task EXCEPT ![n][r] = NoTask]
          /\ DisturbedBy(n, r, TRUE)
          /\ UNCHANGED clock
    /\ UNCHANGED <<pt, wal, vc, row, tomb, paused, minted, exchange, roster,
                   carried, passed, spent>>

\* _record_tombstone: an upsert, whatever the tombstone was.
RecordTombstone(n, r) ==
    /\ task[n][r].pc = "logged"
    /\ \E op \in task[n][r].op :
          /\ op.kind = "delete"
          /\ tomb' = [tomb EXCEPT ![n][r] = {op.hlc}]
    /\ task' = [task EXCEPT ![n][r] = NoTask]
    /\ UNCHANGED <<pt, clock, wal, vc, row, paused, minted, exchange, roster,
                   history, spent>>

------------------------------------------------------------------------------
(* Applying a batch. *)

\* The drift gate drops the operation, not just its stamp.
RejectDrift(n, k) ==
    /\ job[n][k].cur = {}
    /\ \E op \in Oldest(job[n][k].todo) :
          /\ ~WithinDrift(op.hlc, pt[n])
          /\ PassOver(n, {op}, job[n][k].todo \ {op})
          /\ job' = [job EXCEPT ![n][k].todo = @ \ {op}]
    /\ UNCHANGED <<pt, clock, wal, vc, row, tomb, paused, local, sess, roster,
                   carried, disturbed, spent>>

\* One operation enters the clock and the log, without an await.
TakeRemote(n, k) ==
    /\ job[n][k].cur = {}
    /\ \E op \in Oldest(job[n][k].todo) :
          /\ WithinDrift(op.hlc, pt[n])
          /\ clock' = [clock EXCEPT ![n] = Receive(@, op.hlc, pt[n])]
          /\ Append(n, op)
          /\ job' = [job EXCEPT ![n][k] =
                       [todo |-> @.todo \ {op},
                        cur |-> {[op |-> op, pc |-> "recorded"]}]]
    /\ UNCHANGED <<pt, row, tomb, paused, local, sess, roster, history, spent>>

\* The append raises, a full disk included: the operation is skipped, the
\* clock has already absorbed it, and the engine is not paused.
AppendRemoteFails(n, k) ==
    /\ job[n][k].cur = {}
    /\ Fault("append") \/ Fault("diskfull")
    /\ \E op \in Oldest(job[n][k].todo) :
          /\ WithinDrift(op.hlc, pt[n])
          /\ clock' = [clock EXCEPT ![n] = Receive(@, op.hlc, pt[n])]
          /\ PassOver(n, {op}, job[n][k].todo \ {op})
          /\ job' = [job EXCEPT ![n][k].todo = @ \ {op}]
    /\ UNCHANGED <<pt, wal, vc, row, tomb, paused, local, sess, roster,
                   carried, disturbed>>

\* The row is read.  Against a row that is there the operation wins or is done.
LookUp(n, k) ==
    /\ \E c \in job[n][k].cur :
          LET r == c.op.row
              wins == row[n][r] # {} /\ Wins(n, c.op) IN
          /\ c.pc = "recorded"
          /\ job' = [job EXCEPT ![n][k].cur =
                       IF row[n][r] = {} THEN {[op |-> c.op, pc |-> "absent"]}
                       ELSE IF wins THEN {[op |-> c.op, pc |-> "winning"]}
                       ELSE {}]
          /\ DisturbedBy(n, r, wins /\ RowHeld(n, r))
    /\ UNCHANGED <<pt, clock, wal, vc, row, tomb, paused, local, sess, roster,
                   carried, passed, spent>>

\* There was no row: the tombstone is read.  The row is not looked at again.
ReadTombstone(n, k) ==
    /\ \E c \in job[n][k].cur :
          LET r == c.op.row
              wins == Outlives(n, c.op) IN
          /\ c.pc = "absent"
          /\ job' = [job EXCEPT ![n][k].cur =
                       IF ~wins THEN {}
                       ELSE {[op |-> c.op,
                              pc |-> IF tomb[n][r] = {} THEN "winning"
                                     ELSE "reviving"]}]
          /\ DisturbedBy(n, r, wins /\ (RowHeld(n, r) \/ row[n][r] # {}))
    /\ UNCHANGED <<pt, clock, wal, vc, row, tomb, paused, local, sess, roster,
                   carried, passed, spent>>

\* The row is written as the lookup decided.
Materialize(n, k) ==
    /\ \E c \in job[n][k].cur :
          /\ c.pc \in {"winning", "reviving"}
          /\ IF c.op.kind = "delete"
             THEN /\ row' = [row EXCEPT ![n][c.op.row] = {}]
                  /\ tomb' = [tomb EXCEPT ![n][c.op.row] = {c.op.hlc}]
             ELSE /\ row' = [row EXCEPT ![n][c.op.row] = {c.op.hlc}]
                  /\ tomb' = [tomb EXCEPT ![n][c.op.row] =
                                IF c.pc = "reviving" THEN {} ELSE @]
    /\ job' = [job EXCEPT ![n][k].cur = {}]
    /\ UNCHANGED <<pt, clock, wal, vc, paused, local, sess, roster, history,
                   spent>>

\* The write raises: the operation stays in the log, its row is not written.
MaterializeFails(n, k) ==
    /\ Fault("materialize")
    /\ \E c \in job[n][k].cur : DisturbedBy(n, c.op.row, TRUE)
    /\ job' = [job EXCEPT ![n][k].cur = {}]
    /\ UNCHANGED <<pt, clock, wal, vc, row, tomb, paused, local, sess, roster,
                   carried, passed>>

JobDone(n, k) == job[n][k] = NoJob

------------------------------------------------------------------------------
(* An exchange: <<c, s>> \in Dial. *)

SessionOnly ==
    UNCHANGED <<pt, clock, wal, vc, row, tomb, paused, local, roster, carried,
                disturbed, spent>>

\* sync_with_peer sends its vector clock.  It looks at the pause before its
\* first attempt, not before the next ones.
Request(c, s) ==
    /\ \/ sess[<<c, s>>].pc = "idle" /\ ~paused[c]
       \/ sess[<<c, s>>].pc = "retrying"
    /\ sess' = [sess EXCEPT ![<<c, s>>] =
                  [NoSession EXCEPT !.pc = "requested", !.cvc = vc[c]]]
    /\ UNCHANGED <<job, passed>> /\ SessionOnly

Respond(c, s) ==
    /\ sess[<<c, s>>].pc = "requested"
    /\ sess' = [sess EXCEPT ![<<c, s>>].pc = "responded",
                            ![<<c, s>>].svc = vc[s]]
    /\ UNCHANGED <<job, passed>> /\ SessionOnly

\* The client sends what the server's vector clock lacks.
Upload(c, s) ==
    /\ sess[<<c, s>>].pc = "responded"
    /\ sess' = [sess EXCEPT ![<<c, s>>].pc = "uploading",
                            ![<<c, s>>].svc = EmptyVC,
                            ![<<c, s>>].ops =
                                SelectFor(c, s, sess[<<c, s>>].svc)]
    /\ PassOver(s, Withheld(c, s, sess[<<c, s>>].svc),
                SelectFor(c, s, sess[<<c, s>>].svc))
    /\ UNCHANGED job /\ SessionOnly

\* The handler has the whole change set and begins to apply it.  One handler
\* per client is modelled: a second one waits for the one left behind by a
\* session that broke.
ServerApply(c, s) ==
    /\ sess[<<c, s>>].pc = "uploading"
    /\ JobDone(s, <<"server", c>>)
    /\ sess' = [sess EXCEPT ![<<c, s>>].pc = "applying",
                            ![<<c, s>>].ops = {}]
    /\ job' = [job EXCEPT ![s][<<"server", c>>].todo =
                 Admit(s, c, sess[<<c, s>>].ops)]
    /\ PassOver(s, Ungranted(s, c, sess[<<c, s>>].ops),
                Admit(s, c, sess[<<c, s>>].ops))
    /\ SessionOnly

\* It answers from the vector clock it read at the start.
Reply(c, s) ==
    /\ sess[<<c, s>>].pc = "applying"
    /\ JobDone(s, <<"server", c>>)
    /\ sess' = [sess EXCEPT ![<<c, s>>].pc = "downloading",
                            ![<<c, s>>].cvc = EmptyVC,
                            ![<<c, s>>].ops =
                                SelectFor(s, c, sess[<<c, s>>].cvc)]
    /\ PassOver(c, Withheld(s, c, sess[<<c, s>>].cvc),
                SelectFor(s, c, sess[<<c, s>>].cvc))
    /\ UNCHANGED job /\ SessionOnly

ClientApply(c, s) ==
    /\ sess[<<c, s>>].pc = "downloading"
    /\ sess' = [sess EXCEPT ![<<c, s>>].pc = "finishing",
                            ![<<c, s>>].ops = {}]
    /\ job' = [job EXCEPT ![c][<<"client", s>>].todo =
                 Admit(c, s, sess[<<c, s>>].ops)]
    /\ PassOver(c, Ungranted(c, s, sess[<<c, s>>].ops),
                Admit(c, s, sess[<<c, s>>].ops))
    /\ SessionOnly

Finish(c, s) ==
    /\ sess[<<c, s>>].pc = "finishing"
    /\ JobDone(c, <<"client", s>>)
    /\ sess' = [sess EXCEPT ![<<c, s>>] = NoSession]
    /\ UNCHANGED <<job, passed>> /\ SessionOnly

\* A frame times out or the socket closes.  The client may have an attempt
\* left; a handler that is applying goes on with its batch.
Drop(c, s) ==
    /\ Fault("drop")
    /\ sess[<<c, s>>].pc \notin {"idle", "finishing"}
    /\ \E next \in {NoSession, Broken} :
          sess' = [sess EXCEPT ![<<c, s>>] = next]
    /\ UNCHANGED <<pt, clock, wal, vc, row, tomb, paused, local, job, roster,
                   history>>

\* import_from_bundle of what export_to_bundle wrote on m: no scope gate.
ImportBundle(m, n) ==
    /\ m # n
    /\ spent.bundles < MaxBundles
    /\ JobDone(n, <<"bundle", m>>)
    /\ spent' = [spent EXCEPT !.bundles = @ + 1]
    /\ job' = [job EXCEPT ![n][<<"bundle", m>>].todo = wal[m]]
    /\ carried' = carried \cup {<<m, n>>}
    /\ PassOver(n, passed[m] \ wal[m], wal[m])
    /\ UNCHANGED <<pt, clock, wal, vc, row, tomb, paused, local, sess, roster,
                   disturbed>>

------------------------------------------------------------------------------
(* The operator, and the process. *)

RosterChange(n, p) == <<n, p>> \in Edited /\ spent.grants < MaxRosterChanges

GrantScope(n, p, scope) ==
    /\ RosterChange(n, p)
    /\ n # p /\ scope \notin grant[n][p]
    /\ spent' = [spent EXCEPT !.grants = @ + 1]
    /\ grant' = [grant EXCEPT ![n][p] = @ \cup {scope}]
    /\ shared' = [shared EXCEPT ![n][p] = @ \cup {scope}]
    /\ UNCHANGED <<pt, clock, wal, vc, row, tomb, paused, local, exchange,
                   history>>

RevokeScope(n, p, scope) ==
    /\ RosterChange(n, p)
    /\ scope \in grant[n][p]
    /\ spent' = [spent EXCEPT !.grants = @ + 1]
    /\ grant' = [grant EXCEPT ![n][p] = @ \ {scope}]
    /\ UNCHANGED <<pt, clock, wal, vc, row, tomb, paused, local, exchange,
                   shared, history>>

Resume(n) ==
    /\ paused[n]
    /\ paused' = [paused EXCEPT ![n] = FALSE]
    /\ UNCHANGED <<pt, clock, wal, vc, row, tomb, local, exchange, roster,
                   history, spent>>

\* What the client of d has with n needs n to stay up.
SessionBreaks(d, n) ==
    d[2] = n /\ sess[d].pc \notin {"idle", "finishing"}

\* The process restarts: the log, the rows, the tombstones and the roster
\* are on disk; the clock, the vector clock and every coroutine are not.
Crash(n) ==
    /\ Fault("crash")
    /\ clock' = [clock EXCEPT ![n] = ClockAtBoot]
    /\ vc' = [vc EXCEPT ![n] = EmptyVC]
    /\ paused' = [paused EXCEPT ![n] = FALSE]
    /\ task' = [task EXCEPT ![n] = [r \in Row |-> NoTask]]
    /\ job' = [job EXCEPT ![n] = [k \in JobKey |-> NoJob]]
    /\ \E again \in SUBSET Dial :
          sess' = [d \in Dial |->
                     IF d[1] # n /\ ~SessionBreaks(d, n) THEN sess[d]
                     ELSE IF d[1] # n /\ d \in again THEN Broken
                     ELSE NoSession]
    /\ disturbed' = disturbed \cup {<<n, r>> : r \in {q \in Row : RowBusy(n, q)}}
    /\ UNCHANGED <<pt, wal, row, tomb, minted, roster, carried, passed>>

------------------------------------------------------------------------------

LocalStep(n) ==
    \/ PhysicalTick(n)
    \/ \E r \in Row, scope \in AnyScope :
          SaveNote(n, r, scope) \/ SaveEpisode(n, r, scope)
    \/ \E r \in Row :
          \/ AppendLocal(n, r) \/ AppendLocalFails(n, r) \/ WriteRow(n, r)
          \/ DeleteRow(n, r) \/ LogDelete(n, r) \/ RecordTombstone(n, r)

ApplyStep(n) ==
    \E k \in JobKey :
        \/ RejectDrift(n, k) \/ TakeRemote(n, k) \/ AppendRemoteFails(n, k)
        \/ LookUp(n, k) \/ ReadTombstone(n, k)
        \/ Materialize(n, k) \/ MaterializeFails(n, k)

SessionStep(c, s) ==
    \/ Request(c, s) \/ Respond(c, s) \/ Upload(c, s) \/ ServerApply(c, s)
    \/ Reply(c, s) \/ ClientApply(c, s) \/ Finish(c, s) \/ Drop(c, s)

OperatorStep(n) ==
    \/ \E p \in Node, scope \in Scope :
          GrantScope(n, p, scope) \/ RevokeScope(n, p, scope)
    \/ \E m \in Node : ImportBundle(m, n)
    \/ Resume(n)
    \/ Crash(n)

Next ==
    \/ \E n \in Node : LocalStep(n) \/ ApplyStep(n) \/ OperatorStep(n)
    \/ \E d \in Dial : SessionStep(d[1], d[2])

Spec == Init /\ [][Next]_vars

\* The loops of the program: coroutines are resumed, the scheduler dials
\* every peer at its cadence, frames arrive.  Nothing obliges anybody to
\* write, to delete, to grant or to fail.
Fairness ==
    /\ \A n \in Node :
          /\ WF_vars(\E r \in Row :
                        \/ AppendLocal(n, r) \/ WriteRow(n, r)
                        \/ LogDelete(n, r) \/ RecordTombstone(n, r))
          /\ WF_vars(\E k \in JobKey :
                        \/ RejectDrift(n, k) \/ TakeRemote(n, k)
                        \/ LookUp(n, k) \/ ReadTombstone(n, k)
                        \/ Materialize(n, k))
    /\ \A d \in Dial :
          WF_vars(\/ Request(d[1], d[2]) \/ Respond(d[1], d[2])
                  \/ Upload(d[1], d[2]) \/ ServerApply(d[1], d[2])
                  \/ Reply(d[1], d[2]) \/ ClientApply(d[1], d[2])
                  \/ Finish(d[1], d[2]))

FairSpec == Spec /\ Fairness

------------------------------------------------------------------------------
(* Properties. *)

Gossip == INSTANCE ScopedGossip WITH log <- wal, share <- shared

\* Every step of the exchange, of a local write, of a bundle or of the
\* operator is a step of ScopedGossip: a log only grows, by operations the
\* brain wrote or by operations a linked brain holds.
ImplementsGossip == Gossip!Spec

\* The scope boundary (security/sync_scopes.py): an operation reaches only
\* brains that a chain of mutual grants of its scope, or of bundles their
\* owner carried, joins to its writer, whatever is relayed by whom.
ScopesConfined == Gossip!Confined

\* A delete goes no further than the insert it undoes: it carries the scope
\* of the insert, or the reserved scope when the lineage is unknown.
DeletesInheritScope ==
    \A n, m \in Node : \A d \in wal[n], i \in wal[m] :
        d.kind = "delete" /\ i.kind = "insert" /\ d.row = i.row
            => d.scope \in {i.scope, Private}

\* No operation in a log is stamped further ahead of that brain's physical
\* time than MaxDrift: a stamp that would win every later conflict is never
\* recorded, whether it came from a peer, a relay or a bundle.
LogsWithinDrift ==
    \A n \in Node : \A op \in wal[n] : op.hlc.wall <= pt[n] + MaxDrift

\* What two brains let each other have of what o wrote.
Shareable(o, n, op) ==
    /\ op.origin = o /\ o # n
    /\ op.scope \in grant[o][n] /\ op.scope \in grant[n][o]

\* "The watermark's meaning is 'everything up to here is on my disk'"
\* (memory/sync.py:1663): what n advertises of o's writes covers no shared
\* write of o that n does not hold, since nobody would send it again.
WatermarkSound ==
    \A n, o \in Node : \A op \in wal[o] :
        Shareable(o, n, op) /\ ~MarkLess(vc[n][o], op.hlc) => op \in wal[n]

\* Nor does it cover, whoever shares what with whom, any write of o at all that
\* n does not hold, unless n was passed over with it by one of these: the write
\* reached o's log late; it was in a scope the sender, or n, had not granted; a
\* query with too many watermarks left it out; n dropped it from its batch; or
\* the sender had itself been passed over with it.
WatermarkAccounted ==
    \A n, o \in Node : \A op \in wal[o] :
        op.origin = o /\ o # n /\ ~MarkLess(vc[n][o], op.hlc)
            => op \in wal[n] \cup passed[n]

\* What the watermark takes for granted, and nothing enforces: a brain's own
\* writes reach its log in the order of their stamps,
OwnLogInOrder ==
    \A n \in Node : \A op \in wal'[n] \ wal[n] :
        op.origin = n =>
            \A o \in wal[n] : o.origin = n => MarkLess(o.hlc, op.hlc)

\* ... a batch gives up none of its operations,
NothingSkipped ==
    job' # job => \A n \in Node, k \in JobKey :
                     ~RejectDrift(n, k) /\ ~AppendRemoteFails(n, k)

\* ... the roster stays as it is, and a bundle comes from a brain that is in it.
Mutual(a, b) == grant[a][b] \cap grant[b][a]

RosterHolds ==
    /\ grant' = grant
    /\ \A n, m \in Node : Mutual(m, n) = {} => ~ImportBundle(m, n)

Orderly == OwnLogInOrder /\ NothingSkipped /\ RosterHolds

\* The behaviours in which all that is so; anything else may still happen,
\* restarts, broken sessions, lost local appends and failed rows included.
OrderlySpec == Init /\ [][Next /\ Orderly]_vars

\* The operation of r a brain knows of that is above all its others.
LastWriter(n, r) ==
    {op \in OpsOf(n, r) : \A o \in OpsOf(n, r) : o = op \/ TsLess(o.hlc, op.hlc)}

\* "The arrival order on the wire no longer dictates which copy survives"
\* (memory/sync.py:1586): a row nobody is working on is what the newest
\* operation of it in the log says.
SettledRow(n, r) ==
    \A op \in LastWriter(n, r) :
        IF op.kind = "insert"
        THEN row[n][r] = {op.hlc}
        ELSE row[n][r] = {} /\ tomb[n][r] = {op.hlc}

\* A row is settled whenever nobody is working on it, if no write of it failed
\* halfway, no two writers overlapped and no local delete was stamped by a
\* clock that had been set back: orders of arrival, relays, repeated
\* deliveries, broken sessions and restarts by themselves cannot make a row
\* differ from its log.
LastWriterWinsUndisturbed ==
    \A n \in Node, r \in Row :
        ~RowBusy(n, r) /\ <<n, r>> \notin disturbed => SettledRow(n, r)

\* With faults used up, brains that share a scope with each other, directly,
\* end up with each other's writes in it, for good, but for those that one of
\* the events of WatermarkAccounted has passed them over with.
Converges ==
    <>[](\A n, o \in Node : \A op \in wal[o] :
            Shareable(o, n, op) => op \in wal[n] \cup passed[n])
==============================================================================
