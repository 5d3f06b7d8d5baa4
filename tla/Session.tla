------------------------------ MODULE Session ------------------------------
(***************************************************************************)
(* pymongo/synchronous/client_session.py and the write half of             *)
(* _ClientConnectionRetryable in mongo_client.py: client sessions that     *)
(* share a pool of server sessions, run retryable writes, other writes,     *)
(* bulk writes (Bulk) and transactions, and retry them.                    *)
(*                                                                         *)
(* A ClientSession is used by one thread, so sessions meet only in the     *)
(* pool and the steps of an attempt are: select and connect (or fail to),  *)
(* send, and take the reply.  The application gives up a transaction in    *)
(* which a command failed.  Retryable writes are on and the servers         *)
(* support sessions.                                                       *)
(***************************************************************************)
EXTENDS Bulk

CONSTANTS
    Sessions,      \* ClientSession objects
    Mongos,        \* where commands may go
    Sharded,       \* those are mongos, to which transactions are pinned
    NoMongos,
    MaxAdaptive,   \* max_adaptive_retries
    Kinds,         \* what applications do: "write", "many", "txn", "with"
    Requests,      \* the bulk writes they make, outside transactions: see NewBulk
    Timeouts,      \* may an operation have a client side timeout (CSOT)?  A set of answers
    MaxItems,      \* bound: operations of a bulk write
    MaxRetries,    \* bound: retries of an operation with a timeout
    MaxLsids,      \* bound: server sessions
    MaxOps,        \* bound: writes outside transactions, and transactions
    MaxCommits,    \* bound: commitTransaction commands before an explicit retry
    MaxExpired,    \* bound: server sessions that time out
    MaxForks       \* bound: forks

VARIABLES
    pool,          \* _ServerSessionPool, most recently returned first
    generation,    \* its generation
    srv,           \* per server session: see NewServerSession
    ses,           \* per client session: see NewSession
    op,            \* per client session: the _ClientConnectionRetryable at work
    msg,           \* per client session: the last command sent
    used,          \* history: <<lsid, txnNumber, operation>> sent
    executed,      \* external: <<lsid, txnNumber>> of the writes executed
    committed,     \* external: the transactions that were committed
    applied,       \* history: how often a write outside transactions, or an operation
                   \* of a bulk write, was applied
    raised,        \* history: errors given to the application
    reported,      \* history: results of bulk writes given to the application
    ops, expired

vars == <<pool, generation, srv, ses, op, msg, used, executed, committed, applied, raised,
          reported, ops, expired>>

ASSUME SessionAssumption ==
    /\ Sharded \in BOOLEAN /\ NoMongos \notin Mongos /\ Mongos # {}
    /\ Kinds \subseteq {"write", "many", "txn", "with"} /\ Timeouts \subseteq BOOLEAN
    /\ \A r \in Requests : /\ r.types \in Seq(OpTypes) /\ Len(r.types) \in 1..MaxItems
                          /\ {r.ordered, r.client, r.retryable} \subseteq BOOLEAN
                          /\ NewBulk(r).gen # <<>> /\ Head(NewBulk(r).gen) # NoRun   \* see BulkCut
    /\ MaxItems \in Nat \ {0} /\ MaxRetries \in Nat
    /\ MaxAdaptive \in Nat /\ MaxLsids \in Nat \ {0} /\ MaxOps \in Nat
    /\ MaxCommits \in Nat /\ MaxExpired \in Nat /\ MaxForks \in Nat

Lsid == 1..MaxLsids
Empty == 0            \* an _EmptyServerSession
Ended == -1           \* _server_session is None
InLsid(n) == n \in Lsid

NewServerSession(g) == [made |-> TRUE, txn |-> 0, dirty |-> FALSE, stale |-> FALSE, gen |-> g]
NoTransaction == [state |-> "NONE", attempt |-> 0, completed |-> FALSE, pinned |-> NoMongos]
NoHistory == [id |-> 0, failed |-> FALSE, begun |-> FALSE, commits |-> 0]
\* with_transaction: where it stands, its transactions and the last outcome.
NoCall == [step |-> "none", txns |-> {}, last |-> "ok"]
NewSession == [srv |-> Empty, started |-> FALSE, txn |-> NoTransaction, hist |-> NoHistory,
               call |-> NoCall]
Idle == [pc |-> "idle"]
NoMessage == [kind |-> "none"]

Active(x) == x.txn.state \in {"STARTING", "IN_PROGRESS"}    \* in_transaction
Unpin(x) == [x EXCEPT !.txn.pinned = NoMongos]
InCall(x) == x.call.step \notin {"none", "returned", "raised"}
Finishing(o) == o.kind \in {"commit", "abort"}

-----------------------------------------------------------------------------
(* The pool of server sessions.                                            *)

\* get_server_session: _clear_stale drops what timed out on the right, then
\* the first from the left that has not timed out is taken.
Fresh == {i \in DOMAIN pool : ~srv[pool[i]].stale}
Popped_Peek(l, rest) ==
    \E first, last \in Fresh :
       /\ \A i \in Fresh : first <= i /\ i <= last
       /\ l = pool[first] /\ rest = SubSeq(pool, first, last)
Popped(l, rest) ==
    \E first, last \in Fresh :
       /\ \A i \in Fresh : first <= i /\ i <= last
       /\ l = pool[first] /\ rest = SubSeq(pool, first + 1, last)

\* return_server_session.
Returnable_Dirty(l) == srv[l].gen = generation
Returnable(l) == srv[l].gen = generation /\ ~srv[l].dirty

\* _materialize, with last_use: session x gets the server session l, which has
\* a new number if a retryable write or a transaction has begun without it.
StartedNumber_Pooled(x, txn) == txn
StartedNumber(x, txn) == IF x.started THEN txn + 1 ELSE txn

\* A bulk write starts a retryable write for each command after the first.
NewNumber_Every(o) == o.kind = "bulk" /\ o.retryable
NewNumber(o) == o.kind = "bulk" /\ o.retryable /\ ~o.bulk.started

\* A session that has its server session uses it again, with its number: the
\* number is the command's, not the attempt's.
Reuse(s) ==
    srv' = [srv EXCEPT ![ses[s].srv].stale = FALSE,
                       ![ses[s].srv].txn = IF NewNumber(op[s]) THEN @ + 1 ELSE @]

Materialize(s) ==
    IF InLsid(ses[s].srv)
    THEN Reuse(s) /\ UNCHANGED pool
    ELSE IF Fresh # {}
    THEN \E l \in Lsid : /\ Popped(l, pool')
                         /\ srv' = [srv EXCEPT ![l].stale = FALSE,
                                               ![l].txn = StartedNumber(ses[s], @)]
    ELSE LET l == CHOOSE n \in Lsid : ~srv[n].made
         IN  /\ \E n \in Lsid : ~srv[n].made
             /\ pool' = <<>>
             /\ srv' = [srv EXCEPT ![l] = [NewServerSession(generation) EXCEPT
                                             !.txn = StartedNumber(ses[s], 0)]]

\* The server session that Materialize gives s.
Materialized(s) ==
    IF InLsid(ses[s].srv) THEN ses[s].srv
    ELSE IF Fresh # {} THEN pool[CHOOSE i \in Fresh : \A j \in Fresh : i <= j]
    ELSE CHOOSE n \in Lsid : ~srv[n].made

-----------------------------------------------------------------------------
Init ==
    /\ pool = <<>> /\ generation = 0
    /\ srv = [l \in Lsid |-> [NewServerSession(0) EXCEPT !.made = FALSE]]
    /\ ses = [s \in Sessions |-> [NewSession EXCEPT !.srv = Ended]]
    /\ op = [s \in Sessions |-> Idle] /\ msg = [s \in Sessions |-> NoMessage]
    /\ used = {} /\ executed = {} /\ committed = {}
    /\ applied = [i \in 1..MaxOps |-> [j \in 1..MaxItems |-> 0]]
    /\ raised = {} /\ reported = {} /\ ops = 0 /\ expired = 0

History == <<msg, used, executed, committed, applied, raised, reported>>

StartSession(s) ==
    /\ op[s] = Idle /\ ses[s].srv = Ended /\ ops < MaxOps
    /\ ses' = [ses EXCEPT ![s] = NewSession]
    /\ UNCHANGED <<pool, generation, srv, op, History, ops, expired>>

\* _end_session.  One in a transaction aborts it first: Abort, then this.
EndSession(s) ==
    LET l == ses[s].srv
    IN  /\ op[s] = Idle /\ l # Ended /\ ~Active(ses[s]) /\ ~InCall(ses[s])
        /\ pool' = IF InLsid(l) /\ Returnable(l) THEN <<l>> \o pool ELSE pool
        /\ ses' = [ses EXCEPT ![s] = [NewSession EXCEPT !.srv = Ended]]
        /\ UNCHANGED <<generation, srv, op, History, ops, expired>>

\* Nobody uses a server session for half an hour.
Expire(l) ==
    /\ srv[l].made /\ ~srv[l].stale /\ expired < MaxExpired
    /\ expired' = expired + 1
    /\ srv' = [srv EXCEPT ![l].stale = TRUE]
    /\ UNCHANGED <<pool, generation, ses, op, History, ops>>

\* What the child process sees of a fork: _after_fork resets the pool.
Fork ==
    /\ generation < MaxForks /\ \A s \in Sessions : op[s] = Idle
    /\ generation' = generation + 1 /\ pool' = <<>>
    /\ UNCHANGED <<srv, ses, op, History, ops, expired>>

\* _start_retryable_write: a new transaction number, now or when the session
\* gets its server session.
StartRetryableWrite(s, x) ==
    IF InLsid(x.srv)
    THEN srv' = [srv EXCEPT ![x.srv].txn = @ + 1] /\ ses' = [ses EXCEPT ![s] = x]
    ELSE ses' = [ses EXCEPT ![s] = [x EXCEPT !.started = TRUE]] /\ UNCHANGED srv

\* _ClientConnectionRetryable.__init__.  With a timeout, _max_retries is infinite.
NoBulk == [started |-> FALSE]
Run(s, id, kind, retryable, bulk) ==
    \E csot \in Timeouts :
       op' = [op EXCEPT ![s] = [pc |-> "attempt", id |-> id, kind |-> kind, retryable |-> retryable,
                                retrying |-> FALSE, attempts |-> 0, max |-> 1, csot |-> csot,
                                overloaded |-> FALSE, last |-> {}, bulk |-> bulk]]

CanRun(s) == op[s] = Idle /\ ses[s].srv # Ended

\* A write: _retry_with_session, then the start of run.
Write(s, kind) ==
    LET x == ses[s]
        retryable == kind = "write" /\ ~Active(x)
        new == ~Active(x)
    IN  /\ CanRun(s) /\ ~x.hist.failed /\ x.call.step \notin {"commit", "decide", "abort"}
        /\ InCall(x) => Active(x)
        /\ new => ops < MaxOps
        /\ ops' = IF new THEN ops + 1 ELSE ops
        /\ Run(s, IF new THEN ops + 1 ELSE x.hist.id, kind, retryable, NoBulk)
        /\ IF retryable THEN StartRetryableWrite(s, x) ELSE UNCHANGED <<srv, ses>>
        /\ UNCHANGED <<pool, generation, History, expired>>

\* execute_command: one retry loop runs all the commands.
BulkWrite(s, r) ==
    /\ CanRun(s) /\ ~Active(ses[s]) /\ ~InCall(ses[s]) /\ ops < MaxOps
    /\ ops' = ops + 1
    /\ Run(s, ops + 1, "bulk", r.retryable, [NewBulk(r) EXCEPT !.started = r.retryable])
    /\ IF r.retryable THEN StartRetryableWrite(s, ses[s]) ELSE UNCHANGED <<srv, ses>>
    /\ UNCHANGED <<pool, generation, History, expired>>

\* start_transaction, by the application or by with_transaction.
Begin(s, call) ==
    /\ CanRun(s) /\ ~Active(ses[s]) /\ ops < MaxOps
    /\ ops' = ops + 1
    /\ StartRetryableWrite(s, [ses[s] EXCEPT !.txn = [NoTransaction EXCEPT !.state = "STARTING"],
                                             !.hist = [NoHistory EXCEPT !.id = ops + 1],
                                             !.call = call])
    /\ UNCHANGED <<pool, generation, op, History, expired>>

StartTransaction(s) == ~InCall(ses[s]) /\ Begin(s, NoCall)

\* commit_transaction: nothing was sent, or a commit is sent, perhaps again.
CommitEmpty(s) ==
    /\ CanRun(s) /\ ses[s].txn.state = "STARTING" /\ ses[s].call.step \in {"none", "commit"}
    /\ ses' = [ses EXCEPT ![s].txn.state = "COMMITTED_EMPTY",
                          ![s].call.step = IF InCall(ses[s]) THEN "decide" ELSE @]
    /\ UNCHANGED <<pool, generation, srv, op, History, ops, expired>>

Commit(s) ==
    /\ CanRun(s) /\ ses[s].txn.state \in {"IN_PROGRESS", "COMMITTED"}
    /\ ~ses[s].hist.failed /\ ses[s].hist.commits < MaxCommits
    /\ ses[s].call.step \in {"none", "commit"}
    /\ ses' = [ses EXCEPT ![s].txn.state = "IN_PROGRESS"]
    /\ Run(s, ses[s].hist.id, "commit", TRUE, NoBulk)
    /\ UNCHANGED <<pool, generation, srv, History, ops, expired>>

\* abort_transaction.
Abort(s) ==
    /\ CanRun(s) /\ Active(ses[s]) /\ ses[s].call.step \notin {"commit", "decide"}
    /\ IF ses[s].txn.state = "STARTING"
       THEN /\ ses' = [ses EXCEPT ![s].txn.state = "ABORTED",
                                  ![s].call.step = IF @ = "abort" THEN "decide" ELSE @]
            /\ UNCHANGED op
       ELSE Run(s, ses[s].hist.id, "abort", TRUE, NoBulk) /\ UNCHANGED ses
    /\ UNCHANGED <<pool, generation, srv, History, ops, expired>>

-----------------------------------------------------------------------------
(* with_transaction.  Its callback runs commands in the transaction, and may *)
(* abort it.  The time limit may pass at any time.                         *)

WithTransaction(s) ==
    "with" \in Kinds /\ ~InCall(ses[s])
      /\ Begin(s, [step |-> "callback", txns |-> {ops + 1}, last |-> "ok"])

Step(s, step, last) ==
    /\ ses' = [ses EXCEPT ![s].call.step = step, ![s].call.last = last]
    /\ UNCHANGED <<pool, generation, srv, op, History, ops, expired>>

CallbackReturns(s) ==
    /\ CanRun(s) /\ ses[s].call.step = "callback" /\ ~ses[s].hist.failed
    /\ Step(s, IF Active(ses[s]) THEN "commit" ELSE "returned", "ok")

\* The callback raises the error of its command, or another one, and the
\* transaction is aborted if it still runs.
AfterCallback_Open(x) == "decide"
AfterCallback(x) == IF Active(x) THEN "abort" ELSE "decide"
CallbackRaises(s) ==
    /\ CanRun(s) /\ ses[s].call.step = "callback"
    /\ Step(s, AfterCallback(ses[s]), IF ses[s].hist.failed THEN ses[s].call.last ELSE "other")

\* What follows a callback that raised and an attempt to commit.
Return(s) ==
    /\ ses[s].call.step = "decide" /\ ses[s].call.last = "ok"
    /\ Step(s, "returned", "ok")
CommitAgain(s) ==
    /\ ses[s].call.step = "decide" /\ ses[s].call.last = "unknown"
    /\ Step(s, "commit", "ok")
TransactionAgain(s) ==
    /\ ses[s].call.step = "decide" /\ ses[s].call.last = "transient"
    /\ Begin(s, [step |-> "callback", txns |-> ses[s].call.txns \cup {ops + 1}, last |-> "ok"])
RaiseError(s) ==
    /\ ses[s].call.step = "decide" /\ ses[s].call.last # "ok"
    /\ Step(s, "raised", ses[s].call.last)

-----------------------------------------------------------------------------
(* run: what it does with an error e of an attempt.  conn: a connection     *)
(* failure; rw: the label RetryableWriteError; over: SystemOverloadedError  *)
(* with RetryableError; nwp: NoWritesPerformed; more: the server's label     *)
(* TransientTransactionError, or what commit_transaction makes of its code. *)

Error(conn, rw, over, nwp) ==
    [conn |-> conn, rw |-> rw, over |-> over, nwp |-> nwp, more |-> "other"]

\* How with_transaction sees an error: a commit that failed on the network, or
\* with a retryable code, is UnknownTransactionCommitResult.
Label_Transient(o, e) == IF e.conn THEN "transient" ELSE e.more
Label(o, e) ==
    IF o.kind = "commit" THEN (IF e.conn \/ e.rw THEN "unknown" ELSE e.more)
    ELSE IF e.conn THEN "transient" ELSE e.more

\* What commit_transaction, abort_transaction and the application make of the
\* end of an operation.
Finished(o, x, outcome) ==
    CASE o.kind = "commit" ->
           [x EXCEPT !.txn.state = "COMMITTED",
                     !.call = IF InCall(x) THEN [@ EXCEPT !.step = "decide", !.last = outcome] ELSE @]
      [] o.kind = "abort"  ->
           Unpin([x EXCEPT !.txn.state = "ABORTED",
                           !.call.step = IF @ = "abort" THEN "decide" ELSE @])
      [] OTHER ->
           [x EXCEPT !.hist.failed = outcome # "ok" /\ Active(x),
                     !.call.last = IF InCall(x) THEN outcome ELSE @]

\* The operations of the command at work: those of the bulk write by index.
Written(o) == IF o.kind = "bulk" THEN Writes(o.bulk) ELSE {1}
Command(o) == IF o.kind = "bulk" THEN <<o.id, Batch(o.bulk)>> ELSE <<o.id, <<1>>>>

Raise(s, errors, x) ==
    /\ op' = [op EXCEPT ![s] = Idle]
    /\ \E e \in errors : ses' = [ses EXCEPT ![s] = Finished(op[s], x, Label(op[s], e))]
    /\ raised' = raised \cup {[id |-> op[s].id, nwp |-> e.nwp, wrote |-> Written(op[s])] : e \in errors}

AlwaysRetryable(e) == e.over

\* _is_not_eligible_for_retry.  An overloaded server ends the infinite retries too.
NotEligible(o, max) ==
    ~o.retryable \/ (o.retrying /\ o.attempts >= max /\ (o.csot => o.overloaded))

\* _last_error: the one that may have written is kept.
LastError_Newest(o, e) == {e}
LastError(o, e) == IF ~e.nwp \/ o.last = {} THEN {e} ELSE o.last

\* "Revert back to starting state only if the first transactional command was
\* never completed."
Reverted_Always(x) == [x EXCEPT !.txn.attempt = 0, !.txn.state = "STARTING"]
Reverted(x) ==
    [x EXCEPT !.txn.attempt = 0,
              !.txn.state = IF x.txn.completed THEN @ ELSE "STARTING"]

Failed(s, e, x) ==
    LET o == op[s]
        always == AlwaysRetryable(e)
        rw == e.rw /\ (e.conn => o.retryable)     \* _add_retryable_write_error
        max == IF e.over THEN MaxAdaptive ELSE o.max
        unpinned == IF rw \/ always THEN Unpin(x) ELSE x
        y == IF e.over /\ Active(x) THEN Reverted(unpinned) ELSE unpinned
    IN  IF ~Finishing(o) /\ ~(o.retryable \/ always)
        THEN Raise(s, {e}, x)
        ELSE IF ~always /\ (~rw \/ NotEligible(o, max))
        THEN Raise(s, IF e.nwp /\ o.last # {} THEN LastError(o, e) ELSE {e}, unpinned)
        ELSE IF e.over /\ o.attempts + 1 > MaxAdaptive
        THEN Raise(s, IF e.nwp THEN LastError(o, e) ELSE {e}, y)
        ELSE /\ op' = [op EXCEPT ![s] = [o EXCEPT
                         !.pc = "attempt", !.retrying = TRUE, !.attempts = @ + 1, !.max = max,
                         !.overloaded = @ \/ e.over, !.last = LastError(o, e)]]
             /\ ses' = [ses EXCEPT ![s] = y]
             /\ o.csot => o.attempts < MaxRetries
             /\ UNCHANGED raised

-----------------------------------------------------------------------------
(* An attempt: _write.                                                     *)

\* _select_server: a finished transaction is forgotten.
Selected(x) == IF Active(x) THEN x ELSE [x EXCEPT !.txn = NoTransaction, !.hist = NoHistory]

\* ServerSelectionTimeoutError is not retried, and never hides an earlier error.
SelectionFails(s) ==
    /\ op[s].pc = "attempt"
    /\ Raise(s, IF op[s].retrying THEN op[s].last ELSE {Error(TRUE, FALSE, FALSE, FALSE)},
             LET x == Selected(ses[s]) IN IF Active(x) THEN Unpin(x) ELSE x)
    /\ UNCHANGED <<pool, generation, srv, msg, used, executed, committed, applied, reported, ops, expired>>

\* _check_last_error at the top of the loop: the time is up.
TimeIsUp(s) ==
    /\ op[s].pc = "attempt" /\ op[s].csot /\ op[s].retrying
    /\ Raise(s, op[s].last, ses[s])
    /\ UNCHANGED <<pool, generation, srv, msg, used, executed, committed, applied, reported, ops, expired>>

\* _MongoClientErrorHandler.handle, for a connection failure.
MarkDirty(s) ==
    srv' = IF InLsid(ses[s].srv) THEN [srv EXCEPT ![ses[s].srv].dirty = TRUE] ELSE srv

ConnectFails(s, over) ==
    /\ op[s].pc = "attempt"
    /\ MarkDirty(s)
    /\ Failed(s, Error(TRUE, TRUE, over, FALSE),
              LET x == Selected(ses[s]) IN IF Active(x) THEN Unpin(x) ELSE x)
    /\ UNCHANGED <<pool, generation, msg, used, executed, committed, applied, reported, ops, expired>>

Targets(x) == IF Active(x) /\ x.txn.pinned # NoMongos THEN {x.txn.pinned} ELSE Mongos

\* The attempt enters _execute_command with the bulk write as the last one left it.
Entering(o) ==
    IF o.kind # "bulk" THEN [o EXCEPT !.pc = "sent"]
    ELSE [o EXCEPT !.pc = "sent",
                   !.bulk = [IF o.pc = "attempt" THEN Entered(@, o.retrying) ELSE @
                             EXCEPT !.started = o.retryable]]

\* _checkout pins the transaction, _apply_to numbers the command, and
\* _finish_transaction upgrades a commit that is not the first.  The commands of
\* a bulk write that are not the first of an attempt are sent on its connection.
Send(s, m) ==
    LET o == op[s]
        x == Selected(ses[s])
        l == Materialized(s)
        start == x.txn.state = "STARTING"
    IN  /\ o.pc \in {"attempt", "more"} /\ m \in Targets(x)
        /\ Materialize(s)
        /\ op' = [op EXCEPT ![s] = Entering(@)]
        /\ ses' = [ses EXCEPT ![s] = [x EXCEPT
                     !.srv = l, !.started = FALSE,
                     !.txn.pinned = IF Active(x) /\ Sharded THEN m ELSE @,
                     !.txn.state = IF start THEN "IN_PROGRESS" ELSE @,
                     !.txn.attempt = IF Finishing(o) THEN @ + 1 ELSE @]]
        /\ msg' = [msg EXCEPT ![s] =
                     [kind |-> o.kind, txn |-> Active(x), start |-> start, begun |-> x.hist.begun,
                      majority |-> o.kind = "commit" /\ x.txn.attempt > 0, mongos |-> m]]
        /\ used' = IF o.retryable \/ Active(x)
                   THEN used \cup {<<l, srv'[l].txn, IF Active(x) THEN o.id ELSE Command(op'[s])>>}
                   ELSE used
        /\ UNCHANGED <<generation, executed, committed, applied, raised, reported, ops, expired>>

\* External.  The server executes a command that it has not executed yet: it
\* knows the retryable writes by session and number.
Execute(s) ==
    LET number == <<ses[s].srv, srv[ses[s].srv].txn>>
    IN  /\ committed' = IF op[s].kind = "commit" THEN committed \cup {op[s].id} ELSE committed
        /\ executed' = IF op[s].retryable /\ ~msg[s].txn THEN executed \cup {number} ELSE executed
        /\ applied' = IF msg[s].txn \/ (op[s].retryable /\ number \in executed) THEN applied
                      ELSE [applied EXCEPT ![op[s].id] = [j \in 1..MaxItems |->
                              IF j \in Written(op[s]) THEN @[j] + 1 ELSE @[j]]]

\* A commit that the server may have executed.
Tried(s, x) == IF op[s].kind = "commit" THEN [x EXCEPT !.hist.commits = @ + 1] ELSE x

Reached(s, reached) == IF reached THEN Execute(s) ELSE UNCHANGED <<executed, committed, applied>>

Succeeds(s) ==
    /\ op[s].pc = "sent" /\ op[s].kind # "bulk"
    /\ Execute(s)
    /\ op' = [op EXCEPT ![s] = Idle]
    /\ ses' = [ses EXCEPT ![s] =
                 Finished(op[s], IF Active(@) THEN [Tried(s, @) EXCEPT !.txn.completed = TRUE,
                                                                       !.hist.begun = TRUE]
                                 ELSE @, "ok")]
    /\ UNCHANGED <<pool, generation, srv, msg, used, raised, reported, ops, expired>>

\* The reply to a command of a bulk write; after the last one execute_command
\* gives the result, as an exception if there are write errors.
BulkSucceeds(s) ==
    LET o == op[s]
        b == Replied(o.bulk)
    IN  /\ o.pc = "sent" /\ o.kind = "bulk"
        /\ Execute(s)
        /\ IF Completed(b)
           THEN /\ op' = [op EXCEPT ![s] = Idle]
                /\ reported' = reported \cup {[id |-> o.id, request |-> b.request, n |-> b.n, errors |-> b.errors]}
           ELSE /\ op' = [op EXCEPT ![s] = [o EXCEPT !.pc = "more", !.bulk = b, !.retrying = FALSE]]
                /\ UNCHANGED reported
        /\ UNCHANGED <<pool, generation, srv, ses, msg, used, raised, ops, expired>>

\* The connection breaks: the command may have reached the server or not.
ReplyLost(s, reached) ==
    /\ op[s].pc = "sent"
    /\ Reached(s, reached)
    /\ MarkDirty(s)
    /\ Failed(s, Error(TRUE, TRUE, FALSE, FALSE),
              IF Active(ses[s]) THEN Unpin(Tried(s, ses[s])) ELSE ses[s])
    /\ UNCHANGED <<pool, generation, msg, used, reported, ops, expired>>

\* External.  An overloaded server has not executed the command; one that
\* reports RetryableWriteError may have, unless it says NoWritesPerformed, and
\* so may one that ran out of time with a commit (WriteConcernTimeout,
\* MaxTimeMSExpired).  A transaction that is committed does not fail.
Refusals(s) ==
    {e \in [conn : {FALSE}, rw : BOOLEAN, over : BOOLEAN, nwp : BOOLEAN,
            more : {"other", "transient", "unknown", "maxtime"}] :
       (e.over => ~e.rw) /\ (e.more # "other" => ~e.rw /\ ~e.over /\ ~e.nwp)}
MayRefuse(s, e, reached) ==
    /\ e.more = "transient" => msg[s].txn /\ ~reached /\ op[s].id \notin committed
    /\ e.more \in {"unknown", "maxtime"} => op[s].kind = "commit"
    /\ reached => (e.rw /\ ~e.nwp) \/ e.more \in {"unknown", "maxtime"}

Refused(s, e, reached) ==
    /\ op[s].pc = "sent"
    /\ MayRefuse(s, e, reached)
    /\ Reached(s, reached)
    /\ Failed(s, e, LET x == IF e.over THEN ses[s] ELSE Tried(s, ses[s])
                    IN  IF e.rw \/ e.more = "transient" THEN Unpin(x) ELSE x)
    /\ UNCHANGED <<pool, generation, srv, msg, used, reported, ops, expired>>

Operation(s) ==
    \/ StartSession(s) \/ EndSession(s)
    \/ \E kind \in Kinds \cap {"write", "many"} : Write(s, kind)
    \/ \E r \in Requests : BulkWrite(s, r)
    \/ "txn" \in Kinds /\ StartTransaction(s)
    \/ CommitEmpty(s) \/ Commit(s) \/ Abort(s)
    \/ WithTransaction(s) \/ CallbackReturns(s) \/ CallbackRaises(s)
    \/ Return(s) \/ CommitAgain(s) \/ TransactionAgain(s) \/ RaiseError(s)

Attempt(s) ==
    \/ SelectionFails(s) \/ TimeIsUp(s)
    \/ \E over \in BOOLEAN : ConnectFails(s, over)
    \/ \E m \in Mongos : Send(s, m)
    \/ Succeeds(s) \/ BulkSucceeds(s)
    \/ \E reached \in BOOLEAN : ReplyLost(s, reached)
    \/ \E e \in Refusals(s), reached \in BOOLEAN : Refused(s, e, reached)

Next == (\E s \in Sessions : Operation(s) \/ Attempt(s)) \/ (\E l \in Lsid : Expire(l)) \/ Fork

Spec == Init /\ [][Next]_vars

-----------------------------------------------------------------------------
TransactionStates == {"NONE", "STARTING", "IN_PROGRESS", "COMMITTED", "COMMITTED_EMPTY", "ABORTED"}

\* Every variable has its type; an attempt always follows an error that can be
\* raised in its place.
TypeOK ==
    /\ pool \in Seq(Lsid) /\ generation \in 0..MaxForks
    /\ srv \in [Lsid -> [made : BOOLEAN, txn : Nat, dirty : BOOLEAN, stale : BOOLEAN, gen : Nat]]
    /\ \A s \in Sessions :
         /\ ses[s].srv \in Lsid \cup {Empty, Ended} /\ ses[s].started \in BOOLEAN
         /\ ses[s].txn \in [state : TransactionStates, attempt : Nat, completed : BOOLEAN,
                            pinned : Mongos \cup {NoMongos}]
         /\ op[s] # Idle /\ op[s].retrying => op[s].last # {}
    /\ ops \in 0..MaxOps /\ expired \in 0..MaxExpired

\* A server session serves one ClientSession at a time: it is held by one, or
\* waits in the pool once, whoever returns and takes sessions meanwhile.
Exclusive ==
    /\ \A i, j \in DOMAIN pool : pool[i] = pool[j] => i = j
    /\ \A s \in Sessions : InLsid(ses[s].srv) =>
         /\ \A i \in DOMAIN pool : pool[i] # ses[s].srv
         /\ \A t \in Sessions : ses[t].srv = ses[s].srv => t = s

\* "Dirty sessions are later discarded": no session that saw a network error,
\* and none that a parent process may be using, is handed out again.
PoolClean == \A i \in DOMAIN pool : ~srv[pool[i]].dirty /\ srv[pool[i]].gen = generation

\* A transaction number belongs to one write or one transaction.  If it were
\* used again the server would take the second for a retry and skip it.
NumberUnique == \A u, v \in used : u[1] = v[1] /\ u[2] = v[2] => u[3] = v[3]

\* Retries never apply a write twice: with a transaction number the server
\* knows a retry, and without one there is none once the write may have run.
AtMostOnce == \A i \in 1..MaxOps, j \in 1..MaxItems : applied[i][j] <= 1

\* An application that sees NoWritesPerformed may rely on it for all attempts of
\* the command: an earlier one that may have written is reported in its place.
HonestError == \A r \in raised : r.nwp => \A j \in r.wrote : applied[r.id][j] = 0

ResultExact ==
    \A r \in reported :
       /\ r.n = Cardinality({j \in 1..MaxItems : applied[r.id][j] > 0})
       /\ \A j \in r.errors : applied[r.id][j] = 0
InOrder ==
    \A s \in Sessions :
       LET o == op[s] IN
       o # Idle /\ o.kind = "bulk" /\ o.bulk.request.ordered =>
          \A j \in 1..MaxItems : applied[o.id][j] > 0 => \A i \in 1..(j - 1) : applied[o.id][i] > 0

\* All of a result's operations were attempted, unless an error ended it early.
AllAttempted(r) ==
    (r.request.ordered => r.errors = {}) => r.n + Cardinality(r.errors) = Len(r.request.types)

\* The result of a bulk write is the truth: the operations that it counts are
\* those that were applied, whatever was sent again, and the errors that it lists
\* are of operations that were not.  An ordered one that is running has left no
\* gap, and MongoClient.bulk_write attempts all operations.
BulkExact ==
    /\ ResultExact /\ InOrder
    /\ \A r \in reported : r.request.client => AllAttempted(r)

\* Collection.bulk_write: "all operations will be attempted".
BulkAttempted == \A r \in reported : ~r.request.client => AllAttempted(r)

\* startTransaction goes with the commands of a transaction up to the first
\* that the server executes, and with none after it.
StartExact ==
    \A s \in Sessions : msg[s].kind \in {"write", "many"} /\ msg[s].txn => msg[s].start = ~msg[s].begun

\* "with_transaction ensures that the transaction will be committed at-most-once
\* on the server": of the transactions of a call one is committed.
CommittedOnce == \A s \in Sessions : \A i, j \in ses[s].call.txns \cap committed : i = j

\* with_transaction returns when its transaction is committed, had no command, or
\* was aborted by the callback, and never leaves one running, whatever failed.
CallCompleted ==
    \A s \in Sessions :
       LET x == ses[s] IN
       /\ x.call.step \in {"returned", "raised"} => ~Active(x)
       /\ x.call.step = "returned" /\ x.txn.state = "COMMITTED" => x.hist.id \in committed
=============================================================================
