------------------------- MODULE TransactionProofs -------------------------
(***************************************************************************)
(* Proofs about Session: for any number of sessions, mongos, operations    *)
(* and errors, a transaction is started exactly once on the server, one of *)
(* those of a with_transaction call is committed at most, and the call     *)
(* leaves none running.                                                    *)
(***************************************************************************)
EXTENDS Session, TLAPS

Outcomes == {"ok", "unknown", "transient", "other", "maxtime"}
Steps == {"none", "callback", "commit", "abort", "decide", "returned", "raised"}
Errors ==
    {e \in [conn : BOOLEAN, rw : BOOLEAN, over : BOOLEAN, nwp : BOOLEAN, more : Outcomes \ {"ok"}] :
       e.more # "other" => ~e.conn /\ ~e.rw /\ ~e.over}
\* Only errors that the driver makes, and those with its labels, are retried.
RetriedErrors == {e \in Errors : e.more = "other"}

Fields(x) ==
    /\ x \in [srv : {x.srv}, started : {x.started}, txn : {x.txn}, hist : {x.hist}, call : {x.call}]
    /\ x.txn \in [state : {x.txn.state}, attempt : {x.txn.attempt}, completed : {x.txn.completed},
                  pinned : {x.txn.pinned}]
    /\ x.hist \in [id : {x.hist.id}, failed : {x.hist.failed}, begun : {x.hist.begun},
                   commits : {x.hist.commits}]
    /\ x.call \in [step : {x.call.step}, txns : {x.call.txns}, last : {x.call.last}]
SessionType(x) ==
    x \in [srv : {x.srv}, started : {x.started},
           txn : [state : TransactionStates, attempt : Nat, completed : BOOLEAN, pinned : {x.txn.pinned}],
           hist : [id : Nat, failed : BOOLEAN, begun : BOOLEAN, commits : Nat],
           call : [step : Steps, txns : SUBSET Nat, last : Outcomes]]
OpType(o) ==
    o \in [pc : {"attempt", "sent", "more"}, id : Nat,
           kind : {"write", "many", "bulk", "commit", "abort"}, retryable : BOOLEAN,
           retrying : BOOLEAN, attempts : {o.attempts}, max : {o.max}, csot : {o.csot},
           overloaded : {o.overloaded}, last : SUBSET RetriedErrors, bulk : {o.bulk}]

\* Transactions are numbered from 1 to n.
Within(x, n) ==
    /\ x.hist.id <= n /\ (x.txn.state # "NONE" => x.hist.id # 0)
    /\ \A i \in x.call.txns : 0 < i /\ i <= n

\* An operation belongs to the running transaction, or there is none.
Belongs(x, o) ==
    /\ OpType(o) /\ (o.pc = "more" => o.kind = "bulk")
    /\ IF Active(x)
       THEN /\ o.kind # "bulk" /\ o.id = x.hist.id
            /\ ~Finishing(o) => ~o.retryable /\ ~x.hist.failed
       ELSE ~Finishing(o) /\ ~InCall(x)

\* The session knows whether the server has begun the transaction.
Starts(x) ==
    x.hist.begun = x.txn.completed /\ (x.txn.state = "STARTING" => ~x.txn.completed)
Ready(x) == Active(x) /\ ~x.hist.failed => x.txn.completed \/ x.txn.state = "STARTING"
At(x, o) ==
    /\ o = Idle \/ (o.pc = "attempt" /\ ~Finishing(o)) => Ready(x)
    /\ o # Idle /\ o.pc = "sent" => x.txn.state # "STARTING"

\* Where with_transaction stands: which of its transactions are committed (in C).
Stands(x, o, C) ==
    LET c == x.call
        done == c.txns \cap C
    IN  /\ \A i, j \in done : i = j
        /\ o # Idle /\ o.kind = "commit" => c.step \in {"none", "commit"}
        /\ c.step = "none" => c.txns = {}
        /\ c.step = "callback" => done = {} /\ x.txn.state \in {"STARTING", "IN_PROGRESS", "ABORTED"}
        /\ c.step = "abort" => done = {}
        /\ c.step = "commit" => /\ done \subseteq {x.hist.id} /\ c.last = "ok"
                                /\ o # Idle => o.kind = "commit"
        /\ c.step = "decide" => /\ o = Idle /\ ~Active(x) /\ done \subseteq {x.hist.id}
                                /\ c.last = "transient" => done = {}
                                /\ c.last = "ok" /\ x.txn.state = "COMMITTED" => x.hist.id \in C
        /\ c.step \in {"returned", "raised"} => ~Active(x)
        /\ c.step = "returned" /\ x.txn.state = "COMMITTED" => x.hist.id \in C

Running(x, o, C, n) ==
    /\ SessionType(x) /\ Within(x, n) /\ Starts(x) /\ Stands(x, o, C)
    /\ o # Idle => Belongs(x, o)
Sound(x, o, C, n) == Running(x, o, C, n) /\ At(x, o)

\* The inductive invariant.  No session runs a transaction of another's call.
TransactionInv ==
    /\ ses = [s \in Sessions |-> ses[s]] /\ op = [s \in Sessions |-> op[s]]
    /\ msg = [s \in Sessions |-> msg[s]]
    /\ ops \in Nat /\ \A i \in committed : i \in Nat /\ 0 < i /\ i <= ops
    /\ StartExact
    /\ \A s \in Sessions : Sound(ses[s], op[s], committed, ops)
    /\ \A s, t \in Sessions : s # t => ses[t].hist.id \notin ses[s].call.txns

-----------------------------------------------------------------------------
(* What an attempt does to its session.                                    *)

\* y is x as an attempt leaves it: the transaction may have to start again.
Like(x, y) ==
    /\ SessionType(y) /\ y.call = x.call /\ y.txn.completed = x.txn.completed
    /\ y.hist.id = x.hist.id /\ y.hist.failed = x.hist.failed /\ y.hist.begun = x.hist.begun
    /\ \/ y.txn.state = x.txn.state
       \/ Active(x) /\ ~x.txn.completed /\ y.txn.state = "STARTING"

LEMMA LikeTrans ==
    ASSUME NEW x, NEW y, NEW z, Like(x, y), Like(y, z)
    PROVE  Like(x, z)
  BY DEF Like, Active

LEMMA UnpinLike ==
    ASSUME NEW x, SessionType(x)
    PROVE  Like(x, Unpin(x)) /\ Unpin(x).txn.state = x.txn.state
  <1>1. /\ SessionType(Unpin(x)) /\ Unpin(x).hist = x.hist /\ Unpin(x).call = x.call
        /\ Unpin(x).txn = [x.txn EXCEPT !.pinned = NoMongos]
    BY DEF Unpin, SessionType
  <1> QED  BY <1>1 DEF Like, SessionType

LEMMA RevertedLike ==
    ASSUME NEW x, SessionType(x), Active(x)
    PROVE  Like(x, Reverted(x)) /\ Ready(Reverted(x))
  <1> DEFINE y == Reverted(x)
             state == IF x.txn.completed THEN x.txn.state ELSE "STARTING"
  <1>1. state \in TransactionStates
    BY DEF SessionType, TransactionStates
  <1>0. Fields(x)
    BY DEF SessionType, Fields
  <1>2. /\ y.hist = x.hist /\ y.call = x.call
        /\ y \in [srv : {y.srv}, started : {y.started}, txn : {y.txn}, hist : {y.hist}, call : {y.call}]
        /\ y.txn = [[x.txn EXCEPT !.attempt = 0] EXCEPT !.state = state]
    BY <1>0, Zenon DEF Reverted, Fields
  <1> HIDE DEF y, state
  <1>3. /\ y.txn.state = state /\ y.txn.completed = x.txn.completed
        /\ y.txn \in [state : TransactionStates, attempt : Nat, completed : BOOLEAN, pinned : {y.txn.pinned}]
    <2> DEFINE v == [x.txn EXCEPT !.attempt = 0]
    <2>1. /\ v \in [state : TransactionStates, attempt : Nat, completed : BOOLEAN, pinned : {v.pinned}]
          /\ v.completed = x.txn.completed
      BY DEF SessionType
    <2> HIDE DEF v
    <2>2. y.txn = [v EXCEPT !.state = state]
      BY <1>2 DEF v
    <2> QED  BY <1>1, <2>1, <2>2
  <1>4. SessionType(y)
    BY <1>2, <1>3, Zenon DEF SessionType, Fields
  <1> QED  BY <1>2, <1>3, <1>4 DEF Like, Ready, y, state

LEMMA TriedLike ==
    ASSUME NEW x, SessionType(x), NEW s
    PROVE  Like(x, Tried(s, x)) /\ Tried(s, x).txn.state = x.txn.state
  <1> DEFINE y == [x EXCEPT !.hist.commits = @ + 1]
  <1>1. SessionType(y) /\ y.txn = x.txn /\ y.call = x.call /\ y.hist = [x.hist EXCEPT !.commits = @ + 1]
    BY DEF SessionType
  <1>2. Like(x, y) /\ Like(x, x)
    BY <1>1, Zenon DEF Like, SessionType
  <1> QED  BY <1>1, <1>2 DEF Tried

LEMMA LikeRunning ==
    ASSUME NEW x, NEW o, NEW C, NEW n \in Nat, Running(x, o, C, n), NEW y, Like(x, y)
    PROVE  Running(y, o, C, n)
  <1>1. Active(y) = Active(x) /\ InCall(y) = InCall(x)
    BY DEF Like, Active, InCall
  <1>2. SessionType(y) /\ Within(y, n) /\ Starts(y)
    BY Zenon DEF Running, Like, Within, Starts, Active
  <1>3. Stands(y, o, C)
    BY <1>1, Zenon DEF Running, Like, Stands, Active
  <1>4. o # Idle => Belongs(y, o)
    BY <1>1, Zenon DEF Running, Like, Belongs
  <1> QED  BY <1>2, <1>3, <1>4 DEF Running

\* A transaction that ended is forgotten by the next operation.
LEMMA SelectedRunning ==
    ASSUME NEW x, NEW o, NEW C, NEW n \in Nat, Running(x, o, C, n), o # Idle
    PROVE  LET y == Selected(x) IN
           /\ Running(y, o, C, n) /\ y.call = x.call /\ (Active(y) <=> Active(x))
           /\ IF Active(x) THEN y = x ELSE y.hist = NoHistory /\ y.txn = NoTransaction
  <1>1. CASE Active(x)
    BY <1>1 DEF Selected
  <1>2. CASE ~Active(x)
    <2> DEFINE y == [x EXCEPT !.txn = NoTransaction, !.hist = NoHistory]
    <2>1. Selected(x) = y
      BY <1>2 DEF Selected
    <2>2. /\ y \in [srv : {y.srv}, started : {y.started}, txn : {NoTransaction}, hist : {NoHistory}, call : {x.call}]
          /\ y.call = x.call /\ y.txn = NoTransaction /\ y.hist = NoHistory
      <3>1. Fields(x)
        BY DEF Running, SessionType, Fields
      <3> QED  BY <3>1, Zenon DEF Fields
    <2> HIDE DEF y
    <2>3. SessionType(y)
      <3>1. x.call \in [step : Steps, txns : SUBSET Nat, last : Outcomes]
        BY DEF Running, SessionType
      <3>2. /\ NoTransaction \in [state : TransactionStates, attempt : Nat, completed : BOOLEAN, pinned : {NoTransaction.pinned}]
            /\ NoHistory \in [id : Nat, failed : BOOLEAN, begun : BOOLEAN, commits : Nat]
        BY DEF NoTransaction, NoHistory, TransactionStates
      <3> QED  BY <2>2, <3>1, <3>2, Zenon DEF SessionType
    <2>4. Within(y, n) /\ Starts(y) /\ ~Active(y)
      BY <2>2 DEF Running, Within, Starts, Active, NoTransaction, NoHistory
    <2>5. Belongs(y, o) /\ ~InCall(x)
      BY <1>2, <2>2, <2>4 DEF Running, Belongs, InCall
    <2>6. Stands(y, o, C)
      BY <1>2, <2>2, <2>4, <2>5 DEF Running, Stands, InCall, NoTransaction, SessionType, Steps
    <2>7. Running(y, o, C, n)
      BY <2>3, <2>4, <2>5, <2>6 DEF Running
    <2> QED  BY <1>2, <2>1, <2>2, <2>4, <2>7
  <1> QED  BY <1>1, <1>2

\* The operation ends.
LEMMA FinishedSound ==
    ASSUME NEW x, NEW o, NEW C, NEW n \in Nat, Running(x, o, C, n), o # Idle, NEW outcome \in Outcomes,
           o.kind = "commit" /\ outcome = "transient" => x.hist.id \notin C,
           o.kind = "commit" /\ outcome = "ok" => x.hist.id \in C,
           outcome = "ok" /\ Active(x) => x.txn.completed
    PROVE  LET y == Finished(o, x, outcome) IN
           Sound(y, Idle, C, n) /\ y.hist.id = x.hist.id /\ y.call.txns = x.call.txns
  <1> DEFINE y == Finished(o, x, outcome)
  <1>0. SessionType(x) /\ Within(x, n) /\ Starts(x) /\ Stands(x, o, C) /\ Belongs(x, o) /\ Fields(x)
    BY Zenon DEF Running, SessionType, Fields
  <1>1. o.kind \in {"write", "many", "bulk", "commit", "abort"}
    BY <1>0 DEF Belongs, OpType
  <1>2. CASE o.kind = "commit"
    <2> DEFINE call == IF InCall(x) THEN [x.call EXCEPT !.step = "decide", !.last = outcome] ELSE x.call
    <2>1. /\ y.hist = x.hist /\ y.call = call /\ y.txn = [x.txn EXCEPT !.state = "COMMITTED"]
          /\ y \in [srv : {y.srv}, started : {y.started}, txn : {y.txn}, hist : {y.hist}, call : {y.call}]
      BY <1>0, <1>2, Zenon DEF Finished, Fields
    <2>2. /\ call \in [step : Steps, txns : SUBSET Nat, last : Outcomes] /\ call.txns = x.call.txns
          /\ InCall(x) => call.step = "decide" /\ call.last = outcome
          /\ ~InCall(x) => call = x.call
      BY <1>0, Zenon DEF SessionType, Steps
    <2> HIDE DEF y, call
    <2>3. y.txn.state = "COMMITTED" /\ y.txn.completed = x.txn.completed
      BY <1>0, <2>1 DEF SessionType
    <2>4. SessionType(y)
      BY <1>0, <2>1, <2>2 DEF SessionType, TransactionStates
    <2>5. Active(x) /\ ~Active(y) /\ x.call.step \in {"none", "commit"}
      BY <1>0, <1>2, <2>3, Zenon DEF Belongs, Finishing, Active, Stands
    <2>6. Within(y, n) /\ Starts(y) /\ At(y, Idle)
      BY <1>0, <2>1, <2>2, <2>3, <2>5, Zenon DEF Within, Starts, At, Ready, Active
    <2>7. Stands(y, Idle, C)
      BY <1>0, <1>2, <2>1, <2>2, <2>3, <2>5 DEF Stands, InCall
    <2> QED  BY <2>1, <2>2, <2>4, <2>6, <2>7 DEF Sound, Running, y
  <1>3. CASE o.kind = "abort"
    <2> DEFINE step == IF x.call.step = "abort" THEN "decide" ELSE x.call.step
               v == [x EXCEPT !.txn.state = "ABORTED", !.call.step = step]
    <2>1. y = Unpin(v)
      BY <1>3 DEF Finished
    <2>2. /\ v.hist = x.hist /\ v.call = [x.call EXCEPT !.step = step] /\ v.txn = [x.txn EXCEPT !.state = "ABORTED"]
          /\ v \in [srv : {v.srv}, started : {v.started}, txn : {v.txn}, hist : {v.hist}, call : {v.call}]
      BY <1>0, Zenon DEF Fields
    <2>3. step \in Steps
      BY <1>0 DEF SessionType, Steps
    <2> HIDE DEF v, y, step
    <2>4. v.txn.state = "ABORTED" /\ v.txn.completed = x.txn.completed
          /\ v.call.step = step /\ v.call.txns = x.call.txns /\ v.call.last = x.call.last
      BY <1>0, <2>2 DEF SessionType
    <2>5. SessionType(v)
      BY <1>0, <2>2, <2>3 DEF SessionType, TransactionStates
    <2>6. Active(x) /\ ~Active(v)
      BY <1>0, <1>3, <2>4 DEF Belongs, Finishing, Active
    <2>7. Within(v, n) /\ Starts(v)
      BY <1>0, <2>2, <2>4, <2>6, Zenon DEF Within, Starts, Active
    <2>8. Stands(v, Idle, C)
      BY <1>0, <1>3, <2>2, <2>4, <2>6 DEF Stands, step, Active
    <2>9. Running(v, Idle, C, n)
      BY <2>5, <2>7, <2>8 DEF Running
    <2>10. Running(y, Idle, C, n) /\ Like(v, y)
      BY <2>1, <2>5, <2>9, UnpinLike, LikeRunning
    <2>11. At(y, Idle)
      BY <2>4, <2>10, Zenon DEF Like, At, Ready, Active
    <2> QED  BY <2>2, <2>4, <2>10, <2>11, Zenon DEF Sound, Like, y
  <1>4. CASE o.kind \notin {"commit", "abort"}
    <2> DEFINE failed == outcome # "ok" /\ Active(x)
               last == IF InCall(x) THEN outcome ELSE x.call.last
    <2>1. /\ y.hist = [x.hist EXCEPT !.failed = failed] /\ y.call = [x.call EXCEPT !.last = last] /\ y.txn = x.txn
          /\ y \in [srv : {y.srv}, started : {y.started}, txn : {y.txn}, hist : {y.hist}, call : {y.call}]
      BY <1>0, <1>4, Zenon DEF Finished, Fields
    <2>2. failed \in BOOLEAN /\ last \in Outcomes
      BY <1>0 DEF SessionType
    <2> HIDE DEF failed, last, y
    <2>3. /\ y.hist.failed = failed /\ y.hist.id = x.hist.id /\ y.hist.begun = x.hist.begun
          /\ y.call.step = x.call.step /\ y.call.txns = x.call.txns /\ y.call.last = last
      BY <1>0, <2>1, <2>2 DEF SessionType
    <2>4. SessionType(y) /\ Active(y) = Active(x)
      BY <1>0, <2>1, <2>2 DEF SessionType, Active
    <2>5. Within(y, n) /\ Starts(y)
      BY <1>0, <2>1, <2>3, Zenon DEF Within, Starts
    <2>6. At(y, Idle)
      BY <1>0, <2>1, <2>3, <2>4, Zenon DEF At, Ready, failed
    <2>7. Stands(y, Idle, C)
      BY <1>0, <1>4, <2>1, <2>3, <2>4, Zenon DEF Stands
    <2> QED  BY <2>3, <2>4, <2>5, <2>6, <2>7, Zenon DEF Sound, Running, y
  <1> QED  BY <1>1, <1>2, <1>3, <1>4, Zenon

-----------------------------------------------------------------------------
(* The end of an attempt.                                                  *)

\* The session and its operation are left as Sound says.
Leaves(s, x, C, n) ==
    \E y, p : /\ ses' = [ses EXCEPT ![s] = y] /\ op' = [op EXCEPT ![s] = p]
              /\ Sound(y, p, C, n) /\ y.hist.id = x.hist.id /\ y.call.txns = x.call.txns

LEMMA RaiseLeaves ==
    ASSUME NEW s, op[s] # Idle, NEW x, NEW C, NEW n \in Nat, Running(x, op[s], C, n),
           NEW errors \in SUBSET Errors, Raise(s, errors, x),
           op[s].kind = "commit" => \A e \in errors : e.more = "transient" => x.hist.id \notin C
    PROVE  Leaves(s, x, C, n)
  <1>1. PICK e \in errors : ses' = [ses EXCEPT ![s] = Finished(op[s], x, Label(op[s], e))]
    BY Zenon DEF Raise
  <1>2. /\ Label(op[s], e) \in Outcomes \ {"ok"}
        /\ op[s].kind = "commit" /\ Label(op[s], e) = "transient" => e.more = "transient"
    BY <1>1, Zenon DEF Label, Errors, Outcomes
  <1> DEFINE y == Finished(op[s], x, Label(op[s], e))
  <1>3. Sound(y, Idle, C, n) /\ y.hist.id = x.hist.id /\ y.call.txns = x.call.txns
    BY <1>1, <1>2, FinishedSound
  <1>4. op' = [op EXCEPT ![s] = Idle]
    BY DEF Raise
  <1> QED  BY <1>1, <1>3, <1>4, Zenon DEF Leaves

\* The operation is tried again.
Again(o, attempts, max, overloaded, last) ==
    [o EXCEPT !.pc = "attempt", !.retrying = TRUE, !.attempts = attempts, !.max = max,
              !.overloaded = overloaded, !.last = last]

LEMMA AgainSound ==
    ASSUME NEW x, NEW o, o # Idle, NEW C, NEW n \in Nat, Running(x, o, C, n),
           ~Finishing(o) => Ready(x),
           NEW attempts, NEW max, NEW overloaded, NEW last \in SUBSET RetriedErrors
    PROVE  Sound(x, Again(o, attempts, max, overloaded, last), C, n)
  <1> DEFINE p == Again(o, attempts, max, overloaded, last)
  <1>1. OpType(o) /\ Belongs(x, o)
    BY DEF Running, Belongs
  <1>2. OpType(p) /\ p.pc = "attempt" /\ p.id = o.id /\ p.kind = o.kind /\ p.retryable = o.retryable
    BY <1>1, Zenon DEF OpType, Again
  <1> HIDE DEF p
  <1>3. p # Idle
    BY <1>2 DEF Idle
  <1>4. Belongs(x, p)
    BY <1>1, <1>2 DEF Belongs, Finishing
  <1>5. Stands(x, p, C)
    BY <1>2, <1>3, Zenon DEF Running, Stands
  <1>6. At(x, p)
    BY <1>2, <1>3 DEF At, Finishing
  <1> QED  BY <1>3, <1>4, <1>5, <1>6 DEF Running, Sound, p

LEMMA FailedLeaves ==
    ASSUME NEW s, op[s] # Idle, NEW x, NEW C, NEW n \in Nat, Running(x, op[s], C, n),
           NEW e \in Errors, Failed(s, e, x),
           op[s].kind = "commit" /\ e.more = "transient" => x.hist.id \notin C
    PROVE  Leaves(s, x, C, n)
  <1> DEFINE o == op[s]
             rw == e.rw /\ (e.conn => o.retryable)
             max == IF e.over THEN MaxAdaptive ELSE o.max
             z == IF rw \/ e.over THEN Unpin(x) ELSE x
             y == IF e.over /\ Active(x) THEN Reverted(z) ELSE z
             last == LastError(o, e)
  <1>1. SessionType(x) /\ Belongs(x, o) /\ o.last \subseteq RetriedErrors
    BY Zenon DEF Running, Belongs, OpType
  <1>2. \A r \in o.last : r \in Errors /\ r.more # "transient"
    BY <1>1 DEF RetriedErrors
  <1>3. last \subseteq o.last \cup {e}
    BY DEF LastError
  <1>4. Like(x, x) /\ Like(x, z) /\ (z.txn.state = x.txn.state)
    BY <1>1, UnpinLike, Zenon DEF Like
  <1>5. Like(x, y) /\ (e.over => Ready(y))
    <2>1. CASE e.over /\ Active(x)
      <3>1. Active(z) /\ SessionType(z)
        BY <1>4, <2>1, Zenon DEF Active, Like
      <3> QED  BY <1>4, <2>1, <3>1, RevertedLike, LikeTrans, Zenon
    <2>2. CASE ~(e.over /\ Active(x))
      BY <1>4, <2>2, Zenon DEF Ready, Active
    <2> QED  BY <2>1, <2>2, Zenon
  <1> HIDE DEF z, y, last
  <1>6. \A w : Like(x, w) => Running(w, o, C, n) /\ w.hist.id = x.hist.id /\ w.call.txns = x.call.txns
    BY LikeRunning, Zenon DEF Like
  <1>7. ASSUME NEW w, Like(x, w), NEW errors, errors \subseteq o.last \cup {e}, Raise(s, errors, w)
        PROVE  Leaves(s, x, C, n)
    <2>1. errors \in SUBSET Errors
      BY <1>2, <1>7
    <2>2. o.kind = "commit" => \A r \in errors : r.more = "transient" => w.hist.id \notin C
      BY <1>2, <1>6, <1>7
    <2>3. Leaves(s, w, C, n)
      BY <1>6, <1>7, <2>1, <2>2, RaiseLeaves, Zenon
    <2> QED  BY <1>6, <1>7, <2>3, Zenon DEF Leaves
  <1>8. CASE ~Finishing(o) /\ ~(o.retryable \/ e.over)
    <2>1. Raise(s, {e}, x)
      BY <1>8, Zenon DEF Failed, AlwaysRetryable
    <2> QED  BY <1>4, <1>7, <2>1
  <1>9. CASE ~(~Finishing(o) /\ ~(o.retryable \/ e.over)) /\ ~e.over /\ (~rw \/ NotEligible(o, max))
    <2>1. Raise(s, IF e.nwp /\ o.last # {} THEN last ELSE {e}, z)
      BY <1>9, Zenon DEF Failed, AlwaysRetryable, z, last
    <2> QED  BY <1>3, <1>4, <1>7, <2>1
  <1>10. CASE /\ ~(~Finishing(o) /\ ~(o.retryable \/ e.over)) /\ ~(~e.over /\ (~rw \/ NotEligible(o, max)))
              /\ e.over /\ o.attempts + 1 > MaxAdaptive
    <2>1. Raise(s, IF e.nwp THEN last ELSE {e}, y)
      BY <1>10, Zenon DEF Failed, AlwaysRetryable, z, y, last
    <2> QED  BY <1>3, <1>5, <1>7, <2>1
  <1>11. CASE /\ ~(~Finishing(o) /\ ~(o.retryable \/ e.over)) /\ ~(~e.over /\ (~rw \/ NotEligible(o, max)))
              /\ ~(e.over /\ o.attempts + 1 > MaxAdaptive)
    <2> DEFINE p == Again(o, o.attempts + 1, max, o.overloaded \/ e.over, last)
    <2>1. ses' = [ses EXCEPT ![s] = y]
      BY <1>11, Zenon DEF Failed, AlwaysRetryable, z, y
    <2>2. op' = [op EXCEPT ![s] = p]
      BY <1>11, Zenon DEF Failed, AlwaysRetryable, Again, last
    <2>3. e.over \/ e.rw
      BY <1>11
    <2>4. last \in SUBSET RetriedErrors
      BY <1>1, <1>3, <2>3 DEF RetriedErrors, Errors
    <2>5. ~Finishing(o) => Ready(y)
      BY <1>1, <1>5, <1>11, Zenon DEF Belongs, Like, Ready, Active
    <2>6. Sound(y, p, C, n)
      BY <1>5, <1>6, <2>4, <2>5, AgainSound, Zenon
    <2> QED  BY <1>5, <1>6, <2>1, <2>2, <2>6, Zenon DEF Leaves
  <1> QED  BY <1>8, <1>9, <1>10, <1>11, Zenon

-----------------------------------------------------------------------------
(* A step of one session, seen by the others.                              *)

LEMMA OthersSound ==
    ASSUME NEW x, NEW o, NEW C, NEW n \in Nat, Sound(x, o, C, n), NEW D, C \subseteq D,
           \A i \in D : i \in C \/ i \notin x.call.txns, NEW m \in Nat, n <= m
    PROVE  Sound(x, o, D, m)
  <1>1. Within(x, m)
    BY DEF Sound, Running, Within, SessionType
  <1>2. x.call.txns \cap D = x.call.txns \cap C
    OBVIOUS
  <1>3. Stands(x, o, D)
    BY <1>2, Zenon DEF Sound, Running, Stands
  <1> QED  BY <1>1, <1>3 DEF Sound, Running

\* The session s moves to y and its operation to p.
Moves(s, y, p) ==
    /\ ses' = [ses EXCEPT ![s] = y] /\ op' = [op EXCEPT ![s] = p]
    /\ Sound(y, p, committed', ops')
    /\ y.hist.id \in {0, ses[s].hist.id} \/ y.hist.id > ops
    /\ \A i \in y.call.txns : i \in ses[s].call.txns \/ i > ops

LEMMA Preserved ==
    ASSUME TransactionInv, NEW s \in Sessions, NEW y, NEW p, Moves(s, y, p), ops' \in Nat, ops <= ops',
           committed \subseteq committed',
           \A i \in committed' : i \in committed \/ (i = ses[s].hist.id /\ i # 0),
           msg' = [t \in Sessions |-> msg'[t]], StartExact'
    PROVE  TransactionInv'
  <1>1. /\ ses' = [t \in Sessions |-> ses'[t]] /\ op' = [t \in Sessions |-> op'[t]]
        /\ ses'[s] = y /\ op'[s] = p
        /\ \A t \in Sessions : t # s => ses'[t] = ses[t] /\ op'[t] = op[t]
    BY Zenon DEF TransactionInv, Moves
  <1>2. /\ ops \in Nat
        /\ \A t \in Sessions : SessionType(ses[t]) /\ Within(ses[t], ops) /\ Sound(ses[t], op[t], committed, ops)
        /\ \A t \in Sessions : ses[t].hist.id \in Nat /\ ses[t].call.txns \subseteq Nat
    BY Zenon DEF TransactionInv, Sound, Running, SessionType
  <1>3. \A i \in committed' : i \in Nat /\ 0 < i /\ i <= ops'
    BY <1>2 DEF TransactionInv, Within
  <1>4. SessionType(y) /\ Within(y, ops') /\ Sound(y, p, committed', ops')
    BY Zenon DEF Moves, Sound, Running
  <1>5. \A t \in Sessions : Sound(ses'[t], op'[t], committed', ops')
    <2> TAKE t \in Sessions
    <2>1. CASE t = s
      BY <1>1, <1>4, <2>1
    <2>2. CASE t # s
      <3>1. ses[s].hist.id \notin ses[t].call.txns
        BY <2>2 DEF TransactionInv
      <3>2. Sound(ses[t], op[t], committed', ops')
        BY <1>2, <3>1, OthersSound, Zenon
      <3> QED  BY <1>1, <2>2, <3>2
    <2> QED  BY <2>1, <2>2
  <1>6. ASSUME NEW t \in Sessions, t # s
        PROVE  y.hist.id \notin ses[t].call.txns /\ ses[t].hist.id \notin y.call.txns
    <2>1. ses[s].hist.id \notin ses[t].call.txns /\ ses[t].hist.id \notin ses[s].call.txns
      BY <1>6 DEF TransactionInv
    <2>2. /\ \A i \in ses[t].call.txns : i \in Nat /\ 0 < i /\ i <= ops
          /\ ses[t].hist.id \in Nat /\ ses[t].hist.id <= ops
          /\ y.hist.id \in Nat
      BY <1>2, <1>4, Zenon DEF Within, SessionType
    <2> QED  BY <1>2, <2>1, <2>2 DEF Moves
  <1>7. \A t, u \in Sessions : t # u => ses'[u].hist.id \notin ses'[t].call.txns
    <2> SUFFICES ASSUME NEW t \in Sessions, NEW u \in Sessions, t # u
                 PROVE  ses'[u].hist.id \notin ses'[t].call.txns
      OBVIOUS
    <2>1. CASE t = s
      BY <1>1, <1>6, <2>1, Zenon
    <2>2. CASE u = s
      BY <1>1, <1>6, <2>2
    <2>3. CASE t # s /\ u # s
      BY <1>1, <2>3, Zenon DEF TransactionInv
    <2> QED  BY <2>1, <2>2, <2>3, Zenon
  <1> QED  BY <1>1, <1>3, <1>5, <1>7, Zenon DEF TransactionInv

\* The same for a step that sends nothing and commits nothing.
LEMMA QuietPreserved ==
    ASSUME TransactionInv, NEW s \in Sessions, NEW y, NEW p, Moves(s, y, p), UNCHANGED <<msg, committed>>,
           ops' \in Nat, ops <= ops'
    PROVE  TransactionInv'
  <1>1. StartExact' /\ msg' = [t \in Sessions |-> msg'[t]]
    BY DEF TransactionInv, StartExact
  <1> QED  BY <1>1, Preserved

-----------------------------------------------------------------------------
(* Attempts.                                                               *)

LEMMA NotIdle ==
    ASSUME NEW o, o.pc # "idle"
    PROVE  o # Idle
  BY DEF Idle

LEMMA LeavesInv ==
    ASSUME TransactionInv, NEW s \in Sessions, NEW x, x.hist.id \in {0, ses[s].hist.id},
           x.call.txns = ses[s].call.txns, Leaves(s, x, committed', ops'), UNCHANGED <<ops, msg>>,
           committed \subseteq committed',
           \A i \in committed' : i \in committed \/ (i = ses[s].hist.id /\ i # 0)
    PROVE  TransactionInv'
  <1>1. PICK y, p : /\ ses' = [ses EXCEPT ![s] = y] /\ op' = [op EXCEPT ![s] = p]
                    /\ Sound(y, p, committed', ops') /\ y.hist.id = x.hist.id /\ y.call.txns = x.call.txns
    BY Zenon DEF Leaves
  <1>2. Moves(s, y, p)
    BY <1>1, Zenon DEF Moves
  <1>3. StartExact' /\ msg' = [t \in Sessions |-> msg'[t]] /\ ops' \in Nat /\ ops <= ops'
    BY DEF TransactionInv, StartExact
  <1> QED  BY <1>2, <1>3, Preserved, Zenon

\* What an attempt that fails before it has a connection makes of the session.
Unsent(x) == LET y == Selected(x) IN IF Active(y) THEN Unpin(y) ELSE y

LEMMA UnsentRunning ==
    ASSUME NEW x, NEW o, NEW C, NEW n \in Nat, Running(x, o, C, n), o # Idle
    PROVE  Running(Unsent(x), o, C, n) /\ Unsent(x).hist.id \in {0, x.hist.id} /\ Unsent(x).call.txns = x.call.txns
  <1> DEFINE y == Selected(x)
  <1>1. Running(y, o, C, n) /\ y.call = x.call /\ y.hist.id \in {0, x.hist.id} /\ SessionType(y)
    BY SelectedRunning DEF NoHistory, Running
  <1> HIDE DEF y
  <1>2. Like(y, Unpin(y))
    BY <1>1, UnpinLike
  <1>3. Running(Unpin(y), o, C, n) /\ Unpin(y).call = x.call /\ Unpin(y).hist.id \in {0, x.hist.id}
    BY <1>1, <1>2, LikeRunning, Zenon DEF Like
  <1> QED  BY <1>1, <1>3, Zenon DEF Unsent, y

LEMMA ErrorsMade ==
    /\ \A conn, rw, over, nwp \in BOOLEAN : Error(conn, rw, over, nwp) \in RetriedErrors
    /\ \A s : Refusals(s) \subseteq Errors
    /\ RetriedErrors \subseteq Errors /\ \A e \in RetriedErrors : e.more = "other"
  <1>1. \A conn, rw, over, nwp \in BOOLEAN : Error(conn, rw, over, nwp) \in RetriedErrors
    BY DEF Error, Errors, RetriedErrors, Outcomes
  <1>2. RetriedErrors \subseteq Errors /\ \A e \in RetriedErrors : e.more = "other"
    BY DEF RetriedErrors
  <1>3. \A s : Refusals(s) \subseteq Errors
    BY Zenon DEF Refusals, Errors, Outcomes
  <1> QED  BY <1>1, <1>2, <1>3, Zenon

LEMMA UnsentInv ==
    ASSUME TransactionInv, NEW s \in Sessions,
           SelectionFails(s) \/ TimeIsUp(s) \/ \E over \in BOOLEAN : ConnectFails(s, over)
    PROVE  TransactionInv'
  <1>1. op[s] # Idle /\ UNCHANGED <<ops, msg, committed>>
    BY NotIdle, Zenon DEF SelectionFails, TimeIsUp, ConnectFails
  <1>2. Running(ses[s], op[s], committed, ops) /\ ops \in Nat /\ op[s].last \subseteq RetriedErrors
    BY <1>1, Zenon DEF TransactionInv, Sound, Running, Belongs, OpType
  <1> DEFINE x == Unsent(ses[s])
  <1>3. Running(x, op[s], committed, ops) /\ x.hist.id \in {0, ses[s].hist.id} /\ x.call.txns = ses[s].call.txns
    BY <1>1, <1>2, UnsentRunning, Zenon
  <1> HIDE DEF x
  <1>4. CASE SelectionFails(s)
    <2> DEFINE errors == IF op[s].retrying THEN op[s].last ELSE {Error(TRUE, FALSE, FALSE, FALSE)}
    <2>1. errors \in SUBSET Errors /\ \A e \in errors : e.more # "transient"
      BY <1>2, ErrorsMade, Zenon
    <2>2. Raise(s, errors, x)
      BY <1>4, Zenon DEF SelectionFails, Unsent, x
    <2> HIDE DEF errors
    <2>3. Leaves(s, x, committed, ops)
      BY <1>1, <1>2, <1>3, <2>1, <2>2, RaiseLeaves, Zenon
    <2> QED  BY <1>1, <1>3, <2>3, LeavesInv
  <1>5. CASE TimeIsUp(s)
    <2>1. Raise(s, op[s].last, ses[s])
      BY <1>5 DEF TimeIsUp
    <2>2. op[s].last \in SUBSET Errors /\ \A e \in op[s].last : e.more # "transient"
      BY <1>2, ErrorsMade
    <2>3. Leaves(s, ses[s], committed, ops)
      BY <1>1, <1>2, <2>1, <2>2, RaiseLeaves, Zenon
    <2> QED  BY <1>1, <2>3, LeavesInv
  <1>6. ASSUME NEW over \in BOOLEAN, ConnectFails(s, over) PROVE TransactionInv'
    <2> DEFINE e == Error(TRUE, TRUE, over, FALSE)
    <2>1. Failed(s, e, x)
      BY <1>6, Zenon DEF ConnectFails, Unsent, x
    <2>2. e \in Errors /\ e.more # "transient"
      BY ErrorsMade, Zenon
    <2> HIDE DEF e
    <2>3. Leaves(s, x, committed, ops)
      BY <1>1, <1>2, <1>3, <2>1, <2>2, FailedLeaves, Zenon
    <2> QED  BY <1>1, <1>3, <2>3, LeavesInv
  <1> QED  BY <1>4, <1>5, <1>6

\* The server executes a commit, or another command.
LEMMA ExecuteRunning ==
    ASSUME NEW x, NEW o, NEW C, NEW n \in Nat, Running(x, o, C, n), o # Idle, o.kind = "commit"
    PROVE  Running(x, o, C \cup {o.id}, n) /\ o.id = x.hist.id /\ o.id # 0
  <1>1. Active(x) /\ o.id = x.hist.id /\ x.call.step \in {"none", "commit"}
    BY Zenon DEF Running, Belongs, Finishing, Stands
  <1>2. o.id # 0
    BY <1>1 DEF Running, Within, Active
  <1>3. Stands(x, o, C \cup {o.id})
    BY <1>1, Zenon DEF Running, Stands
  <1> QED  BY <1>1, <1>2, <1>3 DEF Running

LEMMA ReachedRunning ==
    ASSUME TransactionInv, NEW s \in Sessions, op[s] # Idle, NEW reached \in BOOLEAN, Reached(s, reached)
    PROVE  /\ Running(ses[s], op[s], committed', ops) /\ committed \subseteq committed'
           /\ \A i \in committed' : i \in committed \/ (i = ses[s].hist.id /\ i # 0)
           /\ op[s].kind = "commit" => op[s].id = ses[s].hist.id
           /\ ~reached => committed' = committed
           /\ reached /\ op[s].kind = "commit" => ses[s].hist.id \in committed'
  <1>1. Running(ses[s], op[s], committed, ops) /\ ops \in Nat
    BY DEF TransactionInv, Sound
  <1>2. \/ committed' = committed /\ (reached => op[s].kind # "commit")
        \/ op[s].kind = "commit" /\ committed' = committed \cup {op[s].id} /\ reached
    BY Zenon DEF Reached, Execute
  <1>3. op[s].kind = "commit" => /\ Running(ses[s], op[s], committed \cup {op[s].id}, ops)
                                 /\ op[s].id = ses[s].hist.id /\ op[s].id # 0
    BY <1>1, ExecuteRunning
  <1> QED  BY <1>1, <1>2, <1>3, Zenon

\* The reply is lost, or is an error.
LEMMA FailureInv ==
    ASSUME TransactionInv, NEW s \in Sessions,
           \/ \E reached \in BOOLEAN : ReplyLost(s, reached)
           \/ \E e \in Refusals(s), reached \in BOOLEAN : Refused(s, e, reached)
    PROVE  TransactionInv'
  <1> DEFINE z == ses[s]
             w == Tried(s, z)
  <1>1. op[s] # Idle /\ UNCHANGED <<ops, msg>>
    BY NotIdle, Zenon DEF ReplyLost, Refused
  <1>2. SessionType(z) /\ ops \in Nat /\ Like(z, z)
    BY DEF TransactionInv, Sound, Running, Like
  <1>3. Like(z, w) /\ SessionType(w)
    BY <1>2, TriedLike DEF Like
  <1> HIDE DEF w
  <1>4. Like(z, Unpin(z)) /\ Like(z, Unpin(w))
    BY <1>2, <1>3, UnpinLike, LikeTrans
  <1>5. ASSUME NEW reached \in BOOLEAN, Reached(s, reached), NEW x, Like(z, x), NEW e \in Errors,
               Failed(s, e, x), op[s].kind = "commit" /\ e.more = "transient" => ~reached /\ op[s].id \notin committed
        PROVE  TransactionInv'
    <2>1. /\ Running(z, op[s], committed', ops) /\ committed \subseteq committed'
          /\ \A i \in committed' : i \in committed \/ (i = z.hist.id /\ i # 0)
          /\ op[s].kind = "commit" => op[s].id = z.hist.id
          /\ ~reached => committed' = committed
      BY <1>1, <1>5, ReachedRunning, Zenon
    <2>2. Running(x, op[s], committed', ops) /\ x.hist.id = z.hist.id /\ x.call.txns = z.call.txns
      BY <1>2, <1>5, <2>1, LikeRunning, Zenon DEF Like
    <2>3. Leaves(s, x, committed', ops)
      BY <1>1, <1>2, <1>5, <2>1, <2>2, FailedLeaves, Zenon
    <2> QED  BY <1>1, <2>1, <2>2, <2>3, LeavesInv
  <1>6. ASSUME NEW reached \in BOOLEAN, ReplyLost(s, reached) PROVE TransactionInv'
    <2> DEFINE x == IF Active(z) THEN Unpin(w) ELSE z
               e == Error(TRUE, TRUE, FALSE, FALSE)
    <2>1. Reached(s, reached) /\ Failed(s, e, x)
      BY <1>6, Zenon DEF ReplyLost, w
    <2>2. Like(z, x) /\ e \in Errors /\ e.more # "transient"
      BY <1>2, <1>4, ErrorsMade, Zenon
    <2> HIDE DEF x, e
    <2> QED  BY <1>5, <2>1, <2>2
  <1>7. ASSUME NEW e \in Refusals(s), NEW reached \in BOOLEAN, Refused(s, e, reached) PROVE TransactionInv'
    <2> DEFINE y == IF e.over THEN z ELSE w
               x == IF e.rw \/ e.more = "transient" THEN Unpin(y) ELSE y
    <2>1. Reached(s, reached) /\ Failed(s, e, x) /\ MayRefuse(s, e, reached)
      BY <1>7, Zenon DEF Refused, w
    <2>2. Like(z, x) /\ e \in Errors
      BY <1>2, <1>3, <1>4, ErrorsMade
    <2> HIDE DEF x
    <2>3. op[s].kind = "commit" /\ e.more = "transient" => ~reached /\ op[s].id \notin committed
      BY <2>1 DEF MayRefuse
    <2> QED  BY <1>5, <2>1, <2>2, <2>3
  <1> QED  BY <1>6, <1>7

\* The command succeeds.
LEMMA SucceedsInv ==
    ASSUME TransactionInv, NEW s \in Sessions, Succeeds(s)
    PROVE  TransactionInv'
  <1> DEFINE z == ses[s]
             o == op[s]
             w == Tried(s, z)
             x == IF Active(z) THEN [w EXCEPT !.txn.completed = TRUE, !.hist.begun = TRUE] ELSE z
             y == Finished(o, x, "ok")
  <1>1. o # Idle /\ UNCHANGED <<ops, msg>> /\ ses' = [ses EXCEPT ![s] = y] /\ op' = [op EXCEPT ![s] = Idle]
    BY NotIdle DEF Succeeds
  <1>2. /\ Running(z, o, committed', ops) /\ committed \subseteq committed'
        /\ \A i \in committed' : i \in committed \/ (i = z.hist.id /\ i # 0)
        /\ o.kind = "commit" => z.hist.id \in committed'
    <2>1. Reached(s, TRUE)
      BY DEF Succeeds, Reached
    <2> QED  BY <1>1, <2>1, ReachedRunning, Zenon
  <1>3. Running(x, o, committed', ops) /\ x.hist.id = z.hist.id /\ x.call = z.call /\ (Active(x) => x.txn.completed)
    <2>1. CASE ~Active(z)
      BY <1>2, <2>1
    <2>2. CASE Active(z)
      <3>1. SessionType(z) /\ ops \in Nat /\ z.txn.state # "STARTING"
        BY <1>1, Zenon DEF TransactionInv, Sound, Running, At, Succeeds
      <3>2. Like(z, w) /\ w.txn.state = z.txn.state
        BY <3>1, TriedLike
      <3>3. Running(w, o, committed', ops) /\ Fields(w) /\ SessionType(w)
        BY <1>2, <3>1, <3>2, LikeRunning DEF Running, SessionType, Fields
      <3> HIDE DEF w
      <3> DEFINE v == [w EXCEPT !.txn.completed = TRUE, !.hist.begun = TRUE]
      <3>4. /\ v.call = w.call /\ v.txn = [w.txn EXCEPT !.completed = TRUE] /\ v.hist = [w.hist EXCEPT !.begun = TRUE]
            /\ v \in [srv : {v.srv}, started : {v.started}, txn : {v.txn}, hist : {v.hist}, call : {v.call}]
        BY <3>3, Zenon DEF Fields
      <3> HIDE DEF v
      <3>5. /\ v.txn.state = w.txn.state /\ v.txn.completed /\ v.hist.id = w.hist.id
            /\ v.hist.failed = w.hist.failed /\ v.hist.begun /\ v.txn.completed = TRUE /\ v.hist.begun = TRUE
        BY <3>3, <3>4 DEF SessionType
      <3>6. SessionType(v)
        BY <3>3, <3>4, Zenon DEF SessionType
      <3>7. (Active(v) <=> Active(w)) /\ (InCall(v) <=> InCall(w))
        BY <3>4, <3>5 DEF Active, InCall
      <3>8. Within(v, ops) /\ Starts(v)
        BY <3>1, <3>2, <3>3, <3>4, <3>5, Zenon DEF Running, Within, Starts
      <3>9. Stands(v, o, committed')
        BY <3>3, <3>4, <3>5, <3>7 DEF Running, Stands
      <3>10. Belongs(v, o)
        BY <1>1, <3>3, <3>4, <3>5, <3>7, Zenon DEF Running, Belongs
      <3>11. Running(v, o, committed', ops)
        BY <3>6, <3>8, <3>9, <3>10 DEF Running
      <3>12. x = v
        BY <2>2 DEF v
      <3> QED  BY <3>2, <3>4, <3>5, <3>11, <3>12, Zenon DEF Like
    <2> QED  BY <2>1, <2>2, Zenon
  <1> HIDE DEF x
  <1>4. Sound(y, Idle, committed', ops) /\ y.hist.id = z.hist.id /\ y.call.txns = z.call.txns
    <2>1. ops \in Nat /\ "ok" \in Outcomes
      BY DEF TransactionInv, Outcomes
    <2> QED  BY <1>1, <1>2, <1>3, <2>1, FinishedSound
  <1> HIDE DEF y
  <1>5. Leaves(s, z, committed', ops')
    BY <1>1, <1>4, Zenon DEF Leaves
  <1> QED  BY <1>1, <1>2, <1>5, LeavesInv

\* The reply to a command of a bulk write.
LEMMA BulkSucceedsInv ==
    ASSUME TransactionInv, NEW s \in Sessions, BulkSucceeds(s)
    PROVE  TransactionInv'
  <1> DEFINE z == ses[s]
             o == op[s]
  <1>1. o # Idle /\ o.kind = "bulk" /\ UNCHANGED <<ops, msg, ses, committed>>
    BY NotIdle, Zenon DEF BulkSucceeds, Execute
  <1>2. Running(z, o, committed, ops) /\ ops \in Nat /\ ses = [ses EXCEPT ![s] = z]
    BY DEF TransactionInv, Sound
  <1>3. Belongs(z, o) /\ OpType(o) /\ ~Active(z) /\ ~Finishing(o) /\ ~InCall(z)
    BY <1>1, <1>2, Zenon DEF Running, Belongs
  <1>4. ASSUME NEW p, p = Idle \/ (p # Idle /\ Belongs(z, p) /\ p.kind = "bulk"), op' = [op EXCEPT ![s] = p]
        PROVE  TransactionInv'
    <2>1. Stands(z, p, committed)
      BY <1>1, <1>2, <1>3, <1>4, Zenon DEF Running, Stands, InCall, SessionType, Steps
    <2>2. At(z, p)
      BY <1>3, Zenon DEF At, Ready, Active
    <2>3. Sound(z, p, committed, ops)
      BY <1>2, <1>4, <2>1, <2>2 DEF Running, Sound
    <2>4. Leaves(s, z, committed', ops')
      BY <1>1, <1>2, <1>4, <2>3, Zenon DEF Leaves
    <2> QED  BY <1>1, <2>4, LeavesInv
  <1>5. CASE Completed(Replied(o.bulk))
    BY <1>4, <1>5, Zenon DEF BulkSucceeds
  <1>6. CASE ~Completed(Replied(o.bulk))
    <2> DEFINE b == Replied(o.bulk)
    <2> HIDE DEF b
    <2> DEFINE p == [o EXCEPT !.pc = "more", !.bulk = b, !.retrying = FALSE]
    <2>1. op' = [op EXCEPT ![s] = p]
      BY <1>6 DEF BulkSucceeds, b
    <2>2. OpType(p) /\ p.pc = "more" /\ p.id = o.id /\ p.kind = o.kind /\ p.retryable = o.retryable
      BY <1>3, Zenon DEF OpType
    <2> HIDE DEF p
    <2>3. Belongs(z, p) /\ p # Idle
      BY <1>1, <1>3, <2>2, NotIdle, Zenon DEF Belongs, Finishing
    <2> QED  BY <1>1, <1>4, <2>1, <2>2, <2>3, Zenon
  <1> QED  BY <1>5, <1>6

\* The operation once its command is sent.
LEMMA EnteringBelongs ==
    ASSUME NEW x, NEW o, Belongs(x, o)
    PROVE  LET p == Entering(o) IN
           Belongs(x, p) /\ p # Idle /\ p.pc = "sent" /\ p.kind = o.kind
  <1> DEFINE p == Entering(o)
  <1>1. OpType(o)
    BY DEF Belongs
  <1>2. OpType(p) /\ p.pc = "sent" /\ p.id = o.id /\ p.kind = o.kind /\ p.retryable = o.retryable
    <2>1. CASE o.kind # "bulk"
      BY <1>1, <2>1, Zenon DEF Entering, OpType
    <2>2. CASE o.kind = "bulk"
      <3> DEFINE b == [IF o.pc = "attempt" THEN Entered(o.bulk, o.retrying) ELSE o.bulk
                         EXCEPT !.started = o.retryable]
      <3>1. p = [[o EXCEPT !.pc = "sent"] EXCEPT !.bulk = b]
        BY <1>1, <2>2, Zenon DEF Entering, OpType
      <3> HIDE DEF b, p
      <3> QED  BY <1>1, <3>1, Zenon DEF OpType
    <2> QED  BY <2>1, <2>2
  <1> HIDE DEF p
  <1> QED  BY <1>2, NotIdle DEF Belongs, Finishing, p

\* The session once the command is sent.
Sent(x, lsid, pinned, state, attempt) ==
    [x EXCEPT !.srv = lsid, !.started = FALSE, !.txn.pinned = pinned, !.txn.state = state,
              !.txn.attempt = attempt]

LEMMA SentFields ==
    ASSUME NEW x, SessionType(x), NEW lsid, NEW pinned, NEW state \in TransactionStates, NEW attempt \in Nat
    PROVE  LET y == Sent(x, lsid, pinned, state, attempt) IN
           /\ SessionType(y) /\ y.hist = x.hist /\ y.call = x.call
           /\ y.txn.state = state /\ y.txn.completed = x.txn.completed
  <1> DEFINE y == Sent(x, lsid, pinned, state, attempt)
             v == [x.txn EXCEPT !.pinned = pinned, !.state = state, !.attempt = attempt]
  <1>1. Fields(x)
    BY DEF SessionType, Fields
  <1>2. /\ y \in [srv : {y.srv}, started : {y.started}, txn : {y.txn}, hist : {y.hist}, call : {y.call}]
        /\ y.hist = x.hist /\ y.call = x.call /\ y.txn = v
    BY <1>1, Zenon DEF Sent, Fields
  <1>3. /\ v \in [state : {state}, attempt : {attempt}, completed : {x.txn.completed}, pinned : {v.pinned}]
        /\ v.state = state /\ v.completed = x.txn.completed
    BY <1>1, Zenon DEF Fields
  <1> HIDE DEF y, v
  <1>4. SessionType(y)
    <2>1. /\ x.call \in [step : Steps, txns : SUBSET Nat, last : Outcomes]
          /\ x.hist \in [id : Nat, failed : BOOLEAN, begun : BOOLEAN, commits : Nat]
          /\ x.txn.completed \in BOOLEAN
      BY DEF SessionType
    <2>2. v \in [state : TransactionStates, attempt : Nat, completed : BOOLEAN, pinned : {v.pinned}]
      BY <1>3, <2>1
    <2> QED  BY <1>2, <2>1, <2>2, Zenon DEF SessionType
  <1> QED  BY <1>2, <1>3, <1>4 DEF y

LEMMA SendInv ==
    ASSUME TransactionInv, NEW s \in Sessions, NEW m \in Mongos, Send(s, m)
    PROVE  TransactionInv'
  <1> DEFINE o == op[s]
             x == Selected(ses[s])
             start == x.txn.state = "STARTING"
             state == IF start THEN "IN_PROGRESS" ELSE x.txn.state
             attempt == IF Finishing(o) THEN x.txn.attempt + 1 ELSE x.txn.attempt
             pinned == IF Active(x) /\ Sharded THEN m ELSE x.txn.pinned
             y == Sent(x, Materialized(s), pinned, state, attempt)
             p == Entering(o)
             c == [kind |-> o.kind, txn |-> Active(x), start |-> start, begun |-> x.hist.begun,
                   majority |-> o.kind = "commit" /\ x.txn.attempt > 0, mongos |-> m]
  <1>1. o # Idle /\ o.pc \in {"attempt", "more"} /\ UNCHANGED <<ops, committed>>
    BY NotIdle, Zenon DEF Send
  <1>2. /\ ops \in Nat /\ Running(ses[s], o, committed, ops) /\ At(ses[s], o)
    BY DEF TransactionInv, Sound
  <1>3. /\ Running(x, o, committed, ops) /\ x.call = ses[s].call /\ (Active(x) <=> Active(ses[s]))
        /\ IF Active(ses[s]) THEN x = ses[s] ELSE x.hist = NoHistory /\ x.txn = NoTransaction
    BY <1>1, <1>2, SelectedRunning, Zenon
  <1>4. ses' = [ses EXCEPT ![s] = y]
    BY Zenon DEF Send, Sent
  <1>5. op' = [op EXCEPT ![s] = p]
    BY Zenon DEF Send
  <1>6. msg' = [msg EXCEPT ![s] = c]
    BY Zenon DEF Send
  <1>7. /\ c.kind = o.kind /\ (c.txn <=> Active(x)) /\ (c.start <=> start) /\ c.begun = x.hist.begun
    BY Zenon
  <1> HIDE DEF c, x
  <1>8. SessionType(x) /\ Within(x, ops) /\ Starts(x) /\ Stands(x, o, committed) /\ Belongs(x, o)
    BY <1>1, <1>3 DEF Running
  <1>9. state \in TransactionStates /\ attempt \in Nat
    BY <1>8 DEF SessionType, TransactionStates
  <1> HIDE DEF attempt, pinned, start
  <1>10. /\ SessionType(y) /\ y.hist = x.hist /\ y.call = x.call
         /\ y.txn.state = state /\ y.txn.completed = x.txn.completed
    BY <1>8, <1>9, SentFields
  <1> HIDE DEF y
  <1>11. Belongs(x, p) /\ p # Idle /\ p.pc = "sent" /\ p.kind = o.kind
    BY <1>8, EnteringBelongs
  <1> HIDE DEF p
  <1>12. y.txn.state # "STARTING" /\ (Active(y) <=> Active(x)) /\ (InCall(y) <=> InCall(x))
    BY <1>10 DEF Active, InCall, start
  <1>13. Within(y, ops) /\ Starts(y) /\ At(y, p)
    BY <1>8, <1>10, <1>11, <1>12, Zenon DEF Within, Starts, At, start
  <1>14. Stands(y, p, committed)
    BY <1>1, <1>8, <1>10, <1>11, <1>12, Zenon DEF Stands, start
  <1>15. Belongs(y, p)
    BY <1>10, <1>11, <1>12 DEF Belongs
  <1>16. Sound(y, p, committed, ops)
    BY <1>10, <1>13, <1>14, <1>15 DEF Sound, Running
  <1>17. Moves(s, y, p)
    BY <1>1, <1>3, <1>4, <1>5, <1>10, <1>16 DEF Moves, NoHistory
  <1>18. msg' = [t \in Sessions |-> msg'[t]] /\ msg'[s] = c /\ \A t \in Sessions : t # s => msg'[t] = msg[t]
    BY <1>6, Zenon DEF TransactionInv
  <1>19. c.kind \in {"write", "many"} /\ c.txn => c.start = ~c.begun
    <2> SUFFICES ASSUME o.kind \in {"write", "many"}, Active(x) PROVE c.start = ~c.begun
      BY <1>7
    <2>1. o.pc = "attempt" /\ ~Finishing(o) /\ ~x.hist.failed /\ x = ses[s]
      BY <1>1, <1>3, <1>8, Zenon DEF Belongs, Finishing
    <2>2. x.txn.completed \/ x.txn.state = "STARTING"
      BY <1>2, <2>1, Zenon DEF At, Ready
    <2>3. (x.txn.state = "STARTING") <=> ~x.hist.begun
      BY <1>8, <2>2 DEF Starts, SessionType
    <2>4. x.hist.begun \in BOOLEAN /\ c.start \in BOOLEAN
      BY <1>8 DEF SessionType, c, start
    <2> QED  BY <1>7, <2>3, <2>4 DEF start
  <1>20. StartExact'
    BY <1>18, <1>19 DEF TransactionInv, StartExact
  <1> QED  BY <1>1, <1>2, <1>17, <1>18, <1>20, Preserved

-----------------------------------------------------------------------------
(* What the application does.                                              *)

\* An operation begins.
MayRun(x, id, kind, retryable) ==
    /\ id \in Nat /\ kind \in {"write", "many", "bulk", "commit", "abort"} /\ retryable \in BOOLEAN
    /\ IF Active(x) THEN /\ kind # "bulk" /\ id = x.hist.id
                         /\ kind \notin {"commit", "abort"} => ~retryable /\ ~x.hist.failed
       ELSE kind \notin {"commit", "abort"} /\ ~InCall(x)
    /\ kind \notin {"commit", "abort"} => Ready(x)
    /\ x.call.step # "decide" /\ (x.call.step = "commit" => kind = "commit")
    /\ kind = "commit" => x.call.step \in {"none", "commit"}

LEMMA RunSound ==
    ASSUME NEW s, NEW id, NEW kind, NEW retryable, NEW bulk, Run(s, id, kind, retryable, bulk),
           NEW x, NEW C, NEW n \in Nat, Running(x, Idle, C, n), MayRun(x, id, kind, retryable)
    PROVE  \E p : op' = [op EXCEPT ![s] = p] /\ Sound(x, p, C, n)
  <1>1. PICK csot \in Timeouts :
          op' = [op EXCEPT ![s] = [pc |-> "attempt", id |-> id, kind |-> kind, retryable |-> retryable,
                                   retrying |-> FALSE, attempts |-> 0, max |-> 1, csot |-> csot,
                                   overloaded |-> FALSE, last |-> {}, bulk |-> bulk]]
    BY Zenon DEF Run
  <1> DEFINE p == [pc |-> "attempt", id |-> id, kind |-> kind, retryable |-> retryable,
                   retrying |-> FALSE, attempts |-> 0, max |-> 1, csot |-> csot,
                   overloaded |-> FALSE, last |-> {}, bulk |-> bulk]
  <1>2. OpType(p) /\ p.pc = "attempt" /\ p.id = id /\ p.kind = kind /\ p.retryable = retryable
    BY Zenon DEF OpType, MayRun
  <1>3. op' = [op EXCEPT ![s] = p]
    BY <1>1, Zenon
  <1> HIDE DEF p
  <1>4. Belongs(x, p) /\ p # Idle
    BY <1>2, NotIdle DEF Belongs, Finishing, MayRun
  <1>5. At(x, p)
    BY <1>2, <1>4 DEF At, Finishing, MayRun
  <1>6. Stands(x, p, C)
    BY <1>2, <1>4, Zenon DEF Running, Stands, MayRun
  <1>7. Sound(x, p, C, n)
    BY <1>4, <1>5, <1>6 DEF Sound, Running
  <1> QED  BY <1>3, <1>7, Zenon

LEMMA StartedLike ==
    ASSUME NEW x, SessionType(x)
    PROVE  LET y == [x EXCEPT !.started = TRUE] IN Like(x, y) /\ y.txn = x.txn
  <1>1. LET y == [x EXCEPT !.started = TRUE] IN
        SessionType(y) /\ y.txn = x.txn /\ y.call = x.call /\ y.hist = x.hist
    BY Zenon DEF SessionType
  <1> QED  BY <1>1 DEF Like

LEMMA StartedSound ==
    ASSUME NEW x, NEW C, NEW n \in Nat, Sound(x, Idle, C, n), NEW s, StartRetryableWrite(s, x)
    PROVE  \E y : /\ ses' = [ses EXCEPT ![s] = y] /\ Like(x, y) /\ y.txn = x.txn /\ Sound(y, Idle, C, n)
  <1> DEFINE z == [x EXCEPT !.started = TRUE]
  <1>1. SessionType(x)
    BY DEF Sound, Running
  <1>2. Like(x, x) /\ Like(x, z) /\ z.txn = x.txn
    BY <1>1, StartedLike DEF Like
  <1>3. ses' = [ses EXCEPT ![s] = x] \/ ses' = [ses EXCEPT ![s] = z]
    BY DEF StartRetryableWrite
  <1> HIDE DEF z
  <1>4. Running(z, Idle, C, n)
    BY <1>2, LikeRunning DEF Sound
  <1>5. At(z, Idle)
    BY <1>2 DEF Sound, At, Ready, Active, Like
  <1> QED  BY <1>2, <1>3, <1>4, <1>5 DEF Sound

LEMMA WriteInv ==
    ASSUME TransactionInv, NEW s \in Sessions,
           \/ \E kind \in Kinds \cap {"write", "many"} : Write(s, kind)
           \/ \E r \in Requests : BulkWrite(s, r)
    PROVE  TransactionInv'
  <1> DEFINE x == ses[s]
  <1>1. /\ op[s] = Idle /\ UNCHANGED <<msg, committed>>
    BY Zenon DEF Write, BulkWrite, CanRun, History
  <1>2. Sound(x, Idle, committed, ops) /\ ops \in Nat /\ ses = [ses EXCEPT ![s] = x] /\ SessionType(x)
    BY <1>1, Zenon DEF TransactionInv, Sound, Running
  <1>3. Like(x, x)
    BY <1>2 DEF Like
  <1>4. ASSUME NEW y, NEW p, ses' = [ses EXCEPT ![s] = y], op' = [op EXCEPT ![s] = p], Like(x, y),
               Sound(y, p, committed, ops), ops' \in {ops, ops + 1}
        PROVE  TransactionInv'
    <2>1. ops' \in Nat /\ ops <= ops'
      BY <1>2, <1>4
    <2>2. Sound(y, p, committed', ops')
      BY <1>1, <1>2, <1>4, <2>1, OthersSound
    <2>3. Moves(s, y, p)
      BY <1>4, <2>2, Zenon DEF Moves, Like
    <2> QED  BY <1>1, <2>1, <2>3, QuietPreserved
  <1>5. ASSUME NEW kind \in Kinds \cap {"write", "many"}, Write(s, kind) PROVE TransactionInv'
    <2> DEFINE retryable == kind = "write" /\ ~Active(x)
               new == ~Active(x)
               id == IF new THEN ops + 1 ELSE x.hist.id
    <2>1. /\ ~x.hist.failed /\ x.call.step \notin {"commit", "decide", "abort"} /\ (InCall(x) => Active(x))
          /\ ops' = (IF new THEN ops + 1 ELSE ops) /\ Run(s, id, kind, retryable, NoBulk)
          /\ IF retryable THEN StartRetryableWrite(s, x) ELSE UNCHANGED <<srv, ses>>
      BY <1>5, Zenon DEF Write
    <2>2. id \in Nat /\ retryable \in BOOLEAN
      BY <1>2 DEF SessionType, Active
    <2>3. PICK y : ses' = [ses EXCEPT ![s] = y] /\ Like(x, y) /\ y.txn = x.txn /\ Sound(y, Idle, committed, ops)
      BY <1>2, <1>3, <2>1, StartedSound, Zenon
    <2>4. /\ (Active(y) <=> Active(x)) /\ (InCall(y) <=> InCall(x)) /\ y.hist.id = x.hist.id
          /\ ~y.hist.failed /\ y.call.step = x.call.step /\ Running(y, Idle, committed, ops) /\ Ready(y)
      BY <2>1, <2>3, Zenon DEF Like, Active, InCall, Sound, At
    <2>5. \E p : op' = [op EXCEPT ![s] = p] /\ Sound(y, p, committed, ops)
      <3> HIDE DEF id, retryable
      <3>1. ~Active(y) \/ (id = y.hist.id /\ ~retryable)
        BY <2>4 DEF id, retryable
      <3>2. ~Active(y) => ~InCall(y)
        BY <2>1, <2>4, Zenon
      <3>3. kind \in {"write", "many"}
        BY <1>5
      <3>4. Run(s, id, kind, retryable, NoBulk) /\ y.call.step \notin {"commit", "decide"}
        BY <2>1, <2>4, Zenon
      <3>5. MayRun(y, id, kind, retryable)
        BY <2>2, <2>4, <3>1, <3>2, <3>3, <3>4, Zenon DEF MayRun
      <3> QED  BY <1>2, <2>4, <3>4, <3>5, RunSound, Zenon
    <2> QED  BY <1>4, <2>1, <2>3, <2>5, Zenon
  <1>6. ASSUME NEW r \in Requests, BulkWrite(s, r) PROVE TransactionInv'
    <2> DEFINE bulk == [NewBulk(r) EXCEPT !.started = r.retryable]
    <2>1. /\ ~Active(x) /\ ~InCall(x) /\ ops' = ops + 1 /\ Run(s, ops + 1, "bulk", r.retryable, bulk)
          /\ IF r.retryable THEN StartRetryableWrite(s, x) ELSE UNCHANGED <<srv, ses>>
      BY <1>6 DEF BulkWrite
    <2> HIDE DEF bulk
    <2>2. r.retryable \in BOOLEAN /\ ops + 1 \in Nat
      BY <1>2, <1>6, SessionAssumption
    <2>3. PICK y : ses' = [ses EXCEPT ![s] = y] /\ Like(x, y) /\ y.txn = x.txn /\ Sound(y, Idle, committed, ops)
      BY <1>2, <1>3, <2>1, StartedSound, Zenon
    <2>4. ~Active(y) /\ ~InCall(y) /\ Running(y, Idle, committed, ops) /\ Ready(y)
          /\ y.call.step \notin {"commit", "decide"}
      BY <2>1, <2>3, Zenon DEF Like, Active, InCall, Sound, Ready
    <2>5. \E p : op' = [op EXCEPT ![s] = p] /\ Sound(y, p, committed, ops)
      <3>1. Run(s, ops + 1, "bulk", r.retryable, bulk)
        BY <2>1
      <3>2. MayRun(y, ops + 1, "bulk", r.retryable)
        BY <2>2, <2>4 DEF MayRun
      <3> QED  BY <1>2, <2>4, <3>1, <3>2, RunSound, Zenon
    <2> QED  BY <1>4, <2>1, <2>3, <2>5, Zenon
  <1> QED  BY <1>5, <1>6

\* y is x with what a step of the application changes.
Changed(x, y, state, step, last) ==
    /\ SessionType(y) /\ y.hist = x.hist /\ y.txn.state = state /\ y.txn.completed = x.txn.completed
    /\ y.call.step = step /\ y.call.last = last /\ y.call.txns = x.call.txns

LEMMA ChangedBy ==
    ASSUME NEW x, SessionType(x), NEW state \in TransactionStates, NEW step \in Steps, NEW last \in Outcomes
    PROVE  /\ Changed(x, [x EXCEPT !.txn.state = state, !.call.step = step], state, step, x.call.last)
           /\ Changed(x, [x EXCEPT !.txn.state = state], state, x.call.step, x.call.last)
           /\ Changed(x, [x EXCEPT !.call.step = step, !.call.last = last], x.txn.state, step, last)
  <1>1. Fields(x)
    BY DEF SessionType, Fields
  <1>2. /\ x.txn \in [state : TransactionStates, attempt : Nat, completed : BOOLEAN, pinned : {x.txn.pinned}]
        /\ x.hist \in [id : Nat, failed : BOOLEAN, begun : BOOLEAN, commits : Nat]
        /\ x.call \in [step : Steps, txns : SUBSET Nat, last : Outcomes]
    BY DEF SessionType
  <1> DEFINE v == [x.txn EXCEPT !.state = state]
             c == [x.call EXCEPT !.step = step]
             d == [c EXCEPT !.last = last]
  <1>3. /\ v \in [state : TransactionStates, attempt : Nat, completed : BOOLEAN, pinned : {v.pinned}]
        /\ v.state = state /\ v.completed = x.txn.completed
    BY <1>2
  <1>4. /\ c \in [step : Steps, txns : SUBSET Nat, last : Outcomes]
        /\ c.step = step /\ c.txns = x.call.txns /\ c.last = x.call.last
    BY <1>2
  <1>5. /\ d \in [step : Steps, txns : SUBSET Nat, last : Outcomes]
        /\ d.step = step /\ d.txns = x.call.txns /\ d.last = last
    <2> HIDE DEF c
    <2> QED  BY <1>4
  <1>6. ASSUME NEW y, y.hist = x.hist, y.txn \in {v, x.txn}, y.call \in {x.call, c, d},
               y \in [srv : {y.srv}, started : {y.started}, txn : {y.txn}, hist : {y.hist}, call : {y.call}]
        PROVE  SessionType(y)
    <2> HIDE DEF v, c, d
    <2>1. y.txn \in [state : TransactionStates, attempt : Nat, completed : BOOLEAN, pinned : {y.txn.pinned}]
      BY <1>2, <1>3, <1>6
    <2>2. y.call \in [step : Steps, txns : SUBSET Nat, last : Outcomes]
      BY <1>2, <1>4, <1>5, <1>6
    <2> QED  BY <1>2, <1>6, <2>1, <2>2, Zenon DEF SessionType
  <1>7. LET y == [x EXCEPT !.txn.state = state, !.call.step = step] IN
        /\ y \in [srv : {y.srv}, started : {y.started}, txn : {y.txn}, hist : {y.hist}, call : {y.call}]
        /\ y.hist = x.hist /\ y.txn = v /\ y.call = c
    BY <1>1, Zenon DEF Fields
  <1>8. LET y == [x EXCEPT !.txn.state = state] IN
        /\ y \in [srv : {y.srv}, started : {y.started}, txn : {y.txn}, hist : {y.hist}, call : {y.call}]
        /\ y.hist = x.hist /\ y.txn = v /\ y.call = x.call
    BY <1>1, Zenon DEF Fields
  <1>9. LET y == [x EXCEPT !.call.step = step, !.call.last = last] IN
        /\ y \in [srv : {y.srv}, started : {y.started}, txn : {y.txn}, hist : {y.hist}, call : {y.call}]
        /\ y.hist = x.hist /\ y.txn = x.txn /\ y.call = d
    BY <1>1, Zenon DEF Fields
  <1> HIDE DEF v, c, d
  <1> QED  BY <1>3, <1>4, <1>5, <1>6, <1>7, <1>8, <1>9, Zenon DEF Changed

LEMMA ChangedSession ==
    ASSUME NEW s \in Sessions, ses = [t \in Sessions |-> ses[t]], SessionType(ses[s]),
           NEW state \in TransactionStates, NEW step \in Steps, NEW last \in Outcomes
    PROVE  LET x == ses[s] IN
           /\ ses' = [ses EXCEPT ![s].txn.state = state, ![s].call.step = step]
                => \E y : ses' = [ses EXCEPT ![s] = y] /\ Changed(x, y, state, step, x.call.last)
           /\ ses' = [ses EXCEPT ![s].txn.state = state]
                => \E y : ses' = [ses EXCEPT ![s] = y] /\ Changed(x, y, state, x.call.step, x.call.last)
           /\ ses' = [ses EXCEPT ![s].call.step = step, ![s].call.last = last]
                => \E y : ses' = [ses EXCEPT ![s] = y] /\ Changed(x, y, x.txn.state, step, last)
  <1> DEFINE x == ses[s]
  <1>1. /\ Changed(x, [x EXCEPT !.txn.state = state, !.call.step = step], state, step, x.call.last)
        /\ Changed(x, [x EXCEPT !.txn.state = state], state, x.call.step, x.call.last)
        /\ Changed(x, [x EXCEPT !.call.step = step, !.call.last = last], x.txn.state, step, last)
    BY ChangedBy, Zenon
  <1>2. /\ [ses EXCEPT ![s].txn.state = state, ![s].call.step = step]
             = [ses EXCEPT ![s] = [x EXCEPT !.txn.state = state, !.call.step = step]]
        /\ [ses EXCEPT ![s].txn.state = state] = [ses EXCEPT ![s] = [x EXCEPT !.txn.state = state]]
        /\ [ses EXCEPT ![s].call.step = step, ![s].call.last = last]
             = [ses EXCEPT ![s] = [x EXCEPT !.call.step = step, !.call.last = last]]
    BY Zenon
  <1> QED  BY <1>1, <1>2, Zenon

LEMMA ChangedInv ==
    ASSUME TransactionInv, NEW s \in Sessions, NEW y, NEW p, NEW state, NEW step, NEW last,
           ses' = [ses EXCEPT ![s] = y], op' = [op EXCEPT ![s] = p],
           Changed(ses[s], y, state, step, last), Sound(y, p, committed, ops),
           UNCHANGED <<msg, committed, ops>>
    PROVE  TransactionInv'
  <1>1. Moves(s, y, p)
    BY Zenon DEF Moves, Changed
  <1>2. ops' \in Nat /\ ops <= ops'
    BY DEF TransactionInv
  <1> QED  BY <1>1, <1>2, QuietPreserved

LEMMA ChangedRunning ==
    ASSUME NEW x, NEW C, NEW n \in Nat, Running(x, Idle, C, n), NEW y, NEW state, NEW step, NEW last,
           Changed(x, y, state, step, last), state = x.txn.state \/ (x.txn.state # "NONE" /\ state # "STARTING"),
           Stands(y, Idle, C)
    PROVE  Running(y, Idle, C, n)
  <1>1. Within(y, n) /\ Starts(y) /\ SessionType(y)
    BY DEF Running, Within, Starts, Changed
  <1> QED  BY <1>1 DEF Running

LEMMA ChangedSound ==
    ASSUME NEW x, NEW C, NEW n \in Nat, Sound(x, Idle, C, n), NEW y, NEW state, NEW step, NEW last,
           Changed(x, y, state, step, last), state = x.txn.state \/ (x.txn.state # "NONE" /\ ~Active(y)),
           Stands(y, Idle, C)
    PROVE  Sound(y, Idle, C, n)
  <1>1. Running(y, Idle, C, n)
    <2>1. state = x.txn.state \/ (x.txn.state # "NONE" /\ state # "STARTING")
      BY DEF Active, Changed
    <2> QED  BY <2>1, ChangedRunning DEF Sound
  <1>2. At(y, Idle)
    BY DEF Sound, At, Ready, Active, Changed
  <1> QED  BY <1>1, <1>2 DEF Sound

\* The session and its operation, when it has none.
LEMMA IdleSession ==
    ASSUME TransactionInv, NEW s \in Sessions, op[s] = Idle
    PROVE  /\ Sound(ses[s], Idle, committed, ops) /\ ops \in Nat /\ SessionType(ses[s])
           /\ Stands(ses[s], Idle, committed) /\ ses = [t \in Sessions |-> ses[t]]
           /\ op = [op EXCEPT ![s] = Idle] /\ ses = [ses EXCEPT ![s] = ses[s]]
           /\ ses[s].txn.state \in TransactionStates /\ ses[s].call.step \in Steps
           /\ ses[s].call.last \in Outcomes /\ ses[s].hist.failed \in BOOLEAN
  BY Zenon DEF TransactionInv, Sound, Running, SessionType

LEMMA DecidesIdle ==
    ASSUME TransactionInv, NEW s \in Sessions, ses[s].call.step = "decide"
    PROVE  op[s] = Idle
  BY Zenon DEF TransactionInv, Sound, Running, Stands

\* with_transaction goes on, returns or raises.
LEMMA StepInv ==
    ASSUME TransactionInv, NEW s \in Sessions,
           CallbackReturns(s) \/ CallbackRaises(s) \/ Return(s) \/ CommitAgain(s) \/ RaiseError(s)
    PROVE  TransactionInv'
  <1> DEFINE x == ses[s]
  <1>1. op[s] = Idle
    BY DecidesIdle, Zenon DEF CallbackReturns, CallbackRaises, Return, CommitAgain, RaiseError, CanRun
  <1>2. /\ Sound(x, Idle, committed, ops) /\ ops \in Nat /\ SessionType(x)
        /\ Stands(x, Idle, committed) /\ ses = [t \in Sessions |-> ses[t]] /\ op = [op EXCEPT ![s] = Idle]
        /\ x.txn.state \in TransactionStates /\ x.call.step \in Steps
        /\ x.call.last \in Outcomes /\ x.hist.failed \in BOOLEAN
    BY <1>1, IdleSession, Zenon
  <1>3. ASSUME NEW step \in Steps, NEW last \in Outcomes, Step(s, step, last),
               \A y : Changed(x, y, x.txn.state, step, last) => Stands(y, Idle, committed)
        PROVE  TransactionInv'
    <2>1. ses' = [ses EXCEPT ![s].call.step = step, ![s].call.last = last] /\ UNCHANGED <<op, msg, committed, ops>>
      BY <1>3, Zenon DEF Step, History
    <2>2. PICK y : ses' = [ses EXCEPT ![s] = y] /\ Changed(x, y, x.txn.state, step, last)
      BY <1>2, <1>3, <2>1, ChangedSession, Zenon
    <2>3. Sound(y, Idle, committed, ops)
      BY <1>2, <1>3, <2>2, ChangedSound, Zenon
    <2> QED  BY <1>2, <2>1, <2>2, <2>3, ChangedInv, Zenon
  <1>4. CASE CallbackReturns(s)
    <2> DEFINE step == IF Active(x) THEN "commit" ELSE "returned"
    <2>1. Step(s, step, "ok") /\ x.call.step = "callback"
      BY <1>4 DEF CallbackReturns
    <2>2. \A y : Changed(x, y, x.txn.state, step, "ok") => Stands(y, Idle, committed)
      BY <1>2, <2>1, Zenon DEF Changed, Stands, Active
    <2>3. step \in Steps /\ "ok" \in Outcomes
      BY DEF Steps, Outcomes
    <2> HIDE DEF step
    <2> QED  BY <1>3, <2>1, <2>2, <2>3
  <1>5. CASE CallbackRaises(s)
    <2> DEFINE step == AfterCallback(x)
               last == IF x.hist.failed THEN x.call.last ELSE "other"
    <2>1. Step(s, step, last) /\ x.call.step = "callback"
      BY <1>5, Zenon DEF CallbackRaises
    <2>2. \A y : Changed(x, y, x.txn.state, step, last) => Stands(y, Idle, committed)
      BY <1>2, <2>1, Zenon DEF Changed, Stands, Active, AfterCallback
    <2>3. step \in Steps /\ last \in Outcomes
      BY <1>2, Zenon DEF Steps, Outcomes, AfterCallback
    <2> HIDE DEF step, last
    <2> QED  BY <1>3, <2>1, <2>2, <2>3
  <1>6. CASE Return(s)
    <2>1. Step(s, "returned", "ok") /\ x.call.step = "decide" /\ x.call.last = "ok"
      BY <1>6 DEF Return
    <2>2. \A y : Changed(x, y, x.txn.state, "returned", "ok") => Stands(y, Idle, committed)
      BY <1>2, <2>1 DEF Changed, Stands, Active
    <2>3. "returned" \in Steps /\ "ok" \in Outcomes
      BY DEF Steps, Outcomes
    <2> QED  BY <1>3, <2>1, <2>2, <2>3
  <1>7. CASE CommitAgain(s)
    <2>1. Step(s, "commit", "ok") /\ x.call.step = "decide" /\ x.call.last = "unknown"
      BY <1>7 DEF CommitAgain
    <2>2. \A y : Changed(x, y, x.txn.state, "commit", "ok") => Stands(y, Idle, committed)
      BY <1>2, <2>1 DEF Changed, Stands, Active
    <2>3. "commit" \in Steps /\ "ok" \in Outcomes
      BY DEF Steps, Outcomes
    <2> QED  BY <1>3, <2>1, <2>2, <2>3
  <1>8. CASE RaiseError(s)
    <2>1. Step(s, "raised", x.call.last) /\ x.call.step = "decide"
      BY <1>8 DEF RaiseError
    <2>2. \A y : Changed(x, y, x.txn.state, "raised", x.call.last) => Stands(y, Idle, committed)
      BY <1>2, <2>1 DEF Changed, Stands, Active
    <2>3. "raised" \in Steps
      BY DEF Steps
    <2> QED  BY <1>2, <1>3, <2>1, <2>2, <2>3, Zenon
  <1> QED  BY <1>4, <1>5, <1>6, <1>7, <1>8

\* commit_transaction and abort_transaction.
LEMMA FinishInv ==
    ASSUME TransactionInv, NEW s \in Sessions, CommitEmpty(s) \/ Commit(s) \/ Abort(s)
    PROVE  TransactionInv'
  <1> DEFINE x == ses[s]
  <1>1. op[s] = Idle /\ UNCHANGED <<msg, committed, ops>>
    BY Zenon DEF CommitEmpty, Commit, Abort, CanRun, History
  <1>2. /\ Sound(x, Idle, committed, ops) /\ ops \in Nat /\ SessionType(x)
        /\ Stands(x, Idle, committed) /\ ses = [t \in Sessions |-> ses[t]] /\ op = [op EXCEPT ![s] = Idle]
        /\ ses = [ses EXCEPT ![s] = x] /\ x.call.step \in Steps /\ x.call.last \in Outcomes
    BY <1>1, IdleSession, Zenon
  <1>3. Running(x, Idle, committed, ops) /\ x.hist.id \in Nat
    BY <1>2, Zenon DEF Sound, SessionType
  <1>4. CASE CommitEmpty(s)
    <2> DEFINE step == IF InCall(x) THEN "decide" ELSE x.call.step
    <2>1. /\ x.txn.state = "STARTING" /\ x.call.step \in {"none", "commit"} /\ UNCHANGED op
          /\ ses' = [ses EXCEPT ![s].txn.state = "COMMITTED_EMPTY", ![s].call.step = step]
      BY <1>2, <1>4, Zenon DEF CommitEmpty
    <2>2. step \in Steps /\ "COMMITTED_EMPTY" \in TransactionStates
      BY <1>2, Zenon DEF Steps, TransactionStates
    <2>3. \A y : Changed(x, y, "COMMITTED_EMPTY", step, x.call.last) => Stands(y, Idle, committed) /\ ~Active(y)
      BY <1>2, <2>1 DEF Changed, Stands, Active, InCall
    <2> HIDE DEF step
    <2>4. PICK y : ses' = [ses EXCEPT ![s] = y] /\ Changed(x, y, "COMMITTED_EMPTY", step, x.call.last)
      BY <1>2, <2>1, <2>2, ChangedSession, Zenon
    <2>5. Sound(y, Idle, committed, ops)
      BY <1>2, <2>1, <2>3, <2>4, ChangedSound, Zenon
    <2> QED  BY <1>1, <1>2, <2>1, <2>4, <2>5, ChangedInv, Zenon
  <1>5. CASE Commit(s)
    <2>1. /\ x.txn.state \in {"IN_PROGRESS", "COMMITTED"} /\ x.call.step \in {"none", "commit"}
          /\ ses' = [ses EXCEPT ![s].txn.state = "IN_PROGRESS"]
          /\ Run(s, x.hist.id, "commit", TRUE, NoBulk)
      BY <1>5, Zenon DEF Commit
    <2>2. "IN_PROGRESS" \in TransactionStates
      BY DEF TransactionStates
    <2>3. PICK y : ses' = [ses EXCEPT ![s] = y] /\ Changed(x, y, "IN_PROGRESS", x.call.step, x.call.last)
      BY <1>2, <2>1, <2>2, ChangedSession, Zenon
    <2>4. Stands(y, Idle, committed) /\ Active(y)
      BY <1>2, <2>1, <2>3 DEF Changed, Stands, Active
    <2>5. Running(y, Idle, committed, ops)
      BY <1>2, <1>3, <2>1, <2>3, <2>4, ChangedRunning, Zenon
    <2>6. MayRun(y, x.hist.id, "commit", TRUE)
      BY <1>3, <2>1, <2>3, <2>4, Zenon DEF MayRun, Changed
    <2>7. PICK p : op' = [op EXCEPT ![s] = p] /\ Sound(y, p, committed, ops)
      BY <1>2, <2>1, <2>5, <2>6, RunSound, Zenon
    <2> QED  BY <1>1, <2>3, <2>7, ChangedInv, Zenon
  <1>6. CASE Abort(s) /\ x.txn.state = "STARTING"
    <2> DEFINE step == IF x.call.step = "abort" THEN "decide" ELSE x.call.step
    <2>1. /\ x.call.step \notin {"commit", "decide"} /\ UNCHANGED op /\ Active(x)
          /\ ses' = [ses EXCEPT ![s].txn.state = "ABORTED",
                                ![s].call.step = IF @ = "abort" THEN "decide" ELSE @]
      BY <1>6, Zenon DEF Abort
    <2>0. ses' = [ses EXCEPT ![s].txn.state = "ABORTED", ![s].call.step = step]
      BY <1>2, <2>1, Zenon
    <2>2. step \in Steps /\ "ABORTED" \in TransactionStates
      BY <1>2, Zenon DEF Steps, TransactionStates
    <2>3. \A y : Changed(x, y, "ABORTED", step, x.call.last) => Stands(y, Idle, committed) /\ ~Active(y)
      BY <1>2, <2>1, Zenon DEF Changed, Stands, Active
    <2> HIDE DEF step
    <2>4. PICK y : ses' = [ses EXCEPT ![s] = y] /\ Changed(x, y, "ABORTED", step, x.call.last)
      BY <1>2, <2>0, <2>2, ChangedSession, Zenon
    <2>5. Sound(y, Idle, committed, ops)
      BY <1>2, <1>6, <2>3, <2>4, ChangedSound, Zenon
    <2> QED  BY <1>1, <1>2, <2>1, <2>4, <2>5, ChangedInv, Zenon
  <1>7. CASE Abort(s) /\ x.txn.state # "STARTING"
    <2>1. /\ x.call.step \notin {"commit", "decide"} /\ ses' = [ses EXCEPT ![s] = x] /\ Active(x)
          /\ Run(s, x.hist.id, "abort", TRUE, NoBulk)
      BY <1>2, <1>7, Zenon DEF Abort
    <2>2. MayRun(x, x.hist.id, "abort", TRUE)
      BY <1>3, <2>1, Zenon DEF MayRun
    <2>3. PICK p : op' = [op EXCEPT ![s] = p] /\ Sound(x, p, committed, ops)
      BY <1>2, <1>3, <2>1, <2>2, RunSound, Zenon
    <2>4. Changed(x, x, x.txn.state, x.call.step, x.call.last)
      BY <1>2 DEF Changed
    <2> QED  BY <1>1, <2>1, <2>3, <2>4, ChangedInv, Zenon
  <1> QED  BY <1>4, <1>5, <1>6, <1>7

\* start_transaction: a new transaction, perhaps of a call.
NewCall(call, C, n) ==
    /\ call \in [step : {"none", "callback"}, txns : SUBSET Nat, last : Outcomes]
    /\ call.step = "none" => call.txns = {}
    /\ \A i \in call.txns : 0 < i /\ i <= n /\ i \notin C
Begun(x, id, call) ==
    [x EXCEPT !.txn = [NoTransaction EXCEPT !.state = "STARTING"], !.hist = [NoHistory EXCEPT !.id = id],
              !.call = call]

LEMMA BegunSound ==
    ASSUME NEW x, SessionType(x), NEW C, NEW n \in Nat, \A i \in C : i \in Nat /\ i < n, n # 0,
           NEW call, NewCall(call, C, n)
    PROVE  LET y == Begun(x, n, call) IN Sound(y, Idle, C, n) /\ y.hist.id = n /\ y.call = call
  <1> DEFINE v == [NoTransaction EXCEPT !.state = "STARTING"]
             h == [NoHistory EXCEPT !.id = n]
             y == [x EXCEPT !.txn = v, !.hist = h, !.call = call]
  <1>1. /\ v \in [state : TransactionStates, attempt : Nat, completed : BOOLEAN, pinned : {v.pinned}]
        /\ v.state = "STARTING" /\ ~v.completed /\ v.completed = FALSE
    BY Zenon DEF NoTransaction, TransactionStates
  <1>2. h \in [id : Nat, failed : BOOLEAN, begun : BOOLEAN, commits : Nat] /\ h.id = n /\ h.begun = FALSE
    BY Zenon DEF NoHistory
  <1> HIDE DEF v, h
  <1>3. /\ y \in [srv : {y.srv}, started : {y.started}, txn : {v}, hist : {h}, call : {call}]
        /\ y.txn = v /\ y.hist = h /\ y.call = call
    <2>1. Fields(x)
      BY DEF SessionType, Fields
    <2> QED  BY <2>1, Zenon DEF Fields
  <1> HIDE DEF y
  <1>4. SessionType(y)
    <2>1. call \in [step : Steps, txns : SUBSET Nat, last : Outcomes]
      BY DEF Steps, NewCall
    <2> QED  BY <1>1, <1>2, <1>3, <2>1, Zenon DEF SessionType
  <1>5. Within(y, n) /\ Starts(y) /\ At(y, Idle)
    BY <1>1, <1>2, <1>3 DEF Within, Starts, At, Ready, NewCall
  <1>6. Stands(y, Idle, C)
    <2>1. call.txns \cap C = {}
      BY DEF NewCall
    <2>2. call.step \in {"none", "callback"} /\ (call.step = "none" => call.txns = {})
      BY DEF NewCall
    <2> QED  BY <1>1, <1>3, <2>1, <2>2 DEF Stands
  <1> QED  BY <1>2, <1>3, <1>4, <1>5, <1>6 DEF Sound, Running, Begun, y, v, h

LEMMA BeginInv ==
    ASSUME TransactionInv, NEW s \in Sessions, StartTransaction(s) \/ WithTransaction(s) \/ TransactionAgain(s)
    PROVE  TransactionInv'
  <1> DEFINE x == ses[s]
             n == ops + 1
  <1>1. PICK call : /\ Begin(s, call) /\ NewCall(call, committed, n)
                    /\ \A i \in call.txns : i \in x.call.txns \/ i = n
    <2>1. ops \in Nat /\ (\A i \in committed : i \in Nat /\ i <= ops) /\ x.call.txns \subseteq Nat
          /\ \A i \in x.call.txns : 0 < i /\ i <= ops
      BY Zenon DEF TransactionInv, Sound, Running, Within, SessionType
    <2>2. CASE StartTransaction(s)
      <3>1. Begin(s, NoCall) /\ NewCall(NoCall, committed, n) /\ NoCall.txns = {}
        BY <2>2 DEF StartTransaction, NoCall, NewCall, Outcomes
      <3> QED  BY <3>1
    <2>3. CASE WithTransaction(s)
      <3> DEFINE call == [step |-> "callback", txns |-> {n}, last |-> "ok"]
      <3>1. Begin(s, call) /\ call.step = "callback" /\ call.txns = {n}
        BY <2>3 DEF WithTransaction
      <3>2. call \in [step : {"none", "callback"}, txns : SUBSET Nat, last : Outcomes]
        BY <2>1 DEF Outcomes
      <3>3. 0 < n /\ n \notin committed
        BY <2>1
      <3> HIDE DEF call
      <3>4. NewCall(call, committed, n)
        BY <3>1, <3>2, <3>3, <2>1 DEF NewCall
      <3> QED  BY <3>1, <3>4
    <2>4. CASE TransactionAgain(s)
      <3> DEFINE call == [step |-> "callback", txns |-> x.call.txns \cup {n}, last |-> "ok"]
      <3>1. Begin(s, call) /\ call.step = "callback" /\ call.txns = x.call.txns \cup {n}
        BY <2>4, Zenon DEF TransactionAgain
      <3>2. call \in [step : {"none", "callback"}, txns : SUBSET Nat, last : Outcomes]
        BY <2>1 DEF Outcomes
      <3>3. 0 < n /\ n \notin committed
        BY <2>1
      <3>4. x.call.txns \cap committed = {}
        BY <2>4, Zenon DEF TransactionAgain, TransactionInv, Sound, Running, Stands
      <3> HIDE DEF call
      <3>5. NewCall(call, committed, n)
        BY <3>1, <3>2, <3>3, <3>4, <2>1 DEF NewCall
      <3> QED  BY <3>1, <3>5
    <2> QED  BY <2>2, <2>3, <2>4
  <1> DEFINE z == Begun(x, n, call)
  <1>2. /\ op[s] = Idle /\ ops' = n /\ UNCHANGED <<op, msg, committed>> /\ StartRetryableWrite(s, z)
    BY <1>1, Zenon DEF Begin, Begun, CanRun, History
  <1>3. /\ SessionType(x) /\ ops \in Nat /\ n \in Nat /\ n # 0 /\ \A i \in committed : i \in Nat /\ i < n
    BY DEF TransactionInv, Sound, Running
  <1>4. op = [op EXCEPT ![s] = Idle]
    BY <1>2 DEF TransactionInv
  <1>5. Sound(z, Idle, committed, n) /\ z.hist.id = n /\ z.call = call
    <2> HIDE DEF n
    <2> QED  BY <1>1, <1>3, BegunSound
  <1> HIDE DEF z
  <1>6. PICK y : ses' = [ses EXCEPT ![s] = y] /\ Like(z, y) /\ Sound(y, Idle, committed, n)
    BY <1>2, <1>3, <1>5, StartedSound
  <1>7. Moves(s, y, Idle)
    BY <1>1, <1>2, <1>3, <1>4, <1>5, <1>6 DEF Moves, Like
  <1>8. ops' \in Nat /\ ops <= ops'
    BY <1>2, <1>3
  <1> QED  BY <1>2, <1>7, <1>8, QuietPreserved

\* A session that starts or has ended.
Blank(y) == y \in {NewSession, [NewSession EXCEPT !.srv = Ended]}

LEMMA BlankSound ==
    ASSUME NEW C, NEW n \in Nat, NEW y, Blank(y)
    PROVE  Sound(y, Idle, C, n) /\ y.hist.id = 0 /\ y.call.txns = {}
  <1>1. /\ y \in [srv : {y.srv}, started : {y.started}, txn : {NoTransaction}, hist : {NoHistory}, call : {NoCall}]
        /\ y.txn = NoTransaction /\ y.hist = NoHistory /\ y.call = NoCall
    BY DEF Blank, NewSession
  <1>2. /\ NoTransaction \in [state : TransactionStates, attempt : Nat, completed : BOOLEAN, pinned : {NoTransaction.pinned}]
        /\ NoHistory \in [id : Nat, failed : BOOLEAN, begun : BOOLEAN, commits : Nat]
        /\ NoCall \in [step : Steps, txns : SUBSET Nat, last : Outcomes]
    BY DEF NoTransaction, NoHistory, NoCall, TransactionStates, Steps, Outcomes
  <1>3. SessionType(y)
    BY <1>1, <1>2, Zenon DEF SessionType
  <1>4. Within(y, n) /\ Starts(y) /\ At(y, Idle) /\ Stands(y, Idle, C)
    BY <1>1 DEF Within, Starts, At, Ready, Active, Stands, NoTransaction, NoHistory, NoCall, Idle
  <1> QED  BY <1>1, <1>3, <1>4 DEF Sound, Running, NoHistory, NoCall

LEMMA SessionsInv ==
    ASSUME TransactionInv, NEW s \in Sessions, StartSession(s) \/ EndSession(s)
    PROVE  TransactionInv'
  <1>1. op[s] = Idle /\ UNCHANGED <<op, msg, committed, ops>>
    BY DEF StartSession, EndSession, History
  <1>2. PICK y : Blank(y) /\ ses' = [ses EXCEPT ![s] = y]
    BY DEF StartSession, EndSession, Blank
  <1>3. ops \in Nat /\ op = [op EXCEPT ![s] = Idle]
    BY <1>1 DEF TransactionInv
  <1>4. Sound(y, Idle, committed, ops) /\ y.hist.id = 0 /\ y.call.txns = {}
    BY <1>2, <1>3, BlankSound
  <1>5. Moves(s, y, Idle)
    BY <1>1, <1>2, <1>3, <1>4 DEF Moves
  <1>6. ops' \in Nat /\ ops <= ops'
    BY <1>1, <1>3
  <1> QED  BY <1>1, <1>5, <1>6, QuietPreserved

-----------------------------------------------------------------------------
(* The theorems.                                                           *)

LEMMA TransactionInit ==
    ASSUME Init
    PROVE  TransactionInv
  <1> DEFINE x == [NewSession EXCEPT !.srv = Ended]
  <1>1. Sound(x, Idle, {}, 0) /\ x.hist.id = 0 /\ x.call.txns = {}
    <2>1. Blank(x)
      BY DEF Blank
    <2> HIDE DEF x
    <2> QED  BY <2>1, BlankSound
  <1>2. ses = [s \in Sessions |-> x]
    BY DEF Init
  <1> HIDE DEF x
  <1>3. /\ op = [s \in Sessions |-> Idle] /\ msg = [s \in Sessions |-> NoMessage]
        /\ committed = {} /\ ops = 0
    BY DEF Init
  <1>4. StartExact
    BY <1>3 DEF StartExact, NoMessage
  <1> QED  BY <1>1, <1>2, <1>3, <1>4 DEF TransactionInv

LEMMA TransactionNext ==
    ASSUME TransactionInv, [Next]_vars
    PROVE  TransactionInv'
  <1>1. ASSUME UNCHANGED <<ses, op, msg, committed, ops>> PROVE TransactionInv'
    BY <1>1, Zenon DEF TransactionInv, StartExact
  <1>2. ASSUME NEW s \in Sessions, Operation(s) PROVE TransactionInv'
    BY <1>2, SessionsInv, WriteInv, BeginInv, FinishInv, StepInv, Zenon DEF Operation
  <1>3. ASSUME NEW s \in Sessions, Attempt(s) PROVE TransactionInv'
    BY <1>3, UnsentInv, SendInv, SucceedsInv, BulkSucceedsInv, FailureInv, Zenon DEF Attempt
  <1>4. ASSUME NEW l \in Lsid, Expire(l) PROVE TransactionInv'
    BY <1>1, <1>4 DEF Expire, History
  <1>5. CASE Fork
    BY <1>1, <1>5 DEF Fork, History
  <1>6. CASE UNCHANGED vars
    BY <1>1, <1>6 DEF vars
  <1> QED  BY <1>2, <1>3, <1>4, <1>5, <1>6 DEF Next

\* _apply_to: startTransaction goes with the commands of a transaction up to the
\* first that the server executes, whatever is retried and reverted between.
THEOREM StartExactCorrect == Spec => []StartExact
  <1>1. Init => TransactionInv
    BY TransactionInit
  <1>2. TransactionInv /\ [Next]_vars => TransactionInv'
    BY TransactionNext
  <1>3. TransactionInv => StartExact
    BY DEF TransactionInv
  <1> QED  BY <1>1, <1>2, <1>3, PTL DEF Spec

\* with_transaction: however often it commits again and starts again, one of its
\* transactions is committed on the server at most.
THEOREM CommittedOnceCorrect == Spec => []CommittedOnce
  <1>1. Init => TransactionInv
    BY TransactionInit
  <1>2. TransactionInv /\ [Next]_vars => TransactionInv'
    BY TransactionNext
  <1>3. TransactionInv => CommittedOnce
    BY Zenon DEF TransactionInv, CommittedOnce, Sound, Running, Stands
  <1> QED  BY <1>1, <1>2, <1>3, PTL DEF Spec

\* with_transaction: when it returns or raises no transaction is left running, and
\* the one it returns from is committed if it sent a commit.
THEOREM CallCompletedCorrect == Spec => []CallCompleted
  <1>1. Init => TransactionInv
    BY TransactionInit
  <1>2. TransactionInv /\ [Next]_vars => TransactionInv'
    BY TransactionNext
  <1>3. TransactionInv => CallCompleted
    BY Zenon DEF TransactionInv, CallCompleted, Sound, Running, Stands
  <1> QED  BY <1>1, <1>2, <1>3, PTL DEF Spec
=============================================================================
