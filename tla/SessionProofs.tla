--------------------------- MODULE SessionProofs ---------------------------
(***************************************************************************)
(* Proofs about Session: for any number of sessions, operations, errors    *)
(* and forks, a server session serves one session at a time, those in the  *)
(* pool are clean, and no transaction number is used for two commands.     *)
(***************************************************************************)
EXTENDS Session, TLAPS

\* A record with the fields of a session, and one of its server session.
Shaped(x) == x \in [srv : {x.srv}, started : {x.started}, txn : {x.txn}, hist : {x.hist},
                    call : {x.call}]
ServerSession == [made : BOOLEAN, txn : Nat, dirty : BOOLEAN, stale : BOOLEAN, gen : Nat]

Types ==
    /\ pool \in Seq(Lsid) /\ generation \in Nat
    /\ srv \in [Lsid -> ServerSession]
    /\ ses = [s \in Sessions |-> ses[s]]
    /\ \A s \in Sessions : Shaped(ses[s]) /\ ses[s].srv \in Lsid \cup {Empty, Ended}

\* The server sessions in use were made.
Made ==
    /\ \A i \in DOMAIN pool : srv[pool[i]].made
    /\ \A s \in Sessions : InLsid(ses[s].srv) => srv[ses[s].srv].made

PoolInv == Types /\ Made /\ Exclusive /\ PoolClean

-----------------------------------------------------------------------------
(* What happens to a session.                                              *)

\* y is x after something that does not change its server session.
Keeps(x, y) == Shaped(y) /\ y.srv = x.srv

LEMMA NewKeeps == \A l : Shaped([NewSession EXCEPT !.srv = l]) /\ [NewSession EXCEPT !.srv = l].srv = l
  BY Zenon DEF Shaped, NewSession

LEMMA NewShaped == Shaped(NewSession) /\ NewSession.srv = Empty
  BY DEF Shaped, NewSession

LEMMA UnpinKeeps ==
    ASSUME NEW x, Shaped(x)
    PROVE  Keeps(x, Unpin(x))
  BY DEF Shaped, Keeps, Unpin

LEMMA SelectedKeeps ==
    ASSUME NEW x, Shaped(x)
    PROVE  Keeps(x, Selected(x))
  BY Zenon DEF Shaped, Keeps, Selected

LEMMA RevertedKeeps ==
    ASSUME NEW x, Shaped(x)
    PROVE  Keeps(x, Reverted(x))
  BY Zenon DEF Shaped, Keeps, Reverted

LEMMA TriedKeeps ==
    ASSUME NEW x, Shaped(x), NEW s
    PROVE  Keeps(x, Tried(s, x))
  BY DEF Shaped, Keeps, Tried

LEMMA FinishedKeeps ==
    ASSUME NEW x, Shaped(x), NEW o, NEW outcome
    PROVE  Keeps(x, Finished(o, x, outcome))
  BY UnpinKeeps, Zenon DEF Shaped, Keeps, Finished

LEMMA SelectedUnpinKeeps ==
    ASSUME NEW x, Shaped(x)
    PROVE  Keeps(x, LET y == Selected(x) IN IF Active(y) THEN Unpin(y) ELSE y)
  BY SelectedKeeps, UnpinKeeps DEF Keeps

-----------------------------------------------------------------------------
(* Most steps neither take nor return a server session.                    *)

\* The session s becomes y.
Becomes(s, y) == ses' = [ses EXCEPT ![s] = y]

\* Server sessions may get a number, time out, be used again; only one that a
\* session holds becomes dirty.
Tended ==
    /\ srv' \in [Lsid -> ServerSession]
    /\ \A l \in Lsid : /\ srv'[l].made = srv[l].made /\ srv'[l].gen = srv[l].gen
                       /\ srv'[l].dirty = srv[l].dirty \/ \E s \in Sessions : ses[s].srv = l

Quiet ==
    /\ pool' = pool /\ generation' = generation /\ Tended
    /\ ses' = ses \/ \E s \in Sessions : \E y : Keeps(ses[s], y) /\ Becomes(s, y)

LEMMA BecomesSrv ==
    ASSUME Types, NEW s \in Sessions, NEW y, Shaped(y), y.srv \in Lsid \cup {Empty, Ended}, Becomes(s, y)
    PROVE  /\ ses' = [t \in Sessions |-> ses'[t]]
           /\ ses'[s] = y
           /\ \A t \in Sessions : t # s => ses'[t] = ses[t]
           /\ \A t \in Sessions : Shaped(ses'[t]) /\ ses'[t].srv \in Lsid \cup {Empty, Ended}
  <1>1. /\ ses' = [t \in Sessions |-> ses'[t]] /\ ses'[s] = y
        /\ \A t \in Sessions : t # s => ses'[t] = ses[t]
    BY DEF Types, Becomes
  <1> QED  BY <1>1 DEF Types

LEMMA QuietInv ==
    ASSUME PoolInv, Quiet
    PROVE  PoolInv'
  <1>1. /\ ses' = [s \in Sessions |-> ses'[s]]
        /\ \A s \in Sessions : Shaped(ses'[s]) /\ ses'[s].srv = ses[s].srv
    <2>1. CASE ses' = ses
      BY <2>1 DEF PoolInv, Types
    <2>2. CASE \E s \in Sessions : \E y : Keeps(ses[s], y) /\ Becomes(s, y)
      <3>0. PICK s \in Sessions : \E y : Keeps(ses[s], y) /\ Becomes(s, y)
        BY <2>2
      <3>1. PICK y : Keeps(ses[s], y) /\ Becomes(s, y)
        BY <3>0
      <3>2. Shaped(y) /\ y.srv = ses[s].srv /\ y.srv \in Lsid \cup {Empty, Ended}
        BY <3>1 DEF Keeps, PoolInv, Types
      <3> QED  BY <3>1, <3>2, BecomesSrv, Zenon DEF PoolInv
    <2> QED  BY <2>1, <2>2 DEF Quiet
  <1>2. Types'
    BY <1>1, Zenon DEF PoolInv, Types, Quiet, Tended, Shaped
  <1>3. \A i \in DOMAIN pool : pool[i] \in Lsid
    BY DEF PoolInv, Types
  <1>4. Made'
    BY <1>1, <1>3 DEF PoolInv, Types, Made, Quiet, Tended, InLsid
  <1>5. Exclusive'
    BY <1>1 DEF PoolInv, Exclusive, Quiet, InLsid
  <1>6. PoolClean'
    <2> SUFFICES ASSUME NEW i \in DOMAIN pool
                 PROVE  ~srv'[pool[i]].dirty /\ srv'[pool[i]].gen = generation
      BY DEF PoolClean, Quiet
    <2>1. \A s \in Sessions : ses[s].srv # pool[i]
      BY <1>3 DEF PoolInv, Exclusive, InLsid
    <2> QED  BY <1>3, <2>1, Zenon DEF PoolInv, PoolClean, Quiet, Tended
  <1> QED  BY <1>2, <1>4, <1>5, <1>6 DEF PoolInv

LEMMA SameTended ==
    ASSUME Types, srv' = srv
    PROVE  Tended
  BY DEF Types, Tended

LEMMA MarkDirtyTended ==
    ASSUME Types, NEW s \in Sessions, MarkDirty(s)
    PROVE  Tended
  BY ZenonT(30) DEF Types, Tended, MarkDirty, InLsid, ServerSession

LEMMA ExpireQuiet ==
    ASSUME Types, NEW l \in Lsid, Expire(l)
    PROVE  Quiet
  BY Zenon DEF Types, Quiet, Tended, Expire, ServerSession

LEMMA NumberedKeeps ==
    ASSUME NEW p \in ServerSession
    PROVE  /\ [p EXCEPT !.txn = @ + 1] \in ServerSession
           /\ [p EXCEPT !.txn = @ + 1].made = p.made /\ [p EXCEPT !.txn = @ + 1].gen = p.gen
           /\ [p EXCEPT !.txn = @ + 1].dirty = p.dirty
  BY DEF ServerSession

\* A retryable write or a transaction begins.
LEMMA StartedQuiet ==
    ASSUME Types, NEW s \in Sessions, NEW x, Keeps(ses[s], x), StartRetryableWrite(s, x)
    PROVE  Tended /\ \E y : Keeps(ses[s], y) /\ Becomes(s, y)
  <1>1. CASE InLsid(x.srv)
    <2> DEFINE l == x.srv
    <2>1. l \in Lsid /\ srv' = [srv EXCEPT ![l].txn = @ + 1]
      BY <1>1 DEF StartRetryableWrite, InLsid
    <2> HIDE DEF l
    <2>2. /\ [srv[l] EXCEPT !.txn = @ + 1] \in ServerSession
          /\ [srv[l] EXCEPT !.txn = @ + 1].made = srv[l].made
          /\ [srv[l] EXCEPT !.txn = @ + 1].gen = srv[l].gen
          /\ [srv[l] EXCEPT !.txn = @ + 1].dirty = srv[l].dirty
      BY <2>1, NumberedKeeps DEF Types
    <2>3. Tended
      BY <2>1, <2>2, Zenon DEF Types, Tended
    <2> QED  BY <1>1, <2>3 DEF StartRetryableWrite, Becomes
  <1>2. CASE ~InLsid(x.srv)
    <2>1. Becomes(s, [x EXCEPT !.started = TRUE]) /\ Tended
      BY <1>2, SameTended DEF StartRetryableWrite, Becomes
    <2>2. Keeps(ses[s], [x EXCEPT !.started = TRUE])
      BY Zenon DEF Keeps, Shaped
    <2> QED  BY <2>1, <2>2
  <1> QED  BY <1>1, <1>2

LEMMA WriteQuiet ==
    ASSUME Types, NEW s \in Sessions, NEW kind, Write(s, kind)
    PROVE  Quiet
  <1>1. Keeps(ses[s], ses[s])
    BY DEF Keeps, Types
  <1> QED  BY <1>1, StartedQuiet, SameTended, Zenon DEF Write, Quiet

LEMMA BulkWriteQuiet ==
    ASSUME Types, NEW s \in Sessions, NEW r, BulkWrite(s, r)
    PROVE  Quiet
  <1>1. Keeps(ses[s], ses[s])
    BY DEF Keeps, Types
  <1> QED  BY <1>1, StartedQuiet, SameTended DEF BulkWrite, Quiet

LEMMA BeginQuiet ==
    ASSUME Types, NEW s \in Sessions, NEW call, Begin(s, call)
    PROVE  Quiet
  <1> DEFINE y == [ses[s] EXCEPT !.txn = [NoTransaction EXCEPT !.state = "STARTING"],
                                 !.hist = [NoHistory EXCEPT !.id = ops + 1],
                                 !.call = call]
  <1>1. Keeps(ses[s], y)
    BY Zenon DEF Keeps, Types, Shaped
  <1>2. StartRetryableWrite(s, y) /\ pool' = pool /\ generation' = generation
    BY DEF Begin
  <1> QED  BY <1>1, <1>2, StartedQuiet DEF Quiet

\* The steps that change no server session and one session, in its transaction
\* or its call of with_transaction.
LEMMA OneQuiet ==
    ASSUME Types, NEW s \in Sessions, NEW y, Keeps(ses[s], y), Becomes(s, y), Tended,
           pool' = pool, generation' = generation
    PROVE  Quiet
  BY DEF Quiet

LEMMA StepQuiet ==
    ASSUME Types, NEW s \in Sessions, NEW step, NEW last, Step(s, step, last)
    PROVE  Quiet
  <1> DEFINE y == [ses[s] EXCEPT !.call.step = step, !.call.last = last]
  <1>1. Keeps(ses[s], y)
    BY Zenon DEF Types, Keeps, Shaped
  <1>2. Becomes(s, y)
    BY Zenon DEF Types, Becomes, Step
  <1> QED  BY <1>1, <1>2, SameTended, OneQuiet, Zenon DEF Step

LEMMA FinishQuiet ==
    ASSUME Types, NEW s \in Sessions, CommitEmpty(s) \/ Commit(s) \/ Abort(s)
    PROVE  Quiet
  <1>1. CASE CommitEmpty(s)
    <2> DEFINE y == [ses[s] EXCEPT !.txn.state = "COMMITTED_EMPTY",
                                   !.call.step = IF InCall(ses[s]) THEN "decide" ELSE @]
    <2>1. Keeps(ses[s], y)
      BY Zenon DEF Types, Keeps, Shaped
    <2>2. Becomes(s, y)
      BY <1>1, Zenon DEF Types, Becomes, CommitEmpty
    <2> QED  BY <1>1, <2>1, <2>2, SameTended, OneQuiet, Zenon DEF CommitEmpty
  <1>2. CASE Commit(s)
    <2> DEFINE y == [ses[s] EXCEPT !.txn.state = "IN_PROGRESS"]
    <2>1. Keeps(ses[s], y)
      BY DEF Types, Keeps, Shaped
    <2>2. Becomes(s, y)
      BY <1>2, Zenon DEF Types, Becomes, Commit
    <2> QED  BY <1>2, <2>1, <2>2, SameTended, OneQuiet, Zenon DEF Commit
  <1>3. CASE Abort(s)
    <2> DEFINE y == [ses[s] EXCEPT !.txn.state = "ABORTED",
                                   !.call.step = IF @ = "abort" THEN "decide" ELSE @]
    <2>1. Keeps(ses[s], y)
      BY Zenon DEF Types, Keeps, Shaped
    <2>2. Becomes(s, y) \/ ses' = ses
      BY <1>3, Zenon DEF Types, Becomes, Abort
    <2> QED  BY <1>3, <2>1, <2>2, SameTended, OneQuiet, Zenon DEF Abort, Quiet
  <1> QED  BY <1>1, <1>2, <1>3

-----------------------------------------------------------------------------
(* The steps of an attempt.                                                *)

LEMMA RaiseQuiet ==
    ASSUME Types, NEW s \in Sessions, NEW errors, NEW x, Keeps(ses[s], x), Raise(s, errors, x)
    PROVE  \E y : Keeps(ses[s], y) /\ Becomes(s, y)
  <1>1. PICK e : ses' = [ses EXCEPT ![s] = Finished(op[s], x, Label(op[s], e))]
    BY Zenon DEF Raise
  <1>2. Keeps(x, Finished(op[s], x, Label(op[s], e)))
    BY FinishedKeeps DEF Keeps
  <1>3. Keeps(ses[s], Finished(op[s], x, Label(op[s], e)))
    BY <1>2 DEF Keeps
  <1> QED  BY <1>1, <1>3, Zenon DEF Becomes

LEMMA FailedQuiet ==
    ASSUME Types, NEW s \in Sessions, NEW e, NEW x, Keeps(ses[s], x), Failed(s, e, x)
    PROVE  \E y : Keeps(ses[s], y) /\ Becomes(s, y)
  <1> DEFINE o == op[s]
             always == AlwaysRetryable(e)
             rw == e.rw /\ (e.conn => o.retryable)
             unpinned == IF rw \/ always THEN Unpin(x) ELSE x
             y == IF e.over /\ Active(x) THEN Reverted(unpinned) ELSE unpinned
  <1>1. Keeps(ses[s], unpinned)
    BY UnpinKeeps DEF Keeps
  <1> HIDE DEF unpinned
  <1>2. Keeps(ses[s], y)
    BY <1>1, RevertedKeeps DEF Keeps
  <1> HIDE DEF y
  <1>3. \/ \E errors : Raise(s, errors, x)
        \/ \E errors : Raise(s, errors, unpinned)
        \/ \E errors : Raise(s, errors, y)
        \/ Becomes(s, y)
    BY Zenon DEF Failed, Becomes, unpinned, y
  <1> QED  BY <1>1, <1>2, <1>3, RaiseQuiet

LEMMA AttemptQuiet ==
    ASSUME Types, NEW s \in Sessions, Attempt(s), \A m : ~Send(s, m)
    PROVE  Quiet
  <1> DEFINE sel == LET x == Selected(ses[s]) IN IF Active(x) THEN Unpin(x) ELSE x
  <1>1. Keeps(ses[s], sel) /\ Keeps(ses[s], ses[s])
    BY SelectedUnpinKeeps DEF Types, Keeps
  <1>2. CASE SelectionFails(s)
    <2>1. Raise(s, IF op[s].retrying THEN op[s].last ELSE {Error(TRUE, FALSE, FALSE, FALSE)}, sel)
      BY <1>2, Zenon DEF SelectionFails
    <2> HIDE DEF sel
    <2> QED  BY <1>1, <1>2, <2>1, RaiseQuiet, SameTended, OneQuiet, Zenon DEF SelectionFails
  <1>3. CASE TimeIsUp(s)
    <2>1. Raise(s, op[s].last, ses[s])
      BY <1>3 DEF TimeIsUp
    <2> QED  BY <1>1, <1>3, <2>1, RaiseQuiet, SameTended, OneQuiet, Zenon DEF TimeIsUp
  <1>4. CASE \E over \in BOOLEAN : ConnectFails(s, over)
    <2>1. PICK over \in BOOLEAN : ConnectFails(s, over)
      BY <1>4
    <2>2. Failed(s, Error(TRUE, TRUE, over, FALSE), sel)
      BY <2>1, Zenon DEF ConnectFails
    <2> HIDE DEF sel
    <2> QED  BY <1>1, <2>1, <2>2, FailedQuiet, MarkDirtyTended, OneQuiet, Zenon DEF ConnectFails
  <1> HIDE DEF sel
  <1>5. CASE Succeeds(s)
    <2> DEFINE x == IF Active(ses[s]) THEN [Tried(s, ses[s]) EXCEPT !.txn.completed = TRUE, !.hist.begun = TRUE]
                    ELSE ses[s]
    <2>1. Keeps(ses[s], Tried(s, ses[s]))
      BY <1>1, TriedKeeps DEF Keeps, Types
    <2>2. Keeps(ses[s], x)
      BY <1>1, <2>1, Zenon DEF Keeps, Shaped
    <2>3. Becomes(s, Finished(op[s], x, "ok"))
      BY <1>5 DEF Types, Becomes, Succeeds
    <2> HIDE DEF x
    <2>4. Keeps(ses[s], Finished(op[s], x, "ok"))
      BY <2>2, FinishedKeeps DEF Keeps
    <2> QED  BY <1>5, <2>3, <2>4, SameTended, OneQuiet, Zenon DEF Succeeds
  <1>6. CASE BulkSucceeds(s)
    BY <1>6, SameTended, Zenon DEF BulkSucceeds, Quiet
  <1>7. CASE \E reached \in BOOLEAN : ReplyLost(s, reached)
    <2> DEFINE x == IF Active(ses[s]) THEN Unpin(Tried(s, ses[s])) ELSE ses[s]
    <2>1. PICK reached \in BOOLEAN : ReplyLost(s, reached)
      BY <1>7
    <2>2. Failed(s, Error(TRUE, TRUE, FALSE, FALSE), x)
      BY <2>1, Zenon DEF ReplyLost
    <2>3. Keeps(ses[s], x)
      BY <1>1, TriedKeeps, UnpinKeeps DEF Keeps
    <2> HIDE DEF x
    <2> QED  BY <2>1, <2>2, <2>3, FailedQuiet, MarkDirtyTended, OneQuiet, Zenon DEF ReplyLost
  <1>8. CASE \E e \in Refusals(s), reached \in BOOLEAN : Refused(s, e, reached)
    <2>1. PICK e \in Refusals(s), reached \in BOOLEAN : Refused(s, e, reached)
      BY <1>8
    <2> DEFINE x == IF e.over THEN ses[s] ELSE Tried(s, ses[s])
               y == IF e.rw \/ e.more = "transient" THEN Unpin(x) ELSE x
    <2>2. Failed(s, e, y)
      BY <2>1, Zenon DEF Refused
    <2>3. Keeps(ses[s], x)
      BY <1>1, TriedKeeps DEF Keeps
    <2> HIDE DEF x
    <2>4. Keeps(ses[s], y)
      BY <2>3, UnpinKeeps DEF Keeps
    <2> HIDE DEF y
    <2> QED  BY <2>1, <2>2, <2>4, FailedQuiet, SameTended, OneQuiet, Zenon DEF Refused
  <1> QED  BY <1>2, <1>3, <1>4, <1>5, <1>6, <1>7, <1>8 DEF Attempt

-----------------------------------------------------------------------------
(* The steps that make, take, return and drop server sessions.             *)

LEMMA StartSessionInv ==
    ASSUME PoolInv, NEW s \in Sessions, StartSession(s)
    PROVE  PoolInv'
  <1>1. Becomes(s, NewSession) /\ UNCHANGED <<pool, generation, srv>>
    BY DEF StartSession, Becomes
  <1>2. /\ ses' = [t \in Sessions |-> ses'[t]] /\ ses'[s].srv = Empty
        /\ \A t \in Sessions : t # s => ses'[t] = ses[t]
        /\ \A t \in Sessions : Shaped(ses'[t]) /\ ses'[t].srv \in Lsid \cup {Empty, Ended}
    BY <1>1, NewShaped, BecomesSrv DEF PoolInv
  <1>3. \A t \in Sessions : InLsid(ses'[t].srv) => ses'[t] = ses[t] /\ t # s
    BY <1>2 DEF InLsid, Lsid, Empty
  <1> QED  BY <1>1, <1>2, <1>3 DEF PoolInv, Types, Made, Exclusive, PoolClean

LEMMA ForkInv ==
    ASSUME PoolInv, Fork
    PROVE  PoolInv'
  <1>1. pool' = <<>> /\ generation' = generation + 1 /\ UNCHANGED <<srv, ses>> /\ DOMAIN <<>> = {}
    BY DEF Fork
  <1>2. pool' \in Seq(Lsid) /\ DOMAIN pool' = {}
    BY <1>1
  <1> QED  BY <1>1, <1>2 DEF PoolInv, Types, Made, Exclusive, PoolClean

LEMMA EndSessionInv ==
    ASSUME PoolInv, NEW s \in Sessions, EndSession(s)
    PROVE  PoolInv'
  <1> DEFINE l == ses[s].srv
             y == [NewSession EXCEPT !.srv = Ended]
  <1>1. /\ Becomes(s, y) /\ UNCHANGED <<generation, srv>>
        /\ pool' = IF InLsid(l) /\ Returnable(l) THEN <<l>> \o pool ELSE pool
    BY DEF EndSession, Becomes
  <1>2. Shaped(y) /\ y.srv = Ended
    BY NewKeeps
  <1> HIDE DEF y
  <1>3. /\ ses' = [t \in Sessions |-> ses'[t]] /\ ses'[s].srv = Ended
        /\ \A t \in Sessions : t # s => ses'[t] = ses[t]
        /\ \A t \in Sessions : Shaped(ses'[t]) /\ ses'[t].srv \in Lsid \cup {Empty, Ended}
    BY <1>1, <1>2, BecomesSrv, Zenon DEF PoolInv
  <1>4. \A t \in Sessions : InLsid(ses'[t].srv) => ses'[t] = ses[t] /\ t # s
    BY <1>3 DEF InLsid, Lsid, Ended
  <1>5. CASE pool' = pool
    BY <1>1, <1>3, <1>4, <1>5 DEF PoolInv, Types, Made, Exclusive, PoolClean
  <1>6. CASE InLsid(l) /\ Returnable(l) /\ pool' = <<l>> \o pool
    <2>1. /\ pool' \in Seq(Lsid) /\ DOMAIN pool' = 1..Len(pool) + 1 /\ DOMAIN pool = 1..Len(pool)
          /\ Len(pool) \in Nat
          /\ pool'[1] = l /\ \A i \in DOMAIN pool' : i # 1 => i - 1 \in DOMAIN pool /\ pool'[i] = pool[i - 1]
      BY <1>6 DEF PoolInv, Types, InLsid
    <2>2. \A i \in DOMAIN pool : pool[i] # l
      BY <1>6, Zenon DEF PoolInv, Exclusive
    <2>3. \A t \in Sessions : InLsid(ses'[t].srv) => ses'[t].srv # l
      BY <1>4, <1>6, Zenon DEF PoolInv, Exclusive
    <2> HIDE DEF l
    <2>4. Types'
      BY <1>1, <1>3, <2>1, Zenon DEF PoolInv, Types
    <2>5. srv[l].made
      BY <1>6, Zenon DEF PoolInv, Made, l
    <2>6. Made'
      BY <1>1, <1>4, <2>1, <2>5 DEF PoolInv, Made
    <2>7. Exclusive'
      <3>1. ASSUME NEW i \in DOMAIN pool', NEW j \in DOMAIN pool', pool'[i] = pool'[j]
            PROVE  i = j
        BY <2>1, <2>2, <3>1 DEF PoolInv, Exclusive
      <3>2. ASSUME NEW t \in Sessions, InLsid(ses'[t].srv), NEW i \in DOMAIN pool'
            PROVE  pool'[i] # ses'[t].srv
        BY <1>4, <2>1, <2>3, <3>2 DEF PoolInv, Exclusive
      <3>3. ASSUME NEW t \in Sessions, InLsid(ses'[t].srv), NEW u \in Sessions, ses'[u].srv = ses'[t].srv
            PROVE  u = t
        BY <1>4, <3>3 DEF PoolInv, Exclusive
      <3> QED  BY <3>1, <3>2, <3>3 DEF Exclusive
    <2>8. PoolClean'
      BY <1>1, <1>6, <2>1, Zenon DEF PoolInv, PoolClean, Returnable
    <2> QED  BY <2>4, <2>6, <2>7, <2>8 DEF PoolInv
  <1> QED  BY <1>1, <1>5, <1>6, Zenon

\* What Materialize does: the session keeps the server session it has, takes the
\* most recent one that has not timed out, or gets a new one.
TakesPooled(s, l) ==
    \E first, last \in DOMAIN pool :
       /\ first <= last /\ l = pool[first] /\ pool' = SubSeq(pool, first + 1, last)
       /\ srv' = [srv EXCEPT ![l] = [srv[l] EXCEPT !.stale = FALSE,
                                                   !.txn = StartedNumber(ses[s], srv[l].txn)]]
MakesNew(l) ==
    /\ l \in Lsid /\ ~srv[l].made /\ pool' = <<>>
    /\ \E n \in Nat : srv' = [srv EXCEPT ![l] = [NewServerSession(generation) EXCEPT !.txn = n]]

LEMMA Materializes ==
    ASSUME Types, NEW s \in Sessions, Materialize(s)
    PROVE  LET l == Materialized(s)
           IN  \/ InLsid(ses[s].srv) /\ l = ses[s].srv /\ Reuse(s) /\ pool' = pool
               \/ ~InLsid(ses[s].srv) /\ TakesPooled(s, l)
               \/ ~InLsid(ses[s].srv) /\ MakesNew(l)
  <1>1. \A p \in ServerSession : p.txn \in Nat /\ StartedNumber(ses[s], p.txn) \in Nat
    BY DEF ServerSession, StartedNumber
  <1>2. CASE InLsid(ses[s].srv)
    BY <1>2 DEF Materialize, Materialized
  <1>3. CASE ~InLsid(ses[s].srv) /\ Fresh # {}
    <2>1. PICK l \in Lsid : /\ Popped(l, pool')
                            /\ srv' = [srv EXCEPT ![l].stale = FALSE, ![l].txn = StartedNumber(ses[s], @)]
      BY <1>3 DEF Materialize
    <2>2. PICK first, last \in Fresh :
             /\ \A i \in Fresh : first <= i /\ i <= last
             /\ l = pool[first] /\ pool' = SubSeq(pool, first + 1, last)
      BY <2>1, Zenon DEF Popped
    <2>3. Fresh \subseteq DOMAIN pool /\ DOMAIN pool \subseteq Nat
      BY DEF Fresh, Types
    <2>4. (CHOOSE i \in Fresh : \A j \in Fresh : i <= j) = first
      BY <2>2, <2>3
    <2>5. Materialized(s) = l
      BY <1>3, <2>2, <2>4, Zenon DEF Materialized
    <2>6. srv[l] \in ServerSession
      BY DEF Types
    <2>7. srv' = [srv EXCEPT ![l] = [srv[l] EXCEPT !.stale = FALSE, !.txn = StartedNumber(ses[s], srv[l].txn)]]
      BY <2>1, <2>6, Zenon DEF Types, ServerSession
    <2>8. TakesPooled(s, l)
      BY <1>1, <2>2, <2>3, <2>6, <2>7, Zenon DEF TakesPooled
    <2> QED  BY <1>3, <2>5, <2>8
  <1>4. CASE ~InLsid(ses[s].srv) /\ Fresh = {}
    <2> DEFINE l == CHOOSE n \in Lsid : ~srv[n].made
    <2>1. /\ \E n \in Lsid : ~srv[n].made
          /\ pool' = <<>> /\ Materialized(s) = l
          /\ srv' = [srv EXCEPT ![l] = [NewServerSession(generation) EXCEPT !.txn = StartedNumber(ses[s], 0)]]
      BY <1>4, Zenon DEF Materialize, Materialized
    <2>2. l \in Lsid /\ ~srv[l].made
      BY <2>1
    <2> HIDE DEF l
    <2>3. StartedNumber(ses[s], 0) \in Nat
      BY DEF StartedNumber
    <2> QED  BY <1>4, <2>1, <2>2, <2>3, Zenon DEF MakesNew
  <1> QED  BY <1>2, <1>3, <1>4, Zenon

LEMMA SendKeeps ==
    ASSUME Types, NEW s \in Sessions, NEW m, Send(s, m)
    PROVE  \E y : Shaped(y) /\ y.srv = Materialized(s) /\ Becomes(s, y)
  <1> DEFINE x == Selected(ses[s])
             l == Materialized(s)
             y == [x EXCEPT !.srv = l, !.started = FALSE,
                     !.txn.pinned = IF Active(x) /\ Sharded THEN m ELSE @,
                     !.txn.state = IF x.txn.state = "STARTING" THEN "IN_PROGRESS" ELSE @,
                     !.txn.attempt = IF Finishing(op[s]) THEN @ + 1 ELSE @]
  <1>1. Shaped(x)
    BY SelectedKeeps DEF Keeps, Types
  <1>2. Becomes(s, y)
    BY Zenon DEF Send, Becomes
  <1> HIDE DEF x, l
  <1>3. Shaped(y) /\ y.srv = l
    BY <1>1, Zenon DEF Shaped
  <1> QED  BY <1>2, <1>3, Zenon DEF l

\* The session s gets the server session l from outside: nobody has it after.
LEMMA TakenInv ==
    ASSUME PoolInv, NEW s \in Sessions, ~InLsid(ses[s].srv), NEW l \in Lsid,
           NEW y, Shaped(y), y.srv = l, Becomes(s, y), generation' = generation,
           pool' \in Seq(Lsid), NEW k \in Nat, Len(pool') + k <= Len(pool),
           \A i \in DOMAIN pool' : pool'[i] = pool[i + k] /\ pool'[i] # l,
           NEW p \in ServerSession, p.made, srv' = [srv EXCEPT ![l] = p],
           \A t \in Sessions : ses[t].srv # l
    PROVE  PoolInv'
  <1>1. /\ ses' = [t \in Sessions |-> ses'[t]] /\ ses'[s].srv = l
        /\ \A t \in Sessions : t # s => ses'[t] = ses[t]
        /\ \A t \in Sessions : Shaped(ses'[t]) /\ ses'[t].srv \in Lsid \cup {Empty, Ended}
    BY BecomesSrv, Zenon DEF PoolInv
  <1>2. \A i \in DOMAIN pool' : i + k \in DOMAIN pool /\ pool'[i] \in Lsid
    BY DEF PoolInv, Types
  <1>3. /\ srv' \in [Lsid -> ServerSession] /\ srv'[l] = p
        /\ \A n \in Lsid : n # l => srv'[n] = srv[n]
    BY DEF PoolInv, Types
  <1>4. Types'
    BY <1>1, <1>3, Zenon DEF PoolInv, Types
  <1>5. Made'
    BY <1>1, <1>2, <1>3 DEF PoolInv, Made, InLsid
  <1>6. Exclusive'
    <2>1. ASSUME NEW i \in DOMAIN pool', NEW j \in DOMAIN pool', pool'[i] = pool'[j]
          PROVE  i = j
      <3>1. i + k = j + k
        BY <1>2, <2>1, Zenon DEF PoolInv, Exclusive
      <3>2. i \in Nat /\ j \in Nat
        OBVIOUS
      <3> QED  BY <3>1, <3>2
    <2>2. ASSUME NEW t \in Sessions, InLsid(ses'[t].srv), NEW i \in DOMAIN pool'
          PROVE  pool'[i] # ses'[t].srv
      <3>1. i + k \in DOMAIN pool /\ pool'[i] = pool[i + k] /\ pool'[i] # l
        BY <1>2
      <3>2. CASE t = s
        BY <1>1, <3>1, <3>2, Zenon
      <3>3. CASE t # s
        <4>1. ses'[t] = ses[t] /\ InLsid(ses[t].srv)
          BY <1>1, <2>2, <3>3, Zenon
        <4>2. pool[i + k] # ses[t].srv
          BY <3>1, <4>1, Zenon DEF PoolInv, Exclusive
        <4> QED  BY <3>1, <4>1, <4>2, Zenon
      <3> QED  BY <3>2, <3>3
    <2>3. ASSUME NEW t \in Sessions, InLsid(ses'[t].srv), NEW u \in Sessions, ses'[u].srv = ses'[t].srv
          PROVE  u = t
      <3>1. \A v \in Sessions : v # s => ses'[v].srv = ses[v].srv /\ ses[v].srv # l
        BY <1>1, Zenon
      <3>2. t # s /\ u # s => u = t
        BY <1>1, <2>3 DEF PoolInv, Exclusive
      <3> QED  BY <1>1, <2>3, <3>1, <3>2
    <2> QED  BY <2>1, <2>2, <2>3, Zenon DEF Exclusive
  <1>7. PoolClean'
    BY <1>2, <1>3 DEF PoolInv, PoolClean
  <1> QED  BY <1>4, <1>5, <1>6, <1>7 DEF PoolInv

LEMMA ReuseTended ==
    ASSUME Types, NEW s \in Sessions, InLsid(ses[s].srv), Reuse(s)
    PROVE  Tended
  <1> DEFINE l == ses[s].srv
             p == srv[l]
             n == IF NewNumber(op[s]) THEN p.txn + 1 ELSE p.txn
             q == [p EXCEPT !.stale = FALSE, !.txn = n]
  <1>1. l \in Lsid /\ p \in ServerSession
    BY DEF InLsid, Types
  <1>2. srv' = [srv EXCEPT ![l] = q]
    BY <1>1, Zenon DEF Reuse, Types, ServerSession
  <1> HIDE DEF l, p
  <1>3. n \in Nat
    BY <1>1 DEF ServerSession
  <1> HIDE DEF n
  <1>4. q \in ServerSession /\ q.made = p.made /\ q.gen = p.gen /\ q.dirty = p.dirty
    BY <1>1, <1>3, Zenon DEF ServerSession
  <1> HIDE DEF q
  <1> QED  BY <1>1, <1>2, <1>4, Zenon DEF Tended, Types, p

LEMMA SendInv ==
    ASSUME PoolInv, NEW s \in Sessions, NEW m, Send(s, m)
    PROVE  PoolInv'
  <1> DEFINE l == Materialized(s)
  <1>1. PICK y : Shaped(y) /\ y.srv = l /\ Becomes(s, y)
    BY SendKeeps DEF PoolInv
  <1>2. Materialize(s) /\ generation' = generation
    BY Zenon DEF Send
  <1>3. \/ InLsid(ses[s].srv) /\ l = ses[s].srv /\ Reuse(s) /\ pool' = pool
        \/ ~InLsid(ses[s].srv) /\ TakesPooled(s, l)
        \/ ~InLsid(ses[s].srv) /\ MakesNew(l)
    BY <1>2, Materializes DEF PoolInv
  <1> HIDE DEF l
  <1>4. CASE InLsid(ses[s].srv) /\ l = ses[s].srv /\ Reuse(s) /\ pool' = pool
    <2>1. Tended
      BY <1>4, ReuseTended DEF PoolInv
    <2> QED  BY <1>1, <1>2, <1>4, <2>1, OneQuiet, QuietInv DEF PoolInv, Keeps
  <1>5. CASE ~InLsid(ses[s].srv) /\ TakesPooled(s, l)
    <2>1. PICK first, last \in DOMAIN pool :
             /\ first <= last /\ l = pool[first] /\ pool' = SubSeq(pool, first + 1, last)
             /\ srv' = [srv EXCEPT ![l] = [srv[l] EXCEPT !.stale = FALSE,
                                                         !.txn = StartedNumber(ses[s], srv[l].txn)]]
      BY <1>5, Zenon DEF TakesPooled
    <2> DEFINE n == StartedNumber(ses[s], srv[l].txn)
    <2>2. n \in Nat
      BY <2>1 DEF StartedNumber, PoolInv, Types, ServerSession
    <2> HIDE DEF n
    <2> DEFINE p == [srv[l] EXCEPT !.stale = FALSE, !.txn = n]
    <2>3. first \in Nat /\ last \in Nat /\ DOMAIN pool = 1..Len(pool) /\ Len(pool) \in Nat
      BY DEF PoolInv, Types
    <2>4. \A i \in first + 1..last : pool[i] \in Lsid
      BY <2>3 DEF PoolInv, Types
    <2>5. /\ pool' \in Seq(Lsid) /\ Len(pool') = last - first
          /\ \A i \in 1..last - first : pool'[i] = pool[first + i]
      <3>1. /\ SubSeq(pool, first + 1, last) \in Seq(Lsid)
            /\ Len(SubSeq(pool, first + 1, last)) = IF first + 1 <= last THEN last - (first + 1) + 1 ELSE 0
            /\ \A i \in 1..last - (first + 1) + 1 :
                 SubSeq(pool, first + 1, last)[i] = pool[first + 1 + i - 1]
        BY <2>3, <2>4 DEF SubSeq
      <3> QED  BY <2>1, <2>3, <3>1
    <2>6. l \in Lsid /\ srv[l].made /\ srv[l] \in ServerSession
      BY <2>1 DEF PoolInv, Types, Made
    <2>7. p \in ServerSession /\ p.made
      BY <2>2, <2>6, Zenon DEF ServerSession
    <2> HIDE DEF p
    <2>8. \A t \in Sessions : ses[t].srv # l
      BY <2>1, <2>6 DEF PoolInv, Exclusive, InLsid
    <2>9. Len(pool') + first <= Len(pool)
      BY <2>3, <2>5
    <2>10. \A i \in DOMAIN pool' : pool'[i] = pool[i + first] /\ pool'[i] # l
      <3> SUFFICES ASSUME NEW i \in DOMAIN pool'
                   PROVE  pool'[i] = pool[i + first] /\ pool'[i] # l
        OBVIOUS
      <3>1. i \in 1..last - first /\ i + first \in DOMAIN pool /\ i + first # first /\ first + i = i + first
        BY <2>3, <2>5
      <3>2. pool'[i] = pool[i + first]
        BY <2>5, <3>1
      <3> QED  BY <2>1, <3>1, <3>2, Zenon DEF PoolInv, Exclusive
    <2> QED  BY <1>1, <1>2, <1>5, <2>1, <2>3, <2>5, <2>6, <2>7, <2>8, <2>9, <2>10, TakenInv, Zenon DEF p, n
  <1>6. CASE ~InLsid(ses[s].srv) /\ MakesNew(l)
    <2>1. PICK n \in Nat : srv' = [srv EXCEPT ![l] = [NewServerSession(generation) EXCEPT !.txn = n]]
      BY <1>6, Zenon DEF MakesNew
    <2> DEFINE p == [NewServerSession(generation) EXCEPT !.txn = n]
    <2>2. p \in ServerSession /\ p.made
      BY Zenon DEF ServerSession, NewServerSession, PoolInv, Types
    <2> HIDE DEF p
    <2>3. l \in Lsid /\ ~srv[l].made /\ pool' = <<>>
      BY <1>6 DEF MakesNew
    <2>4. \A t \in Sessions : ses[t].srv # l
      BY <2>3 DEF PoolInv, Made, InLsid
    <2>5. pool' \in Seq(Lsid) /\ Len(pool') + 0 <= Len(pool) /\ DOMAIN pool' = {}
      BY <2>3 DEF PoolInv, Types
    <2> QED  BY <1>1, <1>2, <1>6, <2>1, <2>2, <2>3, <2>4, <2>5, TakenInv, Zenon DEF p
  <1> QED  BY <1>3, <1>4, <1>5, <1>6

-----------------------------------------------------------------------------
LEMMA PoolInit == Init => PoolInv
  <1> SUFFICES ASSUME Init
               PROVE  PoolInv
    OBVIOUS
  <1>1. pool = <<>> /\ generation = 0 /\ pool \in Seq(Lsid) /\ DOMAIN pool = {}
    BY DEF Init
  <1>2. \A l \in Lsid : srv[l] = [NewServerSession(0) EXCEPT !.made = FALSE]
    BY DEF Init
  <1>3. [NewServerSession(0) EXCEPT !.made = FALSE] \in ServerSession
    BY Zenon DEF NewServerSession, ServerSession
  <1>4. srv \in [Lsid -> ServerSession]
    BY <1>3 DEF Init
  <1>5. /\ ses = [s \in Sessions |-> ses[s]]
        /\ \A s \in Sessions : Shaped(ses[s]) /\ ses[s].srv = Ended
    BY NewKeeps, Zenon DEF Init
  <1>6. ~InLsid(Ended)
    BY DEF InLsid, Ended, Lsid
  <1> QED  BY <1>1, <1>4, <1>5, <1>6, Zenon DEF PoolInv, Types, Made, Exclusive, PoolClean

LEMMA PoolStep == PoolInv /\ [Next]_vars => PoolInv'
  <1> SUFFICES ASSUME PoolInv, [Next]_vars
               PROVE  PoolInv'
    OBVIOUS
  <1> USE DEF PoolInv
  <1>1. CASE UNCHANGED vars
    BY <1>1, Zenon DEF vars, Types, Made, Exclusive, PoolClean, Shaped
  <1>2. ASSUME NEW s \in Sessions, Operation(s)
        PROVE  PoolInv'
    <2> HIDE DEF PoolInv
    <2>1. CASE StartSession(s)
      BY <2>1, StartSessionInv
    <2>2. CASE EndSession(s)
      BY <2>2, EndSessionInv
    <2>3. CASE \E kind \in Kinds \cap {"write", "many"} : Write(s, kind)
      BY <2>3, WriteQuiet, QuietInv DEF PoolInv
    <2>4. CASE \E r \in Requests : BulkWrite(s, r)
      BY <2>4, BulkWriteQuiet, QuietInv DEF PoolInv
    <2>5. CASE StartTransaction(s) \/ WithTransaction(s) \/ TransactionAgain(s)
      BY <2>5, BeginQuiet, QuietInv, Zenon DEF PoolInv, StartTransaction, WithTransaction, TransactionAgain
    <2>6. CASE CommitEmpty(s) \/ Commit(s) \/ Abort(s)
      BY <2>6, FinishQuiet, QuietInv DEF PoolInv
    <2>7. CASE CallbackReturns(s) \/ CallbackRaises(s) \/ Return(s) \/ CommitAgain(s) \/ RaiseError(s)
      BY <2>7, StepQuiet, QuietInv, Zenon DEF PoolInv, CallbackReturns, CallbackRaises, Return, CommitAgain, RaiseError
    <2> QED  BY <1>2, <2>1, <2>2, <2>3, <2>4, <2>5, <2>6, <2>7, Zenon DEF Operation
  <1>3. ASSUME NEW s \in Sessions, Attempt(s)
        PROVE  PoolInv'
    <2> HIDE DEF PoolInv
    <2>1. CASE \E m : Send(s, m)
      BY <2>1, SendInv
    <2>2. CASE \A m : ~Send(s, m)
      BY <1>3, <2>2, AttemptQuiet, QuietInv DEF PoolInv
    <2> QED  BY <2>1, <2>2
  <1>4. ASSUME NEW l \in Lsid, Expire(l)
        PROVE  PoolInv'
    <2> HIDE DEF PoolInv
    <2> QED  BY <1>4, ExpireQuiet, QuietInv DEF PoolInv
  <1> HIDE DEF PoolInv
  <1> QED  BY <1>1, <1>2, <1>3, <1>4, ForkInv DEF Next

\* A server session serves one ClientSession at a time, however many there are,
\* whatever fails and whichever end, time out or fork meanwhile.
THEOREM ExclusiveCorrect == Spec => []Exclusive
  <1>1. PoolInv => Exclusive
    BY DEF PoolInv
  <1> QED  BY <1>1, PoolInit, PoolStep, PTL DEF Spec

\* return_server_session lets no dirty session, and none of an earlier process,
\* into the pool, and none becomes dirty there.
THEOREM PoolCleanCorrect == Spec => []PoolClean
  <1>1. PoolInv => PoolClean
    BY DEF PoolInv
  <1> QED  BY <1>1, PoolInit, PoolStep, PTL DEF Spec


-----------------------------------------------------------------------------
(* Transaction numbers.                                                    *)

\* Records with the fields of a session, of a bulk write and of an operation.
Full(x) ==
    /\ Shaped(x)
    /\ x.txn \in [state : {x.txn.state}, attempt : {x.txn.attempt}, completed : {x.txn.completed},
                  pinned : {x.txn.pinned}]
    /\ x.hist \in [id : {x.hist.id}, failed : {x.hist.failed}, begun : {x.hist.begun},
                   commits : {x.hist.commits}]
ShapedBulk(b) == b \in [gen : {b.gen}, cur : {b.cur}, next : {b.next}, offset : {b.offset},
                        started : BOOLEAN, request : {b.request}, n : {b.n}, errors : {b.errors}]
ShapedOp(o) ==
    /\ o \in [pc : {"attempt", "sent", "more"}, id : {o.id},
              kind : {"write", "many", "bulk", "commit", "abort"}, retryable : BOOLEAN,
              retrying : BOOLEAN, attempts : {o.attempts}, max : {o.max}, csot : {o.csot},
              overloaded : {o.overloaded}, last : {o.last}, bulk : {o.bulk}]
    /\ o.kind = "bulk" => ShapedBulk(o.bulk)

\* A bulk write has a run to work on, or one to begin with.
HasRun(o) ==
    /\ o.pc # "attempt" => o.bulk.cur # NoRun
    /\ o.bulk.cur = NoRun => o.bulk.gen # <<>> /\ Head(o.bulk.gen) # NoRun

\* An operation belongs to the running transaction or, when there is none, it
\* made the session forget the last one with its first attempt.
Belongs(x, o) ==
    IF Active(x) THEN o.kind # "bulk" /\ o.id = x.hist.id
    ELSE ~Finishing(o) /\ (o.retrying \/ o.pc # "attempt" => x.txn.state = "NONE")

\* A number is owed by a session without a server session that will need one.
Owes(x, o) ==
    /\ x.txn.state \in {"IN_PROGRESS", "COMMITTED"} => InLsid(x.srv)
    /\ ~InLsid(x.srv) =>
         /\ x.txn.state = "STARTING" => x.started
         /\ o # Idle /\ o.retryable /\ ~Active(x) => x.started

Local(x, o) ==
    /\ Full(x) /\ Owes(x, o)
    /\ o # Idle => /\ ShapedOp(o) /\ Belongs(x, o) /\ x.srv # Ended
                   /\ o.kind = "bulk" => HasRun(o)
                   /\ Finishing(o) => InLsid(x.srv)

\* What the number of the server session l was used for.
Uses(U, S, l) == {u[3] : u \in {v \in U : v[1] = l /\ v[2] = S[l].txn}}

\* A number that was used belongs to what the session will use it for.
Right(x, o, c) ==
    /\ o # Idle /\ o.retryable /\ ~Active(x) /\ ~NewNumber(o) => c = Command(Entering(o))
    /\ Active(x) \/ (x.txn.state = "COMMITTED" /\ o = Idle) => c = x.hist.id

\* No number above the current one was used.
Numbered ==
    \A u \in used : /\ u = <<u[1], u[2], u[3]>> /\ u[1] \in Lsid /\ u[2] \in Nat
                    /\ srv[u[1]].made /\ u[2] <= srv[u[1]].txn

NumberInv ==
    /\ op = [s \in Sessions |-> op[s]]
    /\ Numbered /\ NumberUnique
    /\ \A s \in Sessions :
         /\ Local(ses[s], op[s])
         /\ InLsid(ses[s].srv) => \A c \in Uses(used, srv, ses[s].srv) : Right(ses[s], op[s], c)

LEMMA NotIdle ==
    ASSUME NEW o, o.pc # "idle"
    PROVE  o # Idle
  BY DEF Idle

-----------------------------------------------------------------------------
(* What an attempt does to its session.                                    *)

\* y is x as an attempt leaves it: the transaction may have to start again, and
\* one that ended may be forgotten.
Later(x, y) ==
    /\ Full(y) /\ y.srv = x.srv /\ y.started = x.started
    /\ Active(y) <=> Active(x)
    /\ \/ y.txn.state = x.txn.state
       \/ Active(x) /\ y.txn.state = "STARTING"
       \/ ~Active(x) /\ y.txn.state = "NONE"
    /\ Active(x) \/ y.txn.state # "NONE" => y.hist.id = x.hist.id

LEMMA LaterRefl == ASSUME NEW x, Full(x) PROVE Later(x, x)
  BY DEF Later

LEMMA LaterTrans ==
    ASSUME NEW x, NEW y, NEW z, Later(x, y), Later(y, z)
    PROVE  Later(x, z)
  BY Zenon DEF Later

LEMMA UnpinLater ==
    ASSUME NEW x, Full(x)
    PROVE  Later(x, Unpin(x)) /\ Unpin(x).txn.state = x.txn.state
  <1>1. /\ Shaped(Unpin(x)) /\ Unpin(x).srv = x.srv /\ Unpin(x).started = x.started
        /\ Unpin(x).hist = x.hist /\ Unpin(x).txn = [x.txn EXCEPT !.pinned = NoMongos]
    BY DEF Unpin, Full, Shaped
  <1>2. Unpin(x).txn.state = x.txn.state /\ Full(Unpin(x))
    BY <1>1 DEF Full
  <1> QED  BY <1>1, <1>2 DEF Later, Active

LEMMA SelectedLater ==
    ASSUME NEW x, Full(x)
    PROVE  Later(x, Selected(x)) /\ (~Active(x) => Selected(x).txn.state = "NONE")
  <1>1. CASE Active(x)
    BY <1>1, LaterRefl DEF Selected
  <1>2. CASE ~Active(x)
    <2> DEFINE y == [x EXCEPT !.txn = NoTransaction, !.hist = NoHistory]
    <2>1. Selected(x) = y
      BY <1>2 DEF Selected
    <2>2. Shaped(y) /\ y.srv = x.srv /\ y.started = x.started /\ y.hist = NoHistory /\ y.txn = NoTransaction
      BY Zenon DEF Full, Shaped
    <2> HIDE DEF y
    <2>3. Full(y) /\ y.txn.state = "NONE"
      BY <2>2 DEF Full, NoHistory, NoTransaction
    <2> QED  BY <1>2, <2>1, <2>2, <2>3 DEF Later, Active
  <1> QED  BY <1>1, <1>2

LEMMA RevertedLater ==
    ASSUME NEW x, Full(x), Active(x)
    PROVE  Later(x, Reverted(x))
  <1> DEFINE y == Reverted(x)
             state == IF x.txn.completed THEN x.txn.state ELSE "STARTING"
  <1>1. /\ Shaped(y) /\ y.srv = x.srv /\ y.started = x.started /\ y.hist = x.hist
        /\ y.txn = [[x.txn EXCEPT !.attempt = 0] EXCEPT !.state = state]
    BY Zenon DEF Reverted, Full, Shaped
  <1> HIDE DEF y
  <1>2. y.txn.state = state /\ Full(y)
    BY <1>1, Zenon DEF Full
  <1> QED  BY <1>1, <1>2 DEF Later, Active, y

LEMMA TriedLater ==
    ASSUME NEW x, Full(x), NEW s
    PROVE  Later(x, Tried(s, x)) /\ Tried(s, x).txn.state = x.txn.state
  <1> DEFINE y == [x EXCEPT !.hist.commits = @ + 1]
  <1>1. /\ Shaped(y) /\ y.srv = x.srv /\ y.started = x.started /\ y.txn = x.txn
        /\ y.hist = [x.hist EXCEPT !.commits = @ + 1]
    BY DEF Full, Shaped
  <1> HIDE DEF y
  <1>2. y.hist.id = x.hist.id /\ Full(y)
    BY <1>1 DEF Full
  <1>3. Later(x, y)
    BY <1>1, <1>2 DEF Later, Active
  <1> QED  BY <1>1, <1>3, LaterRefl DEF Tried, y

LEMMA CompletedLater ==
    ASSUME NEW x, Full(x)
    PROVE  Later(x, [x EXCEPT !.txn.completed = TRUE, !.hist.begun = TRUE])
  <1> DEFINE y == [x EXCEPT !.txn.completed = TRUE, !.hist.begun = TRUE]
  <1>1. /\ Shaped(y) /\ y.srv = x.srv /\ y.started = x.started
        /\ y.txn = [x.txn EXCEPT !.completed = TRUE] /\ y.hist = [x.hist EXCEPT !.begun = TRUE]
    BY Zenon DEF Full, Shaped
  <1> HIDE DEF y
  <1>2. y.hist.id = x.hist.id /\ y.txn.state = x.txn.state /\ Full(y)
    BY <1>1, Zenon DEF Full
  <1> QED  BY <1>1, <1>2, Zenon DEF Later, Active, y

\* The session y with the operation o may use its number as x with q may.
Follows(x, q, y, o) ==
    /\ Local(y, o) /\ y.srv = x.srv
    /\ \A c : Right(x, q, c) => Right(y, o, c)

\* The operation ends.
LEMMA FinishedFollows ==
    ASSUME NEW x, NEW o, o # Idle, Local(x, o), NEW z, Later(x, z), ~Active(x) => z.txn.state = "NONE",
           NEW outcome
    PROVE  Follows(x, o, Finished(o, z, outcome), Idle)
  <1> DEFINE y == Finished(o, z, outcome)
  <1>1. o.kind \in {"write", "many", "bulk", "commit", "abort"}
    BY DEF Local, ShapedOp
  <1>2. CASE o.kind = "commit"
    <2> DEFINE call == IF InCall(z) THEN [z.call EXCEPT !.step = "decide", !.last = outcome] ELSE z.call
               w == [z EXCEPT !.txn.state = "COMMITTED", !.call = call]
    <2>1. y = w
      BY <1>2 DEF Finished
    <2>2. Shaped(w) /\ w.srv = z.srv /\ w.hist = z.hist /\ w.txn = [z.txn EXCEPT !.state = "COMMITTED"]
      BY Zenon DEF Later, Full, Shaped
    <2> HIDE DEF w, y
    <2>3. Full(w) /\ w.txn.state = "COMMITTED"
      BY <2>2, Zenon DEF Later, Full
    <2>4. Active(x) /\ InLsid(x.srv)
      BY <1>2 DEF Local, Belongs, Finishing
    <2> QED  BY <2>1, <2>2, <2>3, <2>4, Zenon DEF Follows, Local, Later, Right, Owes, Active, y
  <1>3. CASE o.kind = "abort"
    <2> DEFINE v == [z EXCEPT !.txn.state = "ABORTED", !.call.step = IF @ = "abort" THEN "decide" ELSE @]
    <2>1. y = Unpin(v)
      BY <1>3 DEF Finished
    <2>2. Shaped(v) /\ v.srv = z.srv /\ v.hist = z.hist /\ v.txn = [z.txn EXCEPT !.state = "ABORTED"]
      BY Zenon DEF Later, Full, Shaped
    <2> HIDE DEF v, y
    <2>3. Full(v) /\ v.txn.state = "ABORTED"
      BY <2>2, Zenon DEF Later, Full
    <2>4. Full(y) /\ y.txn.state = "ABORTED" /\ y.srv = x.srv
      BY <2>1, <2>2, <2>3, UnpinLater, Zenon DEF Later
    <2> QED  BY <2>4, Zenon DEF Follows, Local, Right, Owes, Active, y
  <1>4. CASE o.kind \notin {"commit", "abort"}
    <2> DEFINE failed == outcome # "ok" /\ Active(z)
               last == IF InCall(z) THEN outcome ELSE z.call.last
               w == [z EXCEPT !.hist.failed = failed, !.call.last = last]
    <2>1. y = w
      BY <1>4 DEF Finished
    <2> HIDE DEF failed, last
    <2>2. Shaped(w) /\ w.srv = z.srv /\ w.started = z.started /\ w.txn = z.txn /\ w.hist = [z.hist EXCEPT !.failed = failed]
      BY Zenon DEF Later, Full, Shaped
    <2> HIDE DEF w, y
    <2>3. Full(w) /\ w.hist.id = z.hist.id
      BY <2>2, Zenon DEF Later, Full
    <2>4. Later(x, w) /\ (~Active(x) => w.txn.state = "NONE")
      BY <2>2, <2>3, Zenon DEF Later, Active
    <2> HIDE DEF Later
    <2>5. Local(w, Idle)
      BY <2>4, Zenon DEF Local, Later, Owes, Active
    <2>6. \A c : Right(x, o, c) => Right(w, Idle, c)
      BY <2>4, Zenon DEF Later, Right, Active
    <2> QED  BY <2>1, <2>4, <2>5, <2>6, Zenon DEF Follows, Later, y
  <1> QED  BY <1>1, <1>2, <1>3, <1>4

\* A bulk write is entered again with the command that it was left with.
LEMMA EnteredAgain ==
    ASSUME NEW b, ShapedBulk(b), NEW again \in BOOLEAN
    PROVE  /\ ShapedBulk(Entered(b, again))
           /\ Entered(b, again).cur = IF b.cur = NoRun THEN Head(b.gen) ELSE b.cur
           /\ Entered(b, again).offset = IF b.cur = NoRun THEN 0 ELSE b.offset
  <1> DEFINE c == IF b.cur = NoRun
                  THEN [b EXCEPT !.cur = Head(b.gen), !.gen = Tail(b.gen), !.next = NoRun, !.offset = 0]
                  ELSE b
  <1>1. /\ ShapedBulk(c) /\ c.cur = (IF b.cur = NoRun THEN Head(b.gen) ELSE b.cur)
        /\ c.offset = IF b.cur = NoRun THEN 0 ELSE b.offset
    BY Zenon DEF ShapedBulk
  <1>2. Entered(b, again) = NextRun(c, again)
    BY DEF Entered
  <1> HIDE DEF c
  <1>3. ShapedBulk(NextRun(c, again)) /\ NextRun(c, again).cur = c.cur /\ NextRun(c, again).offset = c.offset
    BY <1>1, Zenon DEF ShapedBulk, NextRun
  <1> QED  BY <1>1, <1>2, <1>3

\* What Entering gives, and that its command depends on the run and the offset.
LEMMA EnteringShaped ==
    ASSUME NEW o, ShapedOp(o), o.kind = "bulk" => HasRun(o)
    PROVE  LET e == Entering(o) IN
           /\ ShapedOp(e) /\ e.pc = "sent" /\ e.id = o.id /\ e.kind = o.kind /\ e.retryable = o.retryable
           /\ o.kind = "bulk" => /\ HasRun(e) /\ e.bulk.started = o.retryable
                                 /\ e.bulk.cur = IF o.bulk.cur = NoRun THEN Head(o.bulk.gen) ELSE o.bulk.cur
                                 /\ e.bulk.offset = IF o.bulk.cur = NoRun THEN 0 ELSE o.bulk.offset
  <1> DEFINE e == Entering(o)
  <1>1. CASE o.kind # "bulk"
    <2>1. e = [o EXCEPT !.pc = "sent"]
      BY <1>1 DEF Entering
    <2> QED  BY <1>1, <2>1 DEF ShapedOp
  <1>2. CASE o.kind = "bulk"
    <2> DEFINE b == IF o.pc = "attempt" THEN Entered(o.bulk, o.retrying) ELSE o.bulk
               c == [b EXCEPT !.started = o.retryable]
    <2>1. e = [o EXCEPT !.pc = "sent", !.bulk = c]
      BY <1>2 DEF Entering
    <2>2. /\ ShapedBulk(b) /\ b.cur = (IF o.bulk.cur = NoRun THEN Head(o.bulk.gen) ELSE o.bulk.cur)
          /\ b.offset = (IF o.bulk.cur = NoRun THEN 0 ELSE o.bulk.offset)
          /\ b.cur # NoRun
      BY <1>2, EnteredAgain DEF ShapedOp, HasRun
    <2> HIDE DEF b
    <2>3. /\ ShapedBulk(c) /\ c.cur = b.cur /\ c.offset = b.offset /\ c.started = o.retryable
      BY <2>2, Zenon DEF ShapedBulk, ShapedOp
    <2> HIDE DEF c
    <2>4. /\ e.pc = "sent" /\ e.id = o.id /\ e.kind = o.kind /\ e.retryable = o.retryable /\ e.bulk = c
          /\ ShapedOp(e)
      BY <1>2, <2>1, <2>3, Zenon DEF ShapedOp
    <2> QED  BY <1>2, <2>2, <2>3, <2>4, Zenon DEF HasRun
  <1> QED  BY <1>1, <1>2, Zenon

LEMMA SameCommand ==
    ASSUME NEW o, NEW p, o.id = p.id, o.kind = p.kind,
           o.kind = "bulk" => o.bulk.cur = p.bulk.cur /\ o.bulk.offset = p.bulk.offset
    PROVE  Command(o) = Command(p)
  BY Zenon DEF Command, Batch

\* The operation is tried again.
Again(o, attempts, max, overloaded, last) ==
    [o EXCEPT !.pc = "attempt", !.retrying = TRUE, !.attempts = attempts, !.max = max,
              !.overloaded = overloaded, !.last = last]

LEMMA AgainFollows ==
    ASSUME NEW x, NEW o, o # Idle, Local(x, o), NEW y, Later(x, y), ~Active(x) => y.txn.state = "NONE",
           NEW attempts, NEW max, NEW overloaded, NEW last
    PROVE  Follows(x, o, y, Again(o, attempts, max, overloaded, last))
  <1> DEFINE p == Again(o, attempts, max, overloaded, last)
  <1>1. ShapedOp(o)
    BY DEF Local
  <1>2. /\ ShapedOp(p) /\ p.pc = "attempt" /\ p.retrying /\ p.id = o.id /\ p.kind = o.kind
        /\ p.retryable = o.retryable /\ p.bulk = o.bulk
    BY <1>1, Zenon DEF ShapedOp, Again
  <1> HIDE DEF p
  <1>3. p # Idle
    BY <1>2 DEF Idle
  <1>4. o.kind = "bulk" => HasRun(o) /\ HasRun(p)
    BY <1>2, Zenon DEF Local, HasRun
  <1>5. Command(Entering(p)) = Command(Entering(o)) /\ NewNumber(p) = NewNumber(o)
    BY <1>1, <1>2, <1>4, EnteringShaped, SameCommand DEF NewNumber
  <1>6. Local(y, p)
    BY <1>2, <1>3, <1>4, Zenon DEF Local, Later, Belongs, Owes, Finishing, Active
  <1>7. \A c : Right(x, o, c) => Right(y, p, c)
    BY <1>2, <1>3, <1>5, Zenon DEF Right, Later
  <1> QED  BY <1>6, <1>7, Zenon DEF Follows, Later, p

\* The reply to a command of a bulk write.
LEMMA RepliedShaped ==
    ASSUME NEW b, ShapedBulk(b)
    PROVE  ShapedBulk(Replied(b)) /\ Replied(b).started = FALSE
  <1> DEFINE m == Merged(b)
  <1>1. ShapedBulk(m) /\ m.started = FALSE
    <2> DEFINE n == b.n + Cardinality(Writes(b))
               errors == b.errors \cup Refuses(b)
    <2>1. m = [b EXCEPT !.n = n, !.errors = errors, !.started = FALSE]
      BY DEF Merged
    <2> HIDE DEF n, errors, m
    <2> QED  BY <2>1, Zenon DEF ShapedBulk
  <1> HIDE DEF m
  <1>2. ShapedBulk(Advanced(m)) /\ Advanced(m).started = FALSE
    <2> DEFINE offset == m.offset + Len(Batch(m))
               c == [m EXCEPT !.cur = m.next, !.offset = 0]
    <2>1. Advanced(m) \in {[m EXCEPT !.offset = offset], [m EXCEPT !.cur = NoRun], NextRun(c, FALSE)}
      BY DEF Advanced
    <2> HIDE DEF offset
    <2>2. ShapedBulk(c) /\ c.started = FALSE
      BY <1>1, Zenon DEF ShapedBulk
    <2> HIDE DEF c
    <2>3. ShapedBulk(NextRun(c, FALSE)) /\ NextRun(c, FALSE).started = FALSE
      BY <2>2, Zenon DEF ShapedBulk, NextRun
    <2>4. /\ ShapedBulk([m EXCEPT !.offset = offset]) /\ [m EXCEPT !.offset = offset].started = FALSE
          /\ ShapedBulk([m EXCEPT !.cur = NoRun]) /\ [m EXCEPT !.cur = NoRun].started = FALSE
      BY <1>1 DEF ShapedBulk
    <2> QED  BY <2>1, <2>3, <2>4, Zenon
  <1> QED  BY <1>1, <1>2 DEF Replied, m

-----------------------------------------------------------------------------
(* A step of one session.                                                  *)

\* The session s becomes x and works at o; the others go on.
Moves(s, x, o) ==
    /\ ses'[s] = x /\ op'[s] = o /\ op' = [t \in Sessions |-> op'[t]]
    /\ \A t \in Sessions : t # s => ses'[t] = ses[t] /\ op'[t] = op[t]

SameNumbers == \A l \in Lsid : srv'[l].made = srv[l].made /\ srv'[l].txn = srv[l].txn

\* No step of another session touches the number of the server session l.
LEMMA SameUses ==
    ASSUME NEW l, used' = used, srv'[l].txn = srv[l].txn
    PROVE  Uses(used', srv', l) = Uses(used, srv, l)
  BY DEF Uses

LEMMA MoveInv ==
    ASSUME PoolInv, NumberInv, NEW s \in Sessions, NEW x, NEW o, Moves(s, x, o), Local(x, o), used' = used,
           \A l \in Lsid : /\ srv'[l].made = srv[l].made
                           /\ \/ srv'[l].txn = srv[l].txn
                              \/ l = ses[s].srv /\ srv'[l].txn = srv[l].txn + 1,
           InLsid(x.srv) => /\ x.srv = ses[s].srv
                            /\ srv'[x.srv].txn = srv[x.srv].txn => \A c \in Uses(used, srv, x.srv) : Right(x, o, c)
    PROVE  NumberInv'
  <1>1. \A l \in Lsid : srv[l].txn \in Nat
    BY Zenon DEF PoolInv, Types, ServerSession
  <1>2. \A u \in used : u = <<u[1], u[2], u[3]>> /\ u[1] \in Lsid /\ u[2] \in Nat /\ u[2] <= srv[u[1]].txn /\ srv[u[1]].made
    BY Zenon DEF NumberInv, Numbered
  <1>3. Numbered'
    BY <1>1, <1>2 DEF Numbered
  <1>4. NumberUnique'
    BY Zenon DEF NumberInv, NumberUnique
  <1>5. ASSUME NEW t \in Sessions, t # s
        PROVE  /\ Local(ses'[t], op'[t])
               /\ InLsid(ses'[t].srv) => \A c \in Uses(used', srv', ses'[t].srv) : Right(ses'[t], op'[t], c)
    <2> DEFINE l == ses[t].srv
    <2>1. ses'[t] = ses[t] /\ op'[t] = op[t]
      BY <1>5, Zenon DEF Moves
    <2>2. InLsid(l) => l # ses[s].srv /\ l \in Lsid
      BY <1>5, Zenon DEF PoolInv, Exclusive, InLsid
    <2>3. InLsid(l) => Uses(used', srv', l) = Uses(used, srv, l)
      BY <2>2, SameUses, Zenon
    <2> QED  BY <2>1, <2>3, Zenon DEF NumberInv
  <1>6. InLsid(x.srv) => \A c \in Uses(used', srv', x.srv) : Right(x, o, c)
    <2> SUFFICES ASSUME InLsid(x.srv)
                 PROVE  \A c \in Uses(used', srv', x.srv) : Right(x, o, c)
      BY Zenon
    <2> DEFINE l == x.srv
    <2>1. l \in Lsid
      BY DEF InLsid
    <2>2. CASE srv'[l].txn = srv[l].txn
      BY <2>2, SameUses, Zenon
    <2>3. CASE srv'[l].txn = srv[l].txn + 1
      <3> HIDE DEF l
      <3>1. \A v \in used : ~(v[1] = l /\ v[2] = srv'[l].txn)
        BY <1>1, <1>2, <2>1, <2>3
      <3>2. Uses(used', srv', l) = {}
        BY <3>1, Zenon DEF Uses
      <3> QED  BY <3>2, Zenon DEF l
    <2> QED  BY <2>1, <2>2, <2>3, Zenon
  <1>7. \A t \in Sessions :
          /\ Local(ses'[t], op'[t])
          /\ InLsid(ses'[t].srv) => \A c \in Uses(used', srv', ses'[t].srv) : Right(ses'[t], op'[t], c)
    BY <1>5, <1>6, Zenon DEF Moves
  <1> QED  BY <1>3, <1>4, <1>7, Zenon DEF NumberInv, Moves

LEMMA FollowsInv ==
    ASSUME PoolInv, NumberInv, NEW s \in Sessions, NEW x, NEW o, Moves(s, x, o),
           Follows(ses[s], op[s], x, o), used' = used, SameNumbers
    PROVE  NumberInv'
  <1>1. InLsid(x.srv) => x.srv = ses[s].srv /\ \A c \in Uses(used, srv, x.srv) : Right(x, o, c)
    BY DEF Follows, NumberInv
  <1> QED  BY <1>1, MoveInv, Zenon DEF Follows, SameNumbers

LEMMA Moved ==
    ASSUME PoolInv, NumberInv, NEW s \in Sessions, NEW x, NEW o,
           Becomes(s, x) \/ (ses' = ses /\ x = ses[s]),
           op' = [op EXCEPT ![s] = o] \/ (op' = op /\ o = op[s])
    PROVE  Moves(s, x, o)
  <1>1. ses'[s] = x /\ \A t \in Sessions : t # s => ses'[t] = ses[t]
    BY DEF PoolInv, Types, Becomes
  <1>2. /\ op'[s] = o /\ op' = [t \in Sessions |-> op'[t]]
        /\ \A t \in Sessions : t # s => op'[t] = op[t]
    BY DEF NumberInv
  <1> QED  BY <1>1, <1>2 DEF Moves

LEMMA MarkDirtyNumbers ==
    ASSUME Types, NEW s \in Sessions, MarkDirty(s)
    PROVE  SameNumbers
  BY Zenon DEF Types, SameNumbers, MarkDirty, InLsid, ServerSession

\* The session s goes on with its number, or without.
Continues(s) == \E x, o : Moves(s, x, o) /\ Follows(ses[s], op[s], x, o)

LEMMA ContinuesInv ==
    ASSUME PoolInv, NumberInv, NEW s \in Sessions, Continues(s), used' = used, SameNumbers
    PROVE  NumberInv'
  BY FollowsInv DEF Continues

LEMMA RaiseContinues ==
    ASSUME PoolInv, NumberInv, NEW s \in Sessions, op[s] # Idle, NEW errors, NEW z, Later(ses[s], z),
           ~Active(ses[s]) => z.txn.state = "NONE", Raise(s, errors, z)
    PROVE  Continues(s)
  <1>1. PICK e : ses' = [ses EXCEPT ![s] = Finished(op[s], z, Label(op[s], e))]
    BY Zenon DEF Raise
  <1> DEFINE y == Finished(op[s], z, Label(op[s], e))
  <1>2. Follows(ses[s], op[s], y, Idle)
    BY FinishedFollows, Zenon DEF NumberInv
  <1>3. Becomes(s, y) /\ op' = [op EXCEPT ![s] = Idle]
    BY <1>1, Zenon DEF Becomes, Raise
  <1> HIDE DEF y
  <1>4. Moves(s, y, Idle)
    BY <1>3, Moved, Zenon
  <1> QED  BY <1>2, <1>4 DEF Continues

LEMMA FailedContinues ==
    ASSUME PoolInv, NumberInv, NEW s \in Sessions, op[s] # Idle, NEW e, NEW x, Later(ses[s], x),
           ~Active(ses[s]) => x.txn.state = "NONE", Failed(s, e, x)
    PROVE  Continues(s)
  <1> DEFINE o == op[s]
             always == AlwaysRetryable(e)
             rw == e.rw /\ (e.conn => o.retryable)
             max == IF e.over THEN MaxAdaptive ELSE o.max
             unpinned == IF rw \/ always THEN Unpin(x) ELSE x
             y == IF e.over /\ Active(x) THEN Reverted(unpinned) ELSE unpinned
             p == Again(o, o.attempts + 1, max, o.overloaded \/ e.over, LastError(o, e))
  <1>1. Full(x) /\ Full(ses[s])
    BY Zenon DEF Later, NumberInv, Local
  <1>2. Later(x, unpinned) /\ unpinned.txn.state = x.txn.state
    BY <1>1, UnpinLater, LaterRefl
  <1> HIDE DEF unpinned
  <1>3. Full(unpinned) /\ (Active(unpinned) <=> Active(x))
    BY <1>2, Zenon DEF Later
  <1>4. Later(unpinned, y) /\ (~Active(x) => y = unpinned)
    BY <1>3, RevertedLater, LaterRefl
  <1> HIDE DEF y
  <1>5. Later(ses[s], unpinned) /\ Later(ses[s], y)
    BY <1>2, <1>4, LaterTrans
  <1>6. ~Active(ses[s]) => unpinned.txn.state = "NONE" /\ y.txn.state = "NONE"
    BY <1>2, <1>4, Zenon DEF Later
  <1>7. \/ \E errors : Raise(s, errors, x)
        \/ \E errors : Raise(s, errors, unpinned)
        \/ \E errors : Raise(s, errors, y)
        \/ Becomes(s, y) /\ op' = [op EXCEPT ![s] = p]
    BY Zenon DEF Failed, Becomes, Again, unpinned, y
  <1>8. CASE Becomes(s, y) /\ op' = [op EXCEPT ![s] = p]
    <2>1. Follows(ses[s], o, y, p)
      BY <1>5, <1>6, AgainFollows, Zenon DEF NumberInv
    <2> HIDE DEF p
    <2>2. Moves(s, y, p)
      BY <1>8, Moved, Zenon
    <2> QED  BY <2>1, <2>2 DEF Continues
  <1> QED  BY <1>5, <1>6, <1>7, <1>8, RaiseContinues, Zenon

\* All steps of an attempt but Send.
LEMMA AttemptNumbers ==
    ASSUME PoolInv, NumberInv, NEW s \in Sessions, Attempt(s), \A m : ~Send(s, m)
    PROVE  NumberInv'
  <1> DEFINE x0 == ses[s]
             sel == LET x == Selected(ses[s]) IN IF Active(x) THEN Unpin(x) ELSE x
  <1>1. Full(x0) /\ Later(x0, x0) /\ Local(x0, op[s])
    BY LaterRefl, Zenon DEF NumberInv, Local
  <1>2. Later(x0, sel) /\ (~Active(x0) => sel.txn.state = "NONE")
    <2>1. Later(x0, Selected(x0)) /\ (~Active(x0) => Selected(x0).txn.state = "NONE")
      BY <1>1, SelectedLater
    <2>2. Full(Selected(x0)) /\ (Active(Selected(x0)) <=> Active(x0))
      BY <2>1, Zenon DEF Later
    <2>3. Later(Selected(x0), sel) /\ (~Active(x0) => sel = Selected(x0))
      BY <2>2, UnpinLater, LaterRefl
    <2> QED  BY <2>1, <2>3, LaterTrans, Zenon
  <1> HIDE DEF sel
  <1>3. ~Active(x0) /\ op[s] # Idle /\ (op[s].retrying \/ op[s].pc = "sent") => x0.txn.state = "NONE"
    BY <1>1, Zenon DEF Local, Belongs
  <1>4. srv' = srv => SameNumbers
    BY DEF SameNumbers
  <1>5. CASE SelectionFails(s)
    <2>1. Raise(s, IF op[s].retrying THEN op[s].last ELSE {Error(TRUE, FALSE, FALSE, FALSE)}, sel)
      BY <1>5, Zenon DEF SelectionFails, sel
    <2>2. op[s] # Idle /\ used' = used /\ srv' = srv
      BY <1>5, NotIdle DEF SelectionFails
    <2> QED  BY <1>2, <1>4, <2>1, <2>2, RaiseContinues, ContinuesInv, Zenon
  <1>6. CASE TimeIsUp(s)
    <2>1. Raise(s, op[s].last, x0) /\ op[s] # Idle /\ op[s].retrying /\ used' = used /\ srv' = srv
      BY <1>6, NotIdle DEF TimeIsUp
    <2> QED  BY <1>1, <1>3, <1>4, <2>1, RaiseContinues, ContinuesInv, Zenon
  <1>7. CASE \E over \in BOOLEAN : ConnectFails(s, over)
    <2>1. PICK over \in BOOLEAN : ConnectFails(s, over)
      BY <1>7
    <2>2. Failed(s, Error(TRUE, TRUE, over, FALSE), sel) /\ MarkDirty(s) /\ used' = used /\ op[s] # Idle
      BY <2>1, NotIdle, Zenon DEF ConnectFails, sel
    <2> QED  BY <1>2, <2>2, FailedContinues, ContinuesInv, MarkDirtyNumbers, Zenon DEF PoolInv
  <1>8. CASE Succeeds(s)
    <2> DEFINE z == [Tried(s, x0) EXCEPT !.txn.completed = TRUE, !.hist.begun = TRUE]
               x == IF Active(x0) THEN z ELSE x0
    <2>1. op[s] # Idle /\ op[s].pc = "sent" /\ used' = used /\ srv' = srv
      BY <1>8, NotIdle DEF Succeeds
    <2>2. Later(x0, Tried(s, x0)) /\ Full(Tried(s, x0))
      BY <1>1, TriedLater, Zenon DEF Later
    <2>3. Later(x0, z)
      BY <2>2, CompletedLater, LaterTrans, Zenon
    <2> HIDE DEF z
    <2>4. Later(x0, x) /\ (~Active(x0) => x.txn.state = "NONE")
      BY <1>1, <1>3, <2>1, <2>3, Zenon
    <2>5. Becomes(s, Finished(op[s], x, "ok")) /\ op' = [op EXCEPT ![s] = Idle]
      BY <1>8 DEF PoolInv, Types, Becomes, Succeeds, z
    <2> HIDE DEF x
    <2>6. Follows(x0, op[s], Finished(op[s], x, "ok"), Idle)
      BY <1>1, <2>1, <2>4, FinishedFollows, Zenon
    <2> QED  BY <1>4, <2>1, <2>5, <2>6, Moved, FollowsInv, Zenon
  <1>9. CASE BulkSucceeds(s)
    <2> DEFINE o == op[s]
               b == Replied(o.bulk)
               p == [o EXCEPT !.pc = "more", !.bulk = b, !.retrying = FALSE]
    <2>1. /\ o.pc = "sent" /\ o.kind = "bulk" /\ o # Idle /\ used' = used /\ srv' = srv /\ ses' = ses
          /\ \/ op' = [op EXCEPT ![s] = Idle]
             \/ ~Completed(b) /\ op' = [op EXCEPT ![s] = p]
      BY <1>9, NotIdle, Zenon DEF BulkSucceeds
    <2>2. ShapedOp(o) /\ ~Active(x0) /\ x0.txn.state = "NONE"
      BY <1>1, <1>3, <2>1, Zenon DEF Local, Belongs
    <2>3. ShapedBulk(b) /\ b.started = FALSE
      BY <2>1, <2>2, RepliedShaped, Zenon DEF ShapedOp
    <2> HIDE DEF b
    <2>4. CASE op' = [op EXCEPT ![s] = Idle]
      <3>1. Follows(x0, o, x0, Idle)
        BY <1>1, <2>2, Zenon DEF Follows, Local, Owes, Right, Active
      <3> QED  BY <1>4, <2>1, <2>4, <3>1, Moved, FollowsInv, ZenonT(30)
    <2>5. CASE ~Completed(b) /\ op' = [op EXCEPT ![s] = p]
      <3>1. /\ ShapedOp(p) /\ p.pc = "more" /\ p.kind = "bulk" /\ p.bulk = b /\ p.retryable = o.retryable
        BY <2>1, <2>2, <2>3, ZenonT(30) DEF ShapedOp
      <3> HIDE DEF p
      <3>2. p # Idle /\ HasRun(p)
        BY <2>5, <3>1, NotIdle DEF HasRun, Completed
      <3>3. Local(x0, p)
        BY <1>1, <2>1, <2>2, <3>1, <3>2, Zenon DEF Local, Belongs, Owes, Finishing
      <3>4. \A c : Right(x0, p, c)
        BY <2>2, <2>3, <3>1, <3>2, Zenon DEF Right, NewNumber
      <3>5. Follows(x0, o, x0, p)
        BY <3>3, <3>4 DEF Follows
      <3> QED  BY <1>4, <2>1, <2>5, <3>5, Moved, FollowsInv, Zenon
    <2> QED  BY <2>1, <2>4, <2>5
  <1>10. CASE \E reached \in BOOLEAN : ReplyLost(s, reached)
    <2> DEFINE x == IF Active(ses[s]) THEN Unpin(Tried(s, ses[s])) ELSE ses[s]
    <2>1. PICK reached \in BOOLEAN : ReplyLost(s, reached)
      BY <1>10
    <2>2. /\ Failed(s, Error(TRUE, TRUE, FALSE, FALSE), x) /\ MarkDirty(s) /\ used' = used
          /\ op[s] # Idle /\ op[s].pc = "sent"
      BY <2>1, NotIdle, Zenon DEF ReplyLost
    <2>3. Later(x0, Tried(s, x0)) /\ Full(Tried(s, x0))
      BY <1>1, TriedLater, Zenon DEF Later
    <2>4. Later(x0, Unpin(Tried(s, x0)))
      BY <2>3, UnpinLater, LaterTrans
    <2>5. Later(x0, x) /\ (~Active(x0) => x.txn.state = "NONE")
      BY <1>1, <1>3, <2>2, <2>4, Zenon
    <2> HIDE DEF x
    <2> QED  BY <2>2, <2>5, FailedContinues, ContinuesInv, MarkDirtyNumbers, Zenon DEF PoolInv
  <1>11. CASE \E e \in Refusals(s), reached \in BOOLEAN : Refused(s, e, reached)
    <2>1. PICK e \in Refusals(s), reached \in BOOLEAN : Refused(s, e, reached)
      BY <1>11
    <2> DEFINE x == IF e.over THEN ses[s] ELSE Tried(s, ses[s])
               y == IF e.rw \/ e.more = "transient" THEN Unpin(x) ELSE x
    <2>2. Failed(s, e, y) /\ used' = used /\ srv' = srv /\ op[s] # Idle /\ op[s].pc = "sent"
      BY <2>1, NotIdle, SMTT(30) DEF Refused
    <2>3. Later(x0, x) /\ x.txn.state = x0.txn.state /\ Full(x)
      BY <1>1, TriedLater DEF Later
    <2> HIDE DEF x
    <2>4. Later(x, y) /\ y.txn.state = x.txn.state
      BY <2>3, UnpinLater, LaterRefl
    <2> HIDE DEF y
    <2>5. Later(x0, y) /\ (~Active(x0) => y.txn.state = "NONE")
      BY <1>3, <2>2, <2>3, <2>4, LaterTrans, Zenon
    <2> QED  BY <1>4, <2>2, <2>5, FailedContinues, ContinuesInv
  <1> QED  BY <1>5, <1>6, <1>7, <1>8, <1>9, <1>10, <1>11 DEF Attempt

-----------------------------------------------------------------------------
(* The steps of the application.                                           *)

\* The operation that Run begins.
LEMMA RunShaped ==
    ASSUME NEW s \in Sessions, NEW id, NEW kind \in {"write", "many", "bulk", "commit", "abort"},
           NEW retryable \in BOOLEAN, NEW bulk, kind = "bulk" => ShapedBulk(bulk), Run(s, id, kind, retryable, bulk)
    PROVE  \E o : /\ op' = [op EXCEPT ![s] = o] /\ ShapedOp(o) /\ o # Idle
                  /\ o.pc = "attempt" /\ ~o.retrying /\ o.id = id /\ o.kind = kind
                  /\ o.retryable = retryable /\ o.bulk = bulk
  <1>1. PICK csot : op' = [op EXCEPT ![s] =
                             [pc |-> "attempt", id |-> id, kind |-> kind, retryable |-> retryable,
                              retrying |-> FALSE, attempts |-> 0, max |-> 1, csot |-> csot,
                              overloaded |-> FALSE, last |-> {}, bulk |-> bulk]]
    BY Zenon DEF Run
  <1> DEFINE o == [pc |-> "attempt", id |-> id, kind |-> kind, retryable |-> retryable,
                   retrying |-> FALSE, attempts |-> 0, max |-> 1, csot |-> csot,
                   overloaded |-> FALSE, last |-> {}, bulk |-> bulk]
  <1>2. /\ o.pc = "attempt" /\ ~o.retrying /\ o.id = id /\ o.kind = kind
        /\ o.retryable = retryable /\ o.bulk = bulk /\ ShapedOp(o)
    BY Zenon DEF ShapedOp
  <1>3. op' = [op EXCEPT ![s] = o]
    BY <1>1, Zenon
  <1> HIDE DEF o
  <1>4. o # Idle
    BY <1>2, NotIdle
  <1> QED  BY <1>2, <1>3, <1>4, Zenon

\* _start_retryable_write: the server session has a new number, or the session
\* owes one.
\* The session x becomes y: it has a new number, or owes itself one.
Numbers(s, x, y) ==
    /\ Becomes(s, y) /\ Full(y) /\ y.srv = x.srv /\ y.txn = x.txn /\ y.hist = x.hist
    /\ InLsid(y.srv) \/ y.started
    /\ \A l \in Lsid : /\ srv'[l].made = srv[l].made
                       /\ srv'[l].txn = IF l = y.srv THEN srv[l].txn + 1 ELSE srv[l].txn

LEMMA StartedNumbers ==
    ASSUME Types, NEW s \in Sessions, NEW x, Full(x), x.srv = ses[s].srv, StartRetryableWrite(s, x)
    PROVE  \E y : Numbers(s, x, y)
  <1>1. CASE InLsid(x.srv)
    <2> DEFINE l == x.srv
    <2>1. l \in Lsid /\ srv' = [srv EXCEPT ![l].txn = @ + 1] /\ Becomes(s, x)
      BY <1>1, Zenon DEF StartRetryableWrite, InLsid, Becomes
    <2> HIDE DEF l
    <2>2. srv[l] \in ServerSession
      BY <2>1 DEF Types
    <2>3. [srv[l] EXCEPT !.txn = @ + 1].txn = srv[l].txn + 1 /\ [srv[l] EXCEPT !.txn = @ + 1].made = srv[l].made
      BY <2>2 DEF ServerSession
    <2>4. \A k \in Lsid : /\ srv'[k].made = srv[k].made
                          /\ srv'[k].txn = IF k = l THEN srv[k].txn + 1 ELSE srv[k].txn
      BY <2>1, <2>3 DEF Types
    <2>5. Numbers(s, x, x)
      BY <1>1, <2>1, <2>4, Zenon DEF Numbers, l
    <2> QED  BY <2>5
  <1>2. CASE ~InLsid(x.srv)
    <2> DEFINE y == [x EXCEPT !.started = TRUE]
    <2>1. Becomes(s, y) /\ srv' = srv
      BY <1>2 DEF StartRetryableWrite, Becomes
    <2>2. Shaped(y) /\ y.srv = x.srv /\ y.txn = x.txn /\ y.hist = x.hist /\ y.started
      BY Zenon DEF Full, Shaped
    <2> HIDE DEF y
    <2>3. Full(y)
      BY <2>2 DEF Full
    <2>4. Numbers(s, x, y)
      BY <1>2, <2>1, <2>2, <2>3 DEF InLsid, Numbers
    <2> QED  BY <2>4
  <1> QED  BY <1>1, <1>2

LEMMA WriteNumbers ==
    ASSUME PoolInv, NumberInv, NEW s \in Sessions, NEW kind \in {"write", "many"}, Write(s, kind)
    PROVE  NumberInv'
  <1> DEFINE x == ses[s]
             retryable == kind = "write" /\ ~Active(x)
             id == IF ~Active(x) THEN ops + 1 ELSE x.hist.id
  <1>1. /\ op[s] = Idle /\ x.srv # Ended /\ used' = used /\ Run(s, id, kind, retryable, NoBulk)
        /\ IF retryable THEN StartRetryableWrite(s, x) ELSE UNCHANGED <<srv, ses>>
    BY Zenon DEF Write, CanRun, History
  <1>2. Local(x, Idle) /\ Full(x) /\ (InLsid(x.srv) => \A c \in Uses(used, srv, x.srv) : Right(x, Idle, c))
    BY <1>1, Zenon DEF NumberInv, Local
  <1>3. retryable \in BOOLEAN /\ (retryable <=> kind = "write" /\ ~Active(x))
    OBVIOUS
  <1> HIDE DEF retryable
  <1>4. PICK o : /\ op' = [op EXCEPT ![s] = o] /\ ShapedOp(o) /\ o # Idle
                 /\ o.pc = "attempt" /\ ~o.retrying /\ o.id = id /\ o.kind = kind
                 /\ o.retryable = retryable
    BY <1>1, <1>3, RunShaped, SMTT(30)
  <1>5. CASE retryable
    <2>a. StartRetryableWrite(s, x) /\ Types
      BY <1>1, <1>5 DEF PoolInv
    <2>b. PICK y : Numbers(s, x, y)
      BY <1>2, <2>a, StartedNumbers
    <2>1. /\ Becomes(s, y) /\ Full(y) /\ y.srv = x.srv /\ y.txn = x.txn /\ y.hist = x.hist
          /\ InLsid(y.srv) \/ y.started
          /\ \A l \in Lsid : /\ srv'[l].made = srv[l].made
                             /\ srv'[l].txn = IF l = y.srv THEN srv[l].txn + 1 ELSE srv[l].txn
      BY <2>b, Zenon DEF Numbers
    <2>2. Local(y, o)
      BY <1>1, <1>2, <1>4, <1>5, <2>1, Zenon DEF Local, Belongs, Owes, Finishing, Active
    <2>3. \A l \in Lsid : srv[l].txn + 1 # srv[l].txn
      BY DEF PoolInv, Types, ServerSession
    <2>4. Moves(s, y, o)
      BY <1>4, <2>1, Moved, Zenon
    <2>5. InLsid(y.srv) => y.srv = ses[s].srv /\ srv'[y.srv].txn # srv[y.srv].txn
      BY <2>1, <2>3, Zenon DEF InLsid
    <2> QED  BY <1>1, <2>1, <2>2, <2>4, <2>5, MoveInv
  <1>6. CASE ~retryable
    <2>1. srv' = srv /\ ses' = ses
      BY <1>1, <1>6
    <2>2. Local(x, o)
      BY <1>1, <1>2, <1>4, <1>6, Zenon DEF Local, Belongs, Owes, Finishing
    <2>3. \A c : Right(x, Idle, c) => Right(x, o, c)
      BY <1>4, <1>6, Zenon DEF Right
    <2>4. Follows(x, op[s], x, o)
      BY <1>1, <2>2, <2>3, Zenon DEF Follows
    <2> QED  BY <1>1, <1>4, <2>1, <2>4, Moved, FollowsInv, Zenon DEF SameNumbers
  <1> QED  BY <1>5, <1>6

LEMMA BulkWriteNumbers ==
    ASSUME PoolInv, NumberInv, NEW s \in Sessions, NEW r \in Requests, BulkWrite(s, r)
    PROVE  NumberInv'
  <1> DEFINE x == ses[s]
             b == [NewBulk(r) EXCEPT !.started = r.retryable]
  <1>1. /\ op[s] = Idle /\ x.srv # Ended /\ ~Active(x) /\ used' = used
        /\ Run(s, ops + 1, "bulk", r.retryable, b)
        /\ IF r.retryable THEN StartRetryableWrite(s, x) ELSE UNCHANGED <<srv, ses>>
    BY DEF BulkWrite, CanRun, History
  <1>2. Local(x, Idle) /\ Full(x) /\ (InLsid(x.srv) => \A c \in Uses(used, srv, x.srv) : Right(x, Idle, c))
    BY <1>1, Zenon DEF NumberInv, Local
  <1>3. r.retryable \in BOOLEAN /\ NewBulk(r).gen # <<>> /\ Head(NewBulk(r).gen) # NoRun
    BY SessionAssumption
  <1>4. ShapedBulk(b) /\ b.gen # <<>> /\ Head(b.gen) # NoRun
    BY <1>3, Zenon DEF NewBulk, ShapedBulk
  <1> HIDE DEF b
  <1>5. PICK o : /\ op' = [op EXCEPT ![s] = o] /\ ShapedOp(o) /\ o # Idle
                 /\ o.pc = "attempt" /\ ~o.retrying /\ o.id = ops + 1 /\ o.kind = "bulk"
                 /\ o.retryable = r.retryable /\ o.bulk = b
    BY <1>1, <1>3, <1>4, RunShaped
  <1>6. HasRun(o)
    BY <1>4, <1>5 DEF HasRun
  <1>7. CASE r.retryable
    <2>a. StartRetryableWrite(s, x) /\ Types
      BY <1>1, <1>7 DEF PoolInv
    <2>b. PICK y : Numbers(s, x, y)
      BY <1>2, <2>a, StartedNumbers
    <2>1. /\ Becomes(s, y) /\ Full(y) /\ y.srv = x.srv /\ y.txn = x.txn /\ y.hist = x.hist
          /\ InLsid(y.srv) \/ y.started
          /\ \A l \in Lsid : /\ srv'[l].made = srv[l].made
                             /\ srv'[l].txn = IF l = y.srv THEN srv[l].txn + 1 ELSE srv[l].txn
      BY <2>b, Zenon DEF Numbers
    <2>2. Local(y, o)
      BY <1>1, <1>2, <1>5, <1>6, <2>1, Zenon DEF Local, Belongs, Owes, Finishing, Active
    <2>3. \A l \in Lsid : srv[l].txn + 1 # srv[l].txn
      BY DEF PoolInv, Types, ServerSession
    <2>4. Moves(s, y, o)
      BY <1>5, <2>1, Moved, ZenonT(30)
    <2>5. InLsid(y.srv) => y.srv = ses[s].srv /\ srv'[y.srv].txn # srv[y.srv].txn
      BY <2>1, <2>3, Zenon DEF InLsid
    <2> QED  BY <1>1, <2>1, <2>2, <2>4, <2>5, MoveInv, ZenonT(30)
  <1>8. CASE ~r.retryable
    <2>1. srv' = srv /\ ses' = ses
      BY <1>1, <1>8
    <2>2. Local(x, o)
      BY <1>1, <1>2, <1>5, <1>6, <1>8, ZenonT(30) DEF Local, Belongs, Owes, Finishing
    <2>3. \A c : Right(x, Idle, c) => Right(x, o, c)
      BY <1>1, <1>5, <1>8, SMTT(30) DEF Right
    <2>4. Follows(x, op[s], x, o)
      BY <1>1, <2>2, <2>3 DEF Follows
    <2> QED  BY <1>1, <1>5, <2>1, <2>4, Moved, FollowsInv, Zenon DEF SameNumbers
  <1> QED  BY <1>3, <1>7, <1>8

LEMMA BeginNumbers ==
    ASSUME PoolInv, NumberInv, NEW s \in Sessions, NEW call, Begin(s, call)
    PROVE  NumberInv'
  <1> DEFINE x == ses[s]
             z == [x EXCEPT !.txn = [NoTransaction EXCEPT !.state = "STARTING"],
                            !.hist = [NoHistory EXCEPT !.id = ops + 1],
                            !.call = call]
  <1>1. op[s] = Idle /\ x.srv # Ended /\ used' = used /\ op' = op /\ StartRetryableWrite(s, z)
    BY DEF Begin, CanRun, History
  <1>2. Full(x)
    BY DEF NumberInv, Local
  <1>3. /\ Shaped(z) /\ z.srv = x.srv /\ z.txn = [NoTransaction EXCEPT !.state = "STARTING"]
        /\ z.hist = [NoHistory EXCEPT !.id = ops + 1]
    BY <1>2, Zenon DEF Full, Shaped
  <1> HIDE DEF z
  <1>4. Full(z) /\ z.txn.state = "STARTING"
    BY <1>3, ZenonT(30) DEF Full, NoTransaction, NoHistory
  <1>0. PICK y : Numbers(s, z, y)
    BY <1>1, <1>3, <1>4, StartedNumbers, SMTT(30) DEF PoolInv
  <1>5. /\ Becomes(s, y) /\ Full(y) /\ y.srv = z.srv /\ y.txn = z.txn /\ y.hist = z.hist
        /\ InLsid(y.srv) \/ y.started
        /\ \A l \in Lsid : /\ srv'[l].made = srv[l].made
                           /\ srv'[l].txn = IF l = y.srv THEN srv[l].txn + 1 ELSE srv[l].txn
    BY <1>0 DEF Numbers
  <1>6. Local(y, Idle)
    BY <1>4, <1>5, Zenon DEF Local, Owes
  <1>7. \A l \in Lsid : srv[l].txn + 1 # srv[l].txn
    BY DEF PoolInv, Types, ServerSession
  <1>8. Moves(s, y, Idle)
    BY <1>1, <1>5, Moved, Zenon
  <1>9. InLsid(y.srv) => y.srv = ses[s].srv /\ srv'[y.srv].txn # srv[y.srv].txn
    BY <1>3, <1>5, <1>7, Zenon DEF InLsid
  <1> QED  BY <1>1, <1>3, <1>5, <1>6, <1>8, <1>9, MoveInv

\* The steps of with_transaction change its own record only.
LEMMA StepNumbers ==
    ASSUME PoolInv, NumberInv, NEW s \in Sessions, NEW step, NEW last, Step(s, step, last)
    PROVE  NumberInv'
  <1> DEFINE y == [ses[s] EXCEPT !.call.step = step, !.call.last = last]
  <1>1. Full(ses[s]) /\ Local(ses[s], op[s])
    BY Zenon DEF NumberInv, Local
  <1>2. /\ Shaped(y) /\ y.srv = ses[s].srv /\ y.started = ses[s].started /\ y.txn = ses[s].txn
        /\ y.hist = ses[s].hist
    BY <1>1, Zenon DEF Full, Shaped
  <1>3. Becomes(s, y) /\ op' = op /\ used' = used /\ SameNumbers
    BY ZenonT(30) DEF PoolInv, Types, Becomes, Step, SameNumbers, History
  <1> HIDE DEF y
  <1>4. Full(y)
    BY <1>1, <1>2, Zenon DEF Full
  <1>5. Follows(ses[s], op[s], y, op[s])
    BY <1>1, <1>2, <1>4, Zenon DEF Follows, Local, Right, Belongs, Owes, Active
  <1> QED  BY <1>3, <1>5, Moved, FollowsInv

LEMMA FinishNumbers ==
    ASSUME PoolInv, NumberInv, NEW s \in Sessions, CommitEmpty(s) \/ Commit(s) \/ Abort(s)
    PROVE  NumberInv'
  <1> DEFINE x == ses[s]
  <1>1. Local(x, op[s]) /\ Full(x)
    BY Zenon DEF NumberInv, Local
  <1>2. op[s] = Idle /\ x.srv # Ended /\ used' = used /\ SameNumbers
    BY Zenon DEF CommitEmpty, Commit, Abort, CanRun, History, SameNumbers
  <1>3. CASE CommitEmpty(s)
    <2> DEFINE y == [x EXCEPT !.txn.state = "COMMITTED_EMPTY",
                              !.call.step = IF InCall(x) THEN "decide" ELSE @]
    <2>1. Shaped(y) /\ y.srv = x.srv /\ y.hist = x.hist /\ y.txn = [x.txn EXCEPT !.state = "COMMITTED_EMPTY"]
      BY <1>1, Zenon DEF Full, Shaped
    <2>2. Becomes(s, y) /\ op' = op
      BY <1>3, Zenon DEF PoolInv, Types, Becomes, CommitEmpty
    <2> HIDE DEF y
    <2>3. Full(y) /\ y.txn.state = "COMMITTED_EMPTY"
      BY <1>1, <2>1, Zenon DEF Full
    <2>4. Follows(x, Idle, y, Idle)
      BY <1>1, <2>1, <2>3, Zenon DEF Follows, Local, Right, Owes, Active
    <2> QED  BY <1>2, <2>2, <2>4, Moved, FollowsInv
  <1>4. CASE Commit(s)
    <2> DEFINE y == [x EXCEPT !.txn.state = "IN_PROGRESS"]
    <2>1. Shaped(y) /\ y.srv = x.srv /\ y.hist = x.hist /\ y.txn = [x.txn EXCEPT !.state = "IN_PROGRESS"]
      BY <1>1, Zenon DEF Full, Shaped
    <2>2. /\ Becomes(s, y) /\ Run(s, x.hist.id, "commit", TRUE, NoBulk)
          /\ x.txn.state \in {"IN_PROGRESS", "COMMITTED"}
      BY <1>4, Zenon DEF PoolInv, Types, Becomes, Commit
    <2> HIDE DEF y
    <2>3. Full(y) /\ y.txn.state = "IN_PROGRESS"
      BY <1>1, <2>1, Zenon DEF Full
    <2>4. PICK o : /\ op' = [op EXCEPT ![s] = o] /\ ShapedOp(o) /\ o # Idle
                   /\ o.pc = "attempt" /\ ~o.retrying /\ o.id = x.hist.id /\ o.kind = "commit"
      <3> DEFINE id == x.hist.id
                 kind == "commit"
                 retryable == TRUE
      <3>1. kind \in {"commit", "abort"} /\ retryable \in BOOLEAN /\ Run(s, id, kind, retryable, NoBulk)
        BY <2>2, Zenon
      <3> HIDE DEF id, kind, retryable
      <3>2. \E o : /\ op' = [op EXCEPT ![s] = o] /\ ShapedOp(o) /\ o # Idle
                   /\ o.pc = "attempt" /\ ~o.retrying /\ o.id = id /\ o.kind = kind
        BY <3>1, RunShaped
      <3> QED  BY <3>2, Zenon DEF id, kind
    <2>5. InLsid(y.srv)
      BY <1>1, <2>1, <2>2, Zenon DEF Local, Owes
    <2>6. Local(y, o)
      BY <1>2, <2>1, <2>3, <2>4, <2>5 DEF Local, Belongs, Owes, Active
    <2>7. Follows(x, Idle, y, o)
      BY <2>1, <2>2, <2>3, <2>6, Zenon DEF Follows, Right, Active
    <2> QED  BY <1>2, <2>2, <2>4, <2>7, Moved, FollowsInv, Zenon
  <1>5. CASE Abort(s) /\ x.txn.state = "STARTING"
    <2> DEFINE y == [x EXCEPT !.txn.state = "ABORTED", !.call.step = IF @ = "abort" THEN "decide" ELSE @]
    <2>1. Shaped(y) /\ y.srv = x.srv /\ y.hist = x.hist /\ y.txn = [x.txn EXCEPT !.state = "ABORTED"]
      BY <1>1, Zenon DEF Full, Shaped
    <2>2. Becomes(s, y) /\ op' = op
      BY <1>5, Zenon DEF PoolInv, Types, Becomes, Abort
    <2> HIDE DEF y
    <2>3. Full(y) /\ y.txn.state = "ABORTED"
      BY <1>1, <2>1, Zenon DEF Full
    <2>4. Follows(x, Idle, y, Idle)
      BY <1>1, <2>1, <2>3, Zenon DEF Follows, Local, Right, Owes, Active
    <2> QED  BY <1>2, <2>2, <2>4, Moved, FollowsInv
  <1>6. CASE Abort(s) /\ x.txn.state # "STARTING"
    <2>1. Run(s, x.hist.id, "abort", TRUE, NoBulk) /\ ses' = ses /\ x.txn.state = "IN_PROGRESS"
      BY <1>6, Zenon DEF Abort, Active
    <2>2. PICK o : /\ op' = [op EXCEPT ![s] = o] /\ ShapedOp(o) /\ o # Idle
                   /\ o.pc = "attempt" /\ ~o.retrying /\ o.id = x.hist.id /\ o.kind = "abort"
      <3> DEFINE id == x.hist.id
                 kind == "abort"
                 retryable == TRUE
      <3>1. kind \in {"commit", "abort"} /\ retryable \in BOOLEAN /\ Run(s, id, kind, retryable, NoBulk)
        BY <2>1, ZenonT(30)
      <3> HIDE DEF id, kind, retryable
      <3>2. \E o : /\ op' = [op EXCEPT ![s] = o] /\ ShapedOp(o) /\ o # Idle
                   /\ o.pc = "attempt" /\ ~o.retrying /\ o.id = id /\ o.kind = kind
        BY <3>1, RunShaped
      <3> QED  BY <3>2, Zenon DEF id, kind
    <2>3. InLsid(x.srv) /\ Active(x)
      BY <1>1, <2>1, Zenon DEF Local, Owes, Active
    <2>4. Local(x, o)
      BY <1>1, <1>2, <2>1, <2>2, <2>3, ZenonT(30) DEF Local, Belongs, Owes
    <2>5. Follows(x, Idle, x, o)
      BY <2>2, <2>3, <2>4, Zenon DEF Follows, Right
    <2> QED  BY <1>2, <2>1, <2>2, <2>5, Moved, FollowsInv, Zenon
  <1> QED  BY <1>3, <1>4, <1>5, <1>6

LEMMA SessionNumbers ==
    ASSUME PoolInv, NumberInv, NEW s \in Sessions, StartSession(s) \/ EndSession(s)
    PROVE  NumberInv'
  <1>1. op[s] = Idle /\ op' = op /\ used' = used /\ srv' = srv
    BY Zenon DEF StartSession, EndSession, History, NumberInv, Local
  <1>2. PICK l \in {Empty, Ended} : Becomes(s, [NewSession EXCEPT !.srv = l])
    BY Zenon DEF StartSession, EndSession, Becomes, NewSession
  <1> DEFINE y == [NewSession EXCEPT !.srv = l]
  <1>3. Full(y) /\ y.txn.state = "NONE" /\ y.srv = l
    BY Zenon DEF Full, Shaped, NewSession, NoTransaction, NoHistory
  <1> HIDE DEF y
  <1>4. ~InLsid(y.srv)
    BY <1>3 DEF InLsid, Lsid, Empty, Ended
  <1>5. Local(y, Idle)
    BY <1>3, Zenon DEF Local, Owes
  <1> QED  BY <1>1, <1>2, <1>4, <1>5, Moved, MoveInv, Zenon DEF y

LEMMA StillNumbers ==
    ASSUME PoolInv, NumberInv, ses' = ses, op' = op, used' = used, SameNumbers
    PROVE  NumberInv'
  <1>1. Numbered'
    BY Zenon DEF NumberInv, Numbered, SameNumbers
  <1>2. \A l \in Lsid : Uses(used', srv', l) = Uses(used, srv, l)
    BY SameUses DEF SameNumbers
  <1>3. \A s \in Sessions :
          InLsid(ses[s].srv) => \A c \in Uses(used', srv', ses[s].srv) : Right(ses[s], op[s], c)
    BY <1>2 DEF NumberInv, InLsid
  <1>4. NumberUnique' /\ op' = [s \in Sessions |-> op'[s]]
    BY DEF NumberInv, NumberUnique
  <1>5. \A s \in Sessions :
          /\ Local(ses'[s], op'[s])
          /\ InLsid(ses'[s].srv) => \A c \in Uses(used', srv', ses'[s].srv) : Right(ses'[s], op'[s], c)
    BY <1>3 DEF NumberInv
  <1> QED  BY <1>1, <1>4, <1>5, Zenon DEF NumberInv

\* What an attempt does to the number of its server session l: it keeps the one
\* it has for a retry, and takes one that was never used otherwise.
LEMMA SendNumber ==
    ASSUME PoolInv, NEW s \in Sessions, Materialize(s), NEW U,
           \A u \in U : u[1] \in Lsid /\ u[2] \in Nat /\ srv[u[1]].made /\ u[2] <= srv[u[1]].txn
    PROVE  LET l == Materialized(s)
           IN  /\ l \in Lsid /\ srv'[l].made /\ srv'[l].txn \in Nat
               /\ \A k \in Lsid : k # l => srv'[k] = srv[k]
               /\ \A u \in U : u[1] = l => u[2] <= srv'[l].txn
               /\ \/ InLsid(ses[s].srv) /\ l = ses[s].srv /\ ~NewNumber(op[s]) /\ srv'[l].txn = srv[l].txn
                  \/ ~InLsid(ses[s].srv) /\ ~ses[s].started
                  \/ \A u \in U : u[1] = l => u[2] # srv'[l].txn
  <1> DEFINE l == Materialized(s)
  <1>1. \/ InLsid(ses[s].srv) /\ l = ses[s].srv /\ Reuse(s) /\ pool' = pool
        \/ ~InLsid(ses[s].srv) /\ TakesPooled(s, l)
        \/ ~InLsid(ses[s].srv) /\ MakesNew(l)
    BY Materializes, Zenon DEF PoolInv
  <1> HIDE DEF l
  <1>2. /\ srv = [k \in Lsid |-> srv[k]]
        /\ \A k \in Lsid : srv[k] \in ServerSession /\ srv[k].txn \in Nat
    BY DEF PoolInv, Types, ServerSession
  <1>4. CASE InLsid(ses[s].srv) /\ l = ses[s].srv /\ Reuse(s) /\ pool' = pool
    <2> DEFINE n == IF NewNumber(op[s]) THEN srv[l].txn + 1 ELSE srv[l].txn
               q == [srv[l] EXCEPT !.stale = FALSE, !.txn = n]
    <2>1. l \in Lsid /\ srv[l].made
      BY <1>4, Zenon DEF InLsid, PoolInv, Made
    <2>2. n \in Nat /\ n >= srv[l].txn /\ (NewNumber(op[s]) => n > srv[l].txn) /\ (~NewNumber(op[s]) => n = srv[l].txn)
      BY <1>2, <2>1
    <2>3. srv' = [srv EXCEPT ![l] = q]
      BY <1>2, <1>4, <2>1, Zenon DEF Reuse, ServerSession
    <2> HIDE DEF n
    <2>4. q.made /\ q.txn = n
      BY <1>2, <2>1 DEF ServerSession
    <2> HIDE DEF q
    <2>5. srv'[l] = q /\ \A k \in Lsid : k # l => srv'[k] = srv[k]
      BY <1>2, <2>1, <2>3
    <2>6. \A u \in U : u[1] = l => u[2] <= n /\ (NewNumber(op[s]) => u[2] # n)
      BY <1>2, <2>1, <2>2, SMTT(30)
    <2> QED  BY <1>4, <2>1, <2>2, <2>4, <2>5, <2>6, Zenon DEF l
  <1>5. CASE ~InLsid(ses[s].srv) /\ TakesPooled(s, l)
    <2> DEFINE n == StartedNumber(ses[s], srv[l].txn)
               q == [srv[l] EXCEPT !.stale = FALSE, !.txn = n]
    <2>1. l \in Lsid /\ srv[l].made
      BY <1>5 DEF TakesPooled, PoolInv, Types, Made
    <2>2. n \in Nat /\ n >= srv[l].txn /\ (ses[s].started => n > srv[l].txn)
      BY <1>2, <2>1 DEF StartedNumber
    <2>3. srv' = [srv EXCEPT ![l] = q]
      BY <1>5 DEF TakesPooled
    <2> HIDE DEF n
    <2>4. q.made /\ q.txn = n
      BY <1>2, <2>1 DEF ServerSession
    <2> HIDE DEF q
    <2>5. srv'[l] = q /\ \A k \in Lsid : k # l => srv'[k] = srv[k]
      BY <1>2, <2>1, <2>3
    <2>6. \A u \in U : u[1] = l => u[2] <= n /\ (ses[s].started => u[2] # n)
      BY <1>2, <2>1, <2>2
    <2> QED  BY <1>5, <2>1, <2>2, <2>4, <2>5, <2>6, Zenon DEF l
  <1>6. CASE ~InLsid(ses[s].srv) /\ MakesNew(l)
    <2>1. l \in Lsid /\ ~srv[l].made
      BY <1>6 DEF MakesNew
    <2>2. PICK n \in Nat : srv' = [srv EXCEPT ![l] = [NewServerSession(generation) EXCEPT !.txn = n]]
      BY <1>6, Zenon DEF MakesNew
    <2> DEFINE q == [NewServerSession(generation) EXCEPT !.txn = n]
    <2>4. q.made /\ q.txn = n
      BY DEF NewServerSession
    <2>3. srv' = [srv EXCEPT ![l] = q]
      BY <2>2
    <2> HIDE DEF q
    <2>5. srv'[l] = q /\ \A k \in Lsid : k # l => srv'[k] = srv[k]
      BY <1>2, <2>1, <2>3
    <2>6. \A u \in U : u[1] # l
      BY <2>1
    <2> QED  BY <1>6, <2>1, <2>2, <2>4, <2>5, <2>6, Zenon DEF l
  <1> QED  BY <1>1, <1>4, <1>5, <1>6, Zenon

LEMMA EnteringAgain ==
    ASSUME NEW o, ShapedOp(o), o.kind = "bulk" => HasRun(o)
    PROVE  Command(Entering(Entering(o))) = Command(Entering(o))
  <1> DEFINE e == Entering(o)
             f == Entering(e)
  <1>1. /\ ShapedOp(e) /\ e.pc = "sent" /\ e.kind = o.kind
        /\ o.kind = "bulk" => HasRun(e)
    BY EnteringShaped
  <1> HIDE DEF e
  <1>2. /\ f.id = e.id /\ f.kind = e.kind
        /\ e.kind = "bulk" => /\ f.bulk.cur = IF e.bulk.cur = NoRun THEN Head(e.bulk.gen) ELSE e.bulk.cur
                              /\ f.bulk.offset = IF e.bulk.cur = NoRun THEN 0 ELSE e.bulk.offset
    BY <1>1, EnteringShaped, Zenon
  <1>3. e.kind = "bulk" => e.bulk.cur # NoRun
    BY <1>1 DEF HasRun
  <1> HIDE DEF f
  <1>4. Command(f) = Command(e)
    BY <1>2, <1>3, SameCommand
  <1> QED  BY <1>4 DEF e, f

\* The session x after a command of o was sent to m with the server session l.
Sent(x, l, m, o) ==
    [x EXCEPT !.srv = l, !.started = FALSE,
              !.txn.pinned = IF Active(x) /\ Sharded THEN m ELSE @,
              !.txn.state = IF x.txn.state = "STARTING" THEN "IN_PROGRESS" ELSE @,
              !.txn.attempt = IF Finishing(o) THEN @ + 1 ELSE @]

LEMMA SentIs ==
    ASSUME NEW x, Full(x), NEW l, NEW m, NEW o
    PROVE  LET y == Sent(x, l, m, o)
           IN  /\ Full(y) /\ y.srv = l /\ y.hist = x.hist /\ y.call = x.call
               /\ y.txn.state = (IF x.txn.state = "STARTING" THEN "IN_PROGRESS" ELSE x.txn.state)
               /\ y.txn.completed = x.txn.completed
               /\ Active(y) <=> Active(x)
  <1> DEFINE pinned == IF Active(x) /\ Sharded THEN m ELSE x.txn.pinned
             state == IF x.txn.state = "STARTING" THEN "IN_PROGRESS" ELSE x.txn.state
             attempt == IF Finishing(o) THEN x.txn.attempt + 1 ELSE x.txn.attempt
             y == Sent(x, l, m, o)
  <1>1. /\ Shaped(y) /\ y.srv = l /\ y.hist = x.hist /\ y.call = x.call
        /\ y.txn = [[[x.txn EXCEPT !.pinned = pinned] EXCEPT !.state = state] EXCEPT !.attempt = attempt]
    BY Zenon DEF Full, Shaped, Sent
  <1> HIDE DEF y, pinned, attempt
  <1>2. Full(y) /\ y.txn.state = state /\ y.txn.completed = x.txn.completed
    BY <1>1, Zenon DEF Full
  <1> QED  BY <1>1, <1>2 DEF Active, y

\* What Send does to its session and its operation.
SendsAs(s, x, l, y, e) ==
    /\ Moves(s, y, e) /\ Local(y, e) /\ Full(y) /\ y.srv = l /\ y.hist = x.hist
    /\ Full(x) /\ (Active(x) <=> Active(ses[s])) /\ (Active(y) <=> Active(x))
    /\ Active(x) => x.hist.id = ses[s].hist.id
    /\ ~Active(x) => x.txn.state = "NONE" /\ y.txn.state = "NONE"
    /\ ShapedOp(e) /\ e # Idle /\ e.pc = "sent" /\ e.id = op[s].id /\ e.kind = op[s].kind
    /\ e.retryable = op[s].retryable /\ l \in Lsid

LEMMA SendMoves ==
    ASSUME PoolInv, NumberInv, NEW s \in Sessions, NEW m, Send(s, m)
    PROVE  LET x == Selected(ses[s])
               l == Materialized(s)
           IN  SendsAs(s, x, l, Sent(x, l, m, op[s]), Entering(op[s]))
  <1> DEFINE x == Selected(ses[s])
             o == op[s]
             e == Entering(o)
             l == Materialized(s)
             y == Sent(x, l, m, o)
  <1>8. Becomes(s, y) /\ op' = [op EXCEPT ![s] = e] /\ Materialize(s) /\ o.pc \in {"attempt", "more"}
    BY Zenon DEF Send, Becomes, Sent
  <1> HIDE DEF x, o, e, l, y
  <1>1. Local(ses[s], o) /\ Full(ses[s]) /\ o # Idle
    BY <1>8, NotIdle, Zenon DEF NumberInv, Local, o
  <1>2. /\ ShapedOp(o) /\ Belongs(ses[s], o) /\ (o.kind = "bulk" => HasRun(o)) /\ Owes(ses[s], o)
    BY <1>1 DEF Local
  <1>3. /\ Full(x) /\ (Active(x) <=> Active(ses[s])) /\ (~Active(x) => x.txn.state = "NONE")
        /\ Active(x) => x.hist.id = ses[s].hist.id
    BY <1>1, SelectedLater, Zenon DEF Later, x
  <1>4. /\ ShapedOp(e) /\ e.pc = "sent" /\ e.id = o.id /\ e.kind = o.kind /\ e.retryable = o.retryable
        /\ o.kind = "bulk" => HasRun(e)
    BY <1>2, EnteringShaped, Zenon DEF e
  <1>5. e # Idle
    BY <1>4, NotIdle
  <1>6. l \in Lsid
    <2> DEFINE U == {}
    <2>1. \A u \in U : u[1] \in Lsid /\ u[2] \in Nat /\ srv[u[1]].made /\ u[2] <= srv[u[1]].txn
      OBVIOUS
    <2> HIDE DEF U
    <2> QED  BY <1>8, <2>1, SendNumber, Zenon DEF l
  <1>7. /\ Full(y) /\ y.srv = l /\ y.hist = x.hist /\ (Active(y) <=> Active(x))
        /\ ~Active(x) => y.txn.state = "NONE"
    BY <1>3, SentIs DEF y
  <1>9. Moves(s, y, e)
    BY <1>8, Moved, Zenon
  <1>10. InLsid(l) /\ l # Ended
    BY <1>6 DEF InLsid, Lsid, Ended
  <1>11. Local(y, e)
    <2>1. Owes(y, e)
      BY <1>7, <1>10 DEF Owes
    <2>2. CASE Active(x)
      <3>1. o.kind # "bulk" /\ o.id = y.hist.id
        BY <1>2, <1>3, <1>7, <2>2, Zenon DEF Belongs
      <3> QED  BY <1>4, <1>7, <1>10, <2>1, <2>2, <3>1 DEF Local, Belongs
    <2>3. CASE ~Active(x)
      <3>1. ~Finishing(o) /\ ~Finishing(e)
        BY <1>2, <1>3, <1>4, <2>3, Zenon DEF Belongs, Finishing
      <3> QED  BY <1>4, <1>7, <1>10, <2>1, <2>3, <3>1 DEF Local, Belongs
    <2> QED  BY <2>2, <2>3
  <1>12. SendsAs(s, x, l, y, e)
    BY <1>3, <1>4, <1>5, <1>6, <1>7, <1>9, <1>11, Zenon DEF SendsAs, o
  <1> QED  BY <1>12 DEF x, l, y, e, o

LEMMA SendNumbers ==
    ASSUME PoolInv, NumberInv, NEW s \in Sessions, NEW m, Send(s, m)
    PROVE  NumberInv'
  <1> DEFINE x == Selected(ses[s])
             o == op[s]
             e == Entering(o)
             l == Materialized(s)
             n == srv'[l].txn
             c == IF Active(x) THEN o.id ELSE Command(e)
             y == Sent(x, l, m, o)
  <1>8. SendsAs(s, x, l, y, e)
    BY SendMoves
  <1>0. op'[s] = e
    BY <1>8, Zenon DEF SendsAs, Moves
  <1>10. used' = IF o.retryable \/ Active(x) THEN used \cup {<<l, n, c>>} ELSE used
    BY <1>0, Zenon DEF Send
  <1>11. PoolInv' /\ Materialize(s)
    BY SendInv, Zenon DEF Send
  <1> HIDE DEF x, o, e, l, n, c, y
  <1>12. /\ Moves(s, y, e) /\ Local(y, e) /\ Full(y) /\ y.srv = l /\ y.hist = x.hist
         /\ Full(x) /\ (Active(x) <=> Active(ses[s])) /\ (Active(y) <=> Active(x))
         /\ Active(x) => x.hist.id = ses[s].hist.id
         /\ ~Active(x) => x.txn.state = "NONE" /\ y.txn.state = "NONE"
         /\ e # Idle /\ e.id = o.id /\ e.kind = o.kind /\ e.retryable = o.retryable /\ l \in Lsid
    BY <1>8, Zenon DEF SendsAs, o
  <1>1. Local(ses[s], o) /\ o # Idle
    BY NotIdle, Zenon DEF NumberInv, Send, o
  <1>2. /\ ShapedOp(o) /\ Belongs(ses[s], o) /\ (o.kind = "bulk" => HasRun(o)) /\ Owes(ses[s], o)
    BY <1>1 DEF Local
  <1>6. Command(Entering(e)) = Command(e)
    BY <1>2, EnteringAgain DEF e
  <1>3. \A u \in used : u[1] \in Lsid /\ u[2] \in Nat /\ srv[u[1]].made /\ u[2] <= srv[u[1]].txn
    BY Zenon DEF NumberInv, Numbered
  <1>7. /\ srv'[l].made /\ n \in Nat
        /\ \A k \in Lsid : k # l => srv'[k] = srv[k]
        /\ \A u \in used : u[1] = l => u[2] <= n
        /\ \/ InLsid(ses[s].srv) /\ l = ses[s].srv /\ ~NewNumber(o) /\ n = srv[l].txn
           \/ ~InLsid(ses[s].srv) /\ ~ses[s].started
           \/ \A u \in used : u[1] = l => u[2] # n
    BY <1>3, <1>11, SendNumber, Zenon DEF l, n, o
  <1>14. InLsid(l)
    BY <1>12 DEF InLsid
  \* The number was used for this command or transaction only, or not at all.
  <1>16. ASSUME o.retryable \/ Active(x), NEW u \in used, u[1] = l, u[2] = n
         PROVE  u[3] = c
    <2>1. ~InLsid(ses[s].srv) => ses[s].started
      BY <1>1, <1>2, <1>12, <1>16, Zenon DEF Owes, Active
    <2>2. InLsid(ses[s].srv) /\ l = ses[s].srv /\ ~NewNumber(o) /\ n = srv[l].txn
      BY <1>7, <1>16, <2>1, Zenon
    <2>3. u[3] \in Uses(used, srv, l)
      BY <1>16, <2>2, Zenon DEF Uses
    <2>4. Right(ses[s], o, u[3])
      BY <2>2, <2>3, Zenon DEF NumberInv, o
    <2>5. CASE Active(x)
      BY <1>2, <1>12, <2>4, <2>5, ZenonT(30) DEF Right, Belongs, c
    <2>6. CASE ~Active(x)
      BY <1>1, <1>12, <1>16, <2>2, <2>4, <2>6, ZenonT(30) DEF Right, e, c
    <2> QED  BY <2>5, <2>6, SMTT(30)
  <1>17. Numbered'
    <2>1. \A u \in used : /\ u = <<u[1], u[2], u[3]>> /\ u[1] \in Lsid /\ u[2] \in Nat
                          /\ srv'[u[1]].made /\ u[2] <= srv'[u[1]].txn
      BY <1>3, <1>7, Zenon DEF NumberInv, Numbered, n
    <2>2. \A u \in used' : u \in used \/ u = <<l, n, c>>
      BY <1>10
    <2>3. <<l, n, c>>[1] = l /\ <<l, n, c>>[2] = n /\ <<l, n, c>>[3] = c /\ n <= srv'[l].txn
      BY <1>7 DEF n
    <2> QED  BY <1>7, <1>12, <2>1, <2>2, <2>3 DEF Numbered
  <1>18. NumberUnique'
    BY <1>10, <1>16 DEF NumberInv, NumberUnique
  <1>19. ASSUME NEW t \in Sessions, t # s, InLsid(ses[t].srv), NEW d \in Uses(used', srv', ses[t].srv)
         PROVE  Right(ses[t], op[t], d)
    <2>1. ses'[t] = ses[t] /\ ses'[s].srv = l
      BY <1>12, <1>19, SMTT(30) DEF Moves
    <2>2. ses[t].srv # l /\ ses[t].srv \in Lsid
      BY <1>11, <1>14, <1>19, <2>1, SMTT(30) DEF PoolInv, Exclusive, InLsid
    <2>3. srv'[ses[t].srv] = srv[ses[t].srv]
      BY <1>7, <2>2, SMTT(30)
    <2>4. PICK u \in used' : u[1] = ses[t].srv /\ u[2] = srv'[ses[t].srv].txn /\ d = u[3]
      BY <1>19, Zenon DEF Uses
    <2>5. u \in used
      BY <1>10, <2>2, <2>4
    <2>6. d \in Uses(used, srv, ses[t].srv)
      BY <2>3, <2>4, <2>5, Zenon DEF Uses
    <2> QED  BY <1>19, <2>6 DEF NumberInv
  <1>20. ASSUME NEW d \in Uses(used', srv', l)
         PROVE  Right(y, e, d)
    <2>1. PICK u \in used' : u[1] = l /\ u[2] = n /\ d = u[3]
      BY <1>20 DEF Uses, n
    <2>2. CASE o.retryable \/ Active(x)
      <3>1. d = c
        BY <1>10, <1>16, <2>1, <2>2, SMTT(30)
      <3>2. CASE Active(x)
        <4>1. c = y.hist.id
          BY <1>2, <1>12, <3>2, ZenonT(30) DEF c, Belongs
        <4> QED  BY <1>12, <3>1, <3>2, <4>1, Zenon DEF Right
      <3>3. CASE ~Active(x)
        BY <1>6, <1>12, <3>1, <3>3, Zenon DEF Right, c
      <3> QED  BY <3>2, <3>3
    <2>3. CASE ~(o.retryable \/ Active(x))
      BY <1>12, <2>3, Zenon DEF Right
    <2> QED  BY <2>2, <2>3
  <1>21. \A t \in Sessions :
           /\ Local(ses'[t], op'[t])
           /\ InLsid(ses'[t].srv) => \A d \in Uses(used', srv', ses'[t].srv) : Right(ses'[t], op'[t], d)
    <2> SUFFICES ASSUME NEW t \in Sessions
                 PROVE  /\ Local(ses'[t], op'[t])
                        /\ InLsid(ses'[t].srv) =>
                             \A d \in Uses(used', srv', ses'[t].srv) : Right(ses'[t], op'[t], d)
      OBVIOUS
    <2>1. CASE t = s
      BY <1>12, <1>20, <2>1, Zenon DEF Moves
    <2>2. CASE t # s
      BY <1>12, <1>19, <2>2, Zenon DEF Moves, NumberInv
    <2> QED  BY <2>1, <2>2
  <1> QED  BY <1>12, <1>17, <1>18, <1>21, Zenon DEF NumberInv, Moves

LEMMA NumberInit == Init => NumberInv
  <1> SUFFICES ASSUME Init
               PROVE  NumberInv
    OBVIOUS
  <1> DEFINE x == [NewSession EXCEPT !.srv = Ended]
  <1>1. Full(x) /\ x.txn.state = "NONE" /\ x.srv = Ended
    BY Zenon DEF Full, Shaped, NewSession, NoTransaction, NoHistory
  <1>2. \A s \in Sessions : ses[s] = x /\ op[s] = Idle
    BY DEF Init
  <1> HIDE DEF x
  <1>3. Local(x, Idle)
    BY <1>1 DEF Local, Owes
  <1>4. \A l : Uses(used, srv, l) = {}
    BY DEF Init, Uses
  <1>5. Numbered /\ NumberUnique /\ op = [s \in Sessions |-> op[s]]
    BY DEF Init, Numbered, NumberUnique
  <1> QED  BY <1>2, <1>3, <1>4, <1>5 DEF NumberInv

LEMMA NumberStep == PoolInv /\ NumberInv /\ [Next]_vars => NumberInv'
  <1> SUFFICES ASSUME PoolInv, NumberInv, [Next]_vars
               PROVE  NumberInv'
    OBVIOUS
  <1>1. CASE UNCHANGED vars
    BY <1>1, StillNumbers DEF vars, SameNumbers
  <1>2. ASSUME NEW s \in Sessions, Operation(s)
        PROVE  NumberInv'
    <2>1. CASE StartSession(s) \/ EndSession(s)
      BY <2>1, SessionNumbers
    <2>2. CASE \E kind \in Kinds \cap {"write", "many"} : Write(s, kind)
      BY <2>2, WriteNumbers
    <2>3. CASE \E r \in Requests : BulkWrite(s, r)
      BY <2>3, BulkWriteNumbers
    <2>4. CASE StartTransaction(s) \/ WithTransaction(s) \/ TransactionAgain(s)
      BY <2>4, BeginNumbers, Zenon DEF StartTransaction, WithTransaction, TransactionAgain
    <2>5. CASE CommitEmpty(s) \/ Commit(s) \/ Abort(s)
      BY <2>5, FinishNumbers, SMTT(30)
    <2>6. CASE CallbackReturns(s) \/ CallbackRaises(s) \/ Return(s) \/ CommitAgain(s) \/ RaiseError(s)
      BY <2>6, StepNumbers, Zenon DEF CallbackReturns, CallbackRaises, Return, CommitAgain, RaiseError
    <2> QED  BY <1>2, <2>1, <2>2, <2>3, <2>4, <2>5, <2>6, Zenon DEF Operation
  <1>3. ASSUME NEW s \in Sessions, Attempt(s)
        PROVE  NumberInv'
    <2>1. CASE \E m : Send(s, m)
      BY <2>1, SendNumbers
    <2>2. CASE \A m : ~Send(s, m)
      BY <1>3, <2>2, AttemptNumbers
    <2> QED  BY <2>1, <2>2
  <1>4. ASSUME NEW l \in Lsid, Expire(l)
        PROVE  NumberInv'
    <2>1. srv' = [srv EXCEPT ![l].stale = TRUE] /\ ses' = ses /\ op' = op /\ used' = used
      BY <1>4 DEF Expire, History
    <2>2. SameNumbers
      BY <2>1 DEF SameNumbers, PoolInv, Types, ServerSession
    <2> QED  BY <2>1, <2>2, StillNumbers
  <1>5. CASE Fork
    BY <1>5, StillNumbers DEF Fork, History, SameNumbers
  <1> QED  BY <1>1, <1>2, <1>3, <1>4, <1>5 DEF Next

\* The pair of a server session and a transaction number is sent with one
\* command, or with those of one transaction: a retry sends the number it had,
\* and what is not a retry one that no command ever had, on whichever server
\* session _materialize finds for it.
THEOREM NumberUniqueCorrect == Spec => []NumberUnique
  <1>1. NumberInv => NumberUnique
    BY DEF NumberInv
  <1>2. Init => PoolInv /\ NumberInv
    BY PoolInit, NumberInit
  <1>3. PoolInv /\ NumberInv /\ [Next]_vars => (PoolInv /\ NumberInv)'
    BY PoolStep, NumberStep
  <1> QED  BY <1>1, <1>2, <1>3, PTL DEF Spec

=============================================================================
