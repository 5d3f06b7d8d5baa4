------------------------- MODULE ChangeStreamProofs -------------------------
(***************************************************************************)
(* Proofs about ChangeStream: for any log, any number of errors and any    *)
(* order of the calls, the token is exact, no implicit session is left     *)
(* behind, and the stream reads the log as LogReader does.                 *)
(***************************************************************************)
EXTENDS ChangeStream, TLAPS

\* No matching entry lies behind a and not behind b.
Skips(a, b) == \A e \in matches : e <= a \/ e > b

\* Where the reading thread may be, and when its cursor is dead.
Shape ==
  /\ cur = 0 => killed /\ pc \in {"idle", "watch"}
  /\ pc = "watch" => cur = 0
  /\ last = None => cur = 0
  /\ pc \in {"resumeFirst", "resume"} => killed

\* A stream without a place to resume from has an event to give first, or was
\* closed because that event has no _id.
Known ==
  /\ token = None => uses = "none"
  /\ pc = "watch" /\ last # None => token # None
  /\ cur # 0 /\ token = None /\ startAt = None =>
       \/ HasNext /\ pc \in {"idle", "next"}
       \/ closed /\ ~hasId /\ pc = "idle"

\* Nothing was left out up to the token, up to the time at which a stream
\* without token starts, and up to the buffer.
Places ==
  /\ last # None /\ token # None => last <= token /\ Skips(last, token)
  /\ last # None /\ token = None /\ startAt # None => last < startAt /\ Skips(last, startAt - 1)
  /\ cur # 0 /\ (hasId \/ ~closed \/ pc # "idle") => last <= from /\ Skips(last, from)
  /\ pc = "getMore" => Skips(from, to)

\* The thread that has called close is not closing a cursor yet.
Waiting == closing => dying["closer"] = 0

IInv == TypeOK /\ Shape /\ Waiting /\ OneSession /\ Known /\ Places

-----------------------------------------------------------------------------
(* Types.                                                                  *)

Numbers ==
  /\ now \in 0..MaxLog /\ matches \subseteq 1..now /\ drops \subseteq 1..now
  /\ token \in {None} \cup 0..now
  /\ startAt \in {None} \cup 1..now + 1
  /\ uses \in {"none", "start", "resume"}
  /\ cur \in Ids \cup {0} /\ from \in 0..now /\ to \in from..now
  /\ pc \in {"idle", "watch", "resumeFirst", "resume", "next", "getMore", "yield"}
  /\ fails \in 0..MaxFails
  /\ last \in {None} \cup 0..now /\ yielded \in Seq(Nat)

CursorTypes ==
  /\ held \subseteq Ids /\ queue \subseteq Ids
  /\ dying \in [Threads -> Ids \cup {0}] /\ step \in [Threads -> {"kill", "end", "clear"}]

Flags ==
  /\ open \in BOOLEAN /\ killed \in BOOLEAN /\ postBatch \in BOOLEAN /\ hasId \in BOOLEAN
  /\ spent \in BOOLEAN /\ closed \in BOOLEAN /\ closing \in BOOLEAN
  /\ excused \in BOOLEAN /\ stillborn \in BOOLEAN

LEMMA PlaceType ==
  ASSUME Numbers
  PROVE  Place \in 0..now
  BY DEF Numbers, Place, None

LEMMA NumbersStep ==
  ASSUME Numbers, Shape, [Next]_vars
  PROVE  Numbers'
  <1> USE DEF None, Ids
  <1> USE DEF vars, server, stream, cursors, buffer, read, history, At
  <1>1. CASE Extend
    BY <1>1, BoundsAreNumbers DEF Numbers, Extend
  <1>2. CASE LoseCursor
    BY <1>2, BoundsAreNumbers DEF Numbers, LoseCursor
  <1>3. CASE ProcessKillCursors
    BY <1>3 DEF Numbers, ProcessKillCursors
  <1>4. CASE Watch
    BY <1>4, BoundsAreNumbers DEF Numbers, Watch
  <1>5. CASE Aggregate
    BY <1>5, PlaceType DEF Numbers, Aggregate, ProcessResult, Ends, Fresh
  <1>6. CASE AggregateFails
    BY <1>6, BoundsAreNumbers DEF Numbers, AggregateFails
  <1>7. CASE TryNext
    BY <1>7 DEF Numbers, TryNext
  <1>8. CASE GetMore
    BY <1>8 DEF Numbers, GetMore
  <1>9. CASE MoreArrives
    <2>1. PICK q \in to..now : from' = to /\ to' = q
      BY <1>9 DEF MoreArrives, MoreEnds, Ends
    <2> QED  BY <1>9, <2>1 DEF Numbers, MoreArrives
  <1>10. CASE CursorNotFound
    BY <1>10 DEF Numbers, CursorNotFound
  <1>11. CASE GetMoreFails
    BY <1>11, BoundsAreNumbers DEF Numbers, GetMoreFails
  <1>12. CASE NoChange
    BY <1>12 DEF Numbers, NoChange
  <1>13. CASE Change
    BY <1>13 DEF Numbers, Change, NextToken, Documents
  <1>14. CASE MissingId
    BY <1>14 DEF Numbers, MissingId, Documents
  <1>15. CASE Close
    BY <1>15 DEF Numbers, Close
  <1>16. CASE CloseCursor
    BY <1>16 DEF Numbers, CloseCursor
  <1>17. CASE \E p \in Threads : Closing(p)
    <2>1. fails' = fails \/ (fails < MaxFails /\ fails' = fails + 1)
      BY <1>17, Zenon DEF Closing, KillCursor, EndSession, ClearSession
    <2>2. fails' \in 0..MaxFails
      BY <2>1, BoundsAreNumbers DEF Numbers
    <2>3. UNCHANGED <<server, stream, buffer, history, pc>>
      BY <1>17, Zenon DEF Closing, KillCursor, EndSession, ClearSession
    <2> QED  BY <2>2, <2>3 DEF Numbers
  <1>18. CASE UNCHANGED vars
    BY <1>18 DEF Numbers
  <1> QED
    BY <1>1, <1>2, <1>3, <1>4, <1>5, <1>6, <1>7, <1>8, <1>9, <1>10, <1>11, <1>12, <1>13, <1>14,
       <1>15, <1>16, <1>17, <1>18 DEF Next, Resuming, Fetching, Yielding

LEMMA FlagsStep ==
  ASSUME Flags, [Next]_vars
  PROVE  Flags'
  <1> USE DEF vars, server, stream, cursors, buffer, read, history, Flags, Prepare
  <1>1. CASE Extend
    BY <1>1 DEF Extend
  <1>2. CASE LoseCursor
    BY <1>2, Zenon DEF LoseCursor
  <1>3. CASE ProcessKillCursors
    BY <1>3, Zenon DEF ProcessKillCursors
  <1>4. CASE Watch
    BY <1>4, Zenon DEF Watch, DieNoLock
  <1>5. CASE Aggregate
    BY <1>5, Zenon DEF Aggregate, ProcessResult, Spent, Invalidated
  <1>6. CASE AggregateFails
    BY <1>6, Zenon DEF AggregateFails
  <1>7. CASE TryNext
    BY <1>7 DEF TryNext
  <1>8. CASE GetMore
    BY <1>8 DEF GetMore
  <1>9. CASE MoreArrives
    BY <1>9, Zenon DEF MoreArrives, Invalidated, Gone
  <1>10. CASE CursorNotFound
    BY <1>10, Zenon DEF CursorNotFound, Gone
  <1>11. CASE GetMoreFails
    BY <1>11, Zenon DEF GetMoreFails, Gone, Die, DieNoLock
  <1>12. CASE NoChange
    BY <1>12, Zenon DEF NoChange, ClosedAfter, Spent
  <1>13. CASE Change
    BY <1>13, Zenon DEF Change, ClosedAfter, Spent
  <1>14. CASE MissingId
    BY <1>14, Zenon DEF MissingId, Die
  <1>15. CASE Close
    BY <1>15 DEF Close
  <1>16. CASE CloseCursor
    BY <1>16, Zenon DEF CloseCursor, Die
  <1>17. CASE \E p \in Threads : Closing(p)
    BY <1>17, Zenon DEF Closing, KillCursor, EndSession, ClearSession
  <1>18. CASE UNCHANGED vars
    BY <1>18
  <1> QED
    BY <1>1, <1>2, <1>3, <1>4, <1>5, <1>6, <1>7, <1>8, <1>9, <1>10, <1>11, <1>12, <1>13, <1>14,
       <1>15, <1>16, <1>17, <1>18 DEF Next, Resuming, Fetching, Yielding

-----------------------------------------------------------------------------
(* The cursor and its session.                                             *)

LEMMA ShapeStep ==
  ASSUME Numbers, Flags, Shape, [Next]_vars
  PROVE  Shape'
  <1> USE DEF vars, server, stream, cursors, buffer, read, history, At, Prepare, Shape
  <1>1. CASE Extend
    BY <1>1 DEF Extend
  <1>2. CASE LoseCursor
    BY <1>2 DEF LoseCursor
  <1>3. CASE ProcessKillCursors
    BY <1>3 DEF ProcessKillCursors
  <1>4. CASE Watch
    BY <1>4 DEF Watch, DieNoLock
  <1>5. CASE Aggregate
    <2>1. cur' \in Ids /\ pc' \in {"idle", "next", "yield"}
      BY <1>5 DEF Aggregate, Fresh
    <2>2. last' # None
      BY <1>5, PlaceType DEF Aggregate, None
    <2> QED  BY <2>1, <2>2 DEF Ids
  <1>6. CASE AggregateFails
    BY <1>6 DEF AggregateFails
  <1>7. CASE TryNext
    BY <1>7 DEF TryNext, MustResume, Alive
  <1>8. CASE GetMore
    BY <1>8 DEF GetMore
  <1>9. CASE MoreArrives
    BY <1>9 DEF MoreArrives
  <1>10. CASE CursorNotFound
    BY <1>10 DEF CursorNotFound, Gone
  <1>11. CASE GetMoreFails
    BY <1>11 DEF GetMoreFails, Gone, Die, DieNoLock
  <1>12. CASE NoChange
    BY <1>12 DEF NoChange
  <1>13. CASE Change
    <2>1. last' \in 1..now
      BY <1>13 DEF Change, Documents, Numbers
    <2> QED  BY <1>13, <2>1 DEF Change, None
  <1>14. CASE MissingId
    BY <1>14 DEF MissingId
  <1>15. CASE Close
    BY <1>15 DEF Close
  <1>16. CASE CloseCursor
    BY <1>16 DEF CloseCursor, Die
  <1>17. CASE \E p \in Threads : Closing(p)
    BY <1>17 DEF Closing, KillCursor, EndSession, ClearSession
  <1>18. CASE UNCHANGED vars
    BY <1>18
  <1> QED
    BY <1>1, <1>2, <1>3, <1>4, <1>5, <1>6, <1>7, <1>8, <1>9, <1>10, <1>11, <1>12, <1>13, <1>14,
       <1>15, <1>16, <1>17, <1>18 DEF Next, Resuming, Fetching, Yielding

\* What a step may do to the cursors: a thread that closes none starts to close
\* the stream's cursor, a new one is opened when that one is dead, a thread goes
\* on closing, or nothing happens but that the queue is emptied.
Dies ==
  \E p \in Threads, n \in {"kill", "end"} :
    /\ dying[p] = 0
    /\ Prepare(p, n)
    /\ cur' \in {cur, 0}
    /\ queue' = queue \/ (~killed /\ queue' = queue \cup {cur})

Opens ==
  /\ killed
  /\ cur' \in Fresh
  /\ held' = IF killed' THEN held ELSE held \cup {cur'}
  /\ UNCHANGED <<dying, step, queue>>

Rests == UNCHANGED <<cur, killed, held, dying, step>> /\ queue' \in {queue, {}}

CursorEffect == Dies \/ Opens \/ (cur' = cur /\ \E p \in Threads : Closing(p)) \/ Rests

LEMMA EffectOfStep ==
  ASSUME Shape, Waiting, [Next]_vars
  PROVE  CursorEffect
  <1> USE DEF vars, server, stream, cursors, buffer
  <1>1. CASE Extend \/ LoseCursor \/ ProcessKillCursors \/ UNCHANGED vars
    BY <1>1 DEF Extend, LoseCursor, ProcessKillCursors, CursorEffect, Rests
  <1>2. CASE AggregateFails \/ TryNext \/ GetMore \/ NoChange \/ Change \/ Close
    BY <1>2 DEF AggregateFails, TryNext, GetMore, NoChange, Change, Close, CursorEffect, Rests
  <1>3. CASE Watch
    BY <1>3, Zenon DEF Watch, At, DieNoLock, CursorEffect, Dies, Threads
  <1>4. CASE Aggregate
    <2>1. killed
      BY <1>4 DEF Aggregate, At, Shape
    <2> QED  BY <1>4, <2>1 DEF Aggregate, CursorEffect, Opens
  <1>5. CASE MoreArrives
    <2>1. CASE Gone
      BY <1>5, <2>1, Zenon DEF MoreArrives, At, Gone, CursorEffect, Dies, Threads
    <2>2. CASE UNCHANGED cursors
      BY <1>5, <2>2, Zenon DEF MoreArrives, CursorEffect, Rests
    <2> QED  BY <1>5, <2>1, <2>2, Zenon DEF MoreArrives
  <1>6. CASE CursorNotFound
    BY <1>6, Zenon DEF CursorNotFound, At, CursorEffect, Dies, Threads
  <1>7. CASE GetMoreFails
    BY <1>7, Zenon DEF GetMoreFails, At, Gone, Die, DieNoLock, CursorEffect, Dies, Threads
  <1>8. CASE MissingId
    BY <1>8, Zenon DEF MissingId, At, Die, CursorEffect, Dies, Threads
  <1>9. CASE CloseCursor
    BY <1>9, Zenon DEF CloseCursor, Waiting, Die, CursorEffect, Dies, Threads
  <1>10. CASE \E p \in Threads : Closing(p)
    BY <1>10, Zenon DEF Closing, KillCursor, EndSession, ClearSession, CursorEffect
  <1> QED
    BY <1>1, <1>2, <1>3, <1>4, <1>5, <1>6, <1>7, <1>8, <1>9, <1>10 DEF Next, Resuming, Fetching, Yielding

LEMMA CursorTypesStep ==
  ASSUME CursorTypes, Numbers, Shape, CursorEffect
  PROVE  CursorTypes'
  <1>1. CASE Dies
    BY <1>1 DEF Dies, Prepare, CursorTypes, Numbers, Shape
  <1>2. CASE Opens
    BY <1>2 DEF Opens, Fresh, CursorTypes
  <1>3. CASE \E p \in Threads : Closing(p)
    <2>1. PICK p \in Threads : Closing(p)
      BY <1>3
    <2>2. CASE KillCursor(p)
      BY <2>2 DEF KillCursor, CursorTypes
    <2>3. CASE EndSession(p)
      BY <2>3 DEF EndSession, CursorTypes
    <2>4. CASE ClearSession(p)
      BY <2>4 DEF ClearSession, CursorTypes
    <2> QED  BY <2>1, <2>2, <2>3, <2>4 DEF Closing
  <1>4. CASE Rests
    BY <1>4 DEF Rests, CursorTypes
  <1> QED  BY <1>1, <1>2, <1>3, <1>4 DEF CursorEffect

\* Only CloseCursor makes the closing thread close a cursor.
LEMMA WaitingStep ==
  ASSUME CursorTypes, Waiting, [Next]_vars
  PROVE  Waiting'
  <1> USE DEF vars, server, stream, cursors, buffer
  <1>1. CASE Close \/ CloseCursor
    BY <1>1 DEF Close, CloseCursor, Waiting
  <1>2. CASE \E p \in Threads : Closing(p)
    <2>1. PICK p \in Threads : Closing(p)
      BY <1>2
    <2>2. closing' = closing /\ (dying' = dying \/ dying' = [dying EXCEPT ![p] = 0])
      BY <2>1, Zenon DEF Closing, KillCursor, EndSession, ClearSession
    <2>3. dying["closer"] = 0 => dying'["closer"] = 0
      BY <2>2 DEF CursorTypes, Threads
    <2> QED  BY <2>2, <2>3 DEF Waiting
  <1>3. \A n : Prepare("reader", n) => dying'["closer"] = dying["closer"]
    BY DEF Prepare, CursorTypes, Threads
  <1>4. CASE closing' = closing /\ (dying' = dying \/ \E n : Prepare("reader", n))
    BY <1>3, <1>4 DEF Waiting
  <1>5. CASE Watch \/ MoreArrives \/ CursorNotFound \/ GetMoreFails \/ MissingId
    BY <1>4, <1>5, Zenon DEF Watch, MoreArrives, CursorNotFound, GetMoreFails, MissingId, Gone, Die, DieNoLock
  <1>6. CASE Extend \/ LoseCursor \/ ProcessKillCursors \/ AggregateFails \/ TryNext \/ GetMore
    BY <1>4, <1>6 DEF Extend, LoseCursor, ProcessKillCursors, AggregateFails, TryNext, GetMore
  <1>7. CASE Aggregate \/ NoChange \/ Change \/ UNCHANGED vars
    BY <1>4, <1>7 DEF Aggregate, NoChange, Change
  <1> QED
    BY <1>1, <1>2, <1>5, <1>6, <1>7 DEF Next, Resuming, Fetching, Yielding

LEMMA SessionStep ==
  ASSUME CursorTypes, OneSession, CursorEffect
  PROVE  OneSession'
  <1>1. CASE Dies
    <2>1. killed' /\ held' = held /\ Dying \cup {cur} \subseteq Dying' \cup {0} /\ 0 \notin held
      BY <1>1 DEF Dies, Prepare, Dying, CursorTypes, Ids
    <2> QED  BY <2>1 DEF OneSession
  <1>2. CASE Opens
    BY <1>2 DEF Opens, Fresh, Dying, OneSession
  <1>3. CASE cur' = cur /\ \E p \in Threads : Closing(p)
    <2>1. PICK p \in Threads : Closing(p)
      BY <1>3
    <2>2. CASE KillCursor(p)
      BY <1>3, <2>2 DEF KillCursor, OneSession, Dying
    <2>3. CASE EndSession(p) \/ ClearSession(p)
      <3>1. killed' = killed /\ held' \subseteq held /\ held' \ Dying' = held \ Dying
        BY <2>3 DEF EndSession, ClearSession, Dying, CursorTypes, Ids
      <3> QED  BY <1>3, <3>1 DEF OneSession
    <2> QED  BY <2>1, <2>2, <2>3 DEF Closing
  <1>4. CASE Rests
    BY <1>4 DEF Rests, OneSession, Dying
  <1> QED  BY <1>1, <1>2, <1>3, <1>4 DEF CursorEffect

-----------------------------------------------------------------------------
(* Places in the log.                                                      *)

LEMMA SkipsDocuments ==
  ASSUME Numbers, NEW a \in Int, NEW b \in Int
  PROVE  Documents(a, b) = {} <=> Skips(a, b)
  <1>1. \A e \in matches : e \in Int
    BY DEF Numbers
  <1>2. Documents(a, b) = {} <=> \A e \in matches : ~(a < e /\ e <= b)
    BY DEF Documents
  <1> QED  BY <1>1, <1>2 DEF Skips

LEMMA SkipsJoin ==
  ASSUME NEW a \in Int, NEW b \in Int, NEW c \in Int, Skips(a, b), Skips(b, c), Numbers
  PROVE  Skips(a, c)
  BY DEF Skips, Numbers

\* Entries are added behind what was read.
LEMMA SkipsExtend ==
  ASSUME Numbers, NEW a \in Int, NEW b \in Int, b <= now, Extend, Skips(a, b)
  PROVE  Skips(a, b)'
  BY DEF Skips, Numbers, Extend

LEMMA DocumentsExtend ==
  ASSUME Numbers, Extend
  PROVE  HasNext' = HasNext
  BY DEF HasNext, Documents, Numbers, Extend, buffer

\* A stream that resumes, or is opened again, goes on where it was.
LEMMA PlaceExact ==
  ASSUME Numbers, Shape, Known, Places, last # None,
         pc \in {"watch", "resumeFirst", "resume"}
  PROVE  last <= Place /\ Skips(last, Place)
  <1>1. CASE token # None
    BY <1>1 DEF Places, Place
  <1>2. CASE token = None
    <2>1. startAt # None
      BY <1>2 DEF Shape, Known
    <2> QED  BY <1>2, <2>1 DEF Places, Place, Numbers, None
  <1> QED  BY <1>1, <1>2

LEMMA KnownStep ==
  ASSUME Numbers, Flags, Shape, Known, Places, [Next]_vars
  PROVE  Known'
  <1> USE DEF vars, server, stream, cursors, buffer, read, history, At
  <1>1. CASE Extend
    BY <1>1, DocumentsExtend DEF Extend, Known
  <1>2. CASE LoseCursor
    BY <1>2 DEF LoseCursor, Known, HasNext, Documents
  <1>3. CASE ProcessKillCursors
    BY <1>3 DEF ProcessKillCursors, Known, HasNext, Documents
  <1>4. CASE Watch
    BY <1>4 DEF Watch, Known, None
  <1>5. CASE Aggregate
    <2>1. PICK q \in Nat : ProcessResult(Place, q) /\ from' = Place /\ to' = q
      BY <1>5, PlaceType DEF Aggregate, Ends, Numbers
    <2>2. pc' \in {"idle", "next", "yield"}
      BY <1>5 DEF Aggregate
    <2>3. token' = None => token = None /\ uses' = "none"
      BY <1>5, <2>1 DEF Aggregate, ProcessResult, Known, Numbers, None
    <2>4. CASE token = None /\ startAt = None
      <3>1. pc = "watch" /\ pc' = "idle"
        BY <1>5, <2>4 DEF Aggregate, Known, Shape
      <3>2. CASE Documents(Place, q) # {}
        BY <2>1, <2>3, <3>1, <3>2, <1>5 DEF Known, HasNext, Documents, Aggregate
      <3>3. CASE Documents(Place, q) = {}
        <4>1. token' # None \/ startAt' # None
          BY <2>1, <2>4, <3>3 DEF ProcessResult, Known, None, Numbers, Flags
        <4> QED  BY <2>3, <3>1, <4>1 DEF Known
      <3> QED  BY <3>2, <3>3
    <2>5. CASE token # None \/ startAt # None
      <3>1. token' # None \/ startAt' # None
        BY <2>1, <2>3, <2>5 DEF ProcessResult
      <3> QED  BY <2>2, <2>3, <3>1 DEF Known
    <2> QED  BY <2>4, <2>5
  <1>6. CASE AggregateFails
    BY <1>6 DEF AggregateFails, Known, Shape
  <1>7. CASE TryNext
    BY <1>7 DEF TryNext, MustResume, Alive, Known, HasNext, Documents
  <1>8. CASE GetMore
    BY <1>8 DEF GetMore, Known
  <1>9. CASE MoreArrives
    BY <1>9 DEF MoreArrives, Known
  <1>10. CASE CursorNotFound
    BY <1>10 DEF CursorNotFound, Known
  <1>11. CASE GetMoreFails
    BY <1>11 DEF GetMoreFails, Known
  <1>12. CASE NoChange
    BY <1>12 DEF NoChange, Known, Numbers, None
  <1>13. CASE Change
    <2>1. token' \in Nat
      BY <1>13 DEF Change, NextToken, Documents, Numbers
    <2> QED  BY <1>13, <2>1 DEF Change, Known, None
  <1>14. CASE MissingId
    BY <1>14 DEF MissingId, Known
  <1>15. CASE Close
    BY <1>15 DEF Close, Known, HasNext, Documents
  <1>16. CASE CloseCursor
    BY <1>16 DEF CloseCursor, Known, HasNext, Documents
  <1>17. CASE \E p \in Threads : Closing(p)
    BY <1>17 DEF Closing, KillCursor, EndSession, ClearSession, Known, HasNext, Documents
  <1>18. CASE UNCHANGED vars
    BY <1>18 DEF Known, HasNext, Documents
  <1> QED
    BY <1>1, <1>2, <1>3, <1>4, <1>5, <1>6, <1>7, <1>8, <1>9, <1>10, <1>11, <1>12, <1>13, <1>14,
       <1>15, <1>16, <1>17, <1>18 DEF Next, Resuming, Fetching, Yielding

LEMMA PlacesStep ==
  ASSUME Numbers, Numbers', Flags, Shape, Known, Places, [Next]_vars
  PROVE  Places'
  <1> USE DEF vars, server, stream, cursors, buffer, read, history, At
  <1>1. CASE Extend
    <2>1. /\ token \in Int /\ token <= now /\ startAt - 1 \in Int /\ startAt - 1 <= now
          /\ from \in Int /\ to \in Int /\ from <= now /\ to <= now /\ last \in Int
      BY DEF Numbers, None
    <2>2. \A a, b \in Int : b <= now /\ Skips(a, b) => \A e \in matches' : e <= a \/ e > b
      BY <1>1, SkipsExtend DEF Skips
    <2>3. UNCHANGED <<token, startAt, from, to, last, cur, hasId, closed, pc>>
      BY <1>1 DEF Extend
    <2> QED  BY <2>1, <2>2, <2>3 DEF Places, Skips
  <1>2. CASE LoseCursor
    BY <1>2 DEF LoseCursor, Places, Skips
  <1>3. CASE ProcessKillCursors
    BY <1>3 DEF ProcessKillCursors, Places, Skips
  <1>4. CASE Watch
    BY <1>4 DEF Watch, Places, Skips, Shape
  <1>5. CASE Aggregate
    <2>1. PICK q \in Nat : ProcessResult(Place, q) /\ from' = Place /\ to' = q
      BY <1>5, PlaceType DEF Aggregate, Ends, Numbers
    <2>2. Place \in Nat /\ last' \in Nat /\ last' <= Place /\ Skips(last', Place)
      BY <1>5, PlaceType, PlaceExact DEF Aggregate, Numbers, Skips, None
    <2>3. Documents(Place, q) = {} => last' <= q /\ Skips(last', q)
      BY <1>5, <2>1, <2>2, SkipsDocuments, SkipsJoin DEF Aggregate, Ends, Numbers
    <2>4. matches' = matches /\ pc' # "getMore"
      BY <1>5 DEF Aggregate
    <2>5. token' # None => last' <= token' /\ Skips(last', token')
      BY <1>5, <2>1, <2>2, <2>3 DEF ProcessResult, Place
    <2>6. token' = None /\ startAt' # None => last' < startAt' /\ Skips(last', startAt' - 1)
      BY <1>5, <2>1, <2>2, <2>3 DEF ProcessResult, Place, Numbers, None
    <2> QED  BY <2>1, <2>2, <2>4, <2>5, <2>6 DEF Places, Skips
  <1>6. CASE AggregateFails
    BY <1>6 DEF AggregateFails, Places, Skips, Shape
  <1>7. CASE TryNext
    BY <1>7 DEF TryNext, Places, Skips
  <1>8. CASE GetMore
    <2>1. Skips(from, to)
      BY <1>8, SkipsDocuments DEF GetMore, HasNext, Numbers
    <2> QED  BY <1>8, <2>1 DEF GetMore, Places, Skips
  <1>9. CASE MoreArrives
    <2>1. PICK q \in to..now : from' = to /\ to' = q
      BY <1>9 DEF MoreArrives, MoreEnds, Ends
    <2>2. last <= from /\ Skips(last, from) /\ Skips(from, to)
      BY <1>9 DEF MoreArrives, Places, Shape
    <2>3. last <= to /\ Skips(last, to)
      <3>1. last \in Int /\ from \in Int /\ to \in Int /\ from <= to
        BY DEF Numbers, None
      <3> QED  BY <2>2, <3>1, SkipsJoin
    <2>4. UNCHANGED <<matches, last, token, startAt>> /\ pc' = "yield"
      BY <1>9 DEF MoreArrives
    <2> QED  BY <2>1, <2>3, <2>4 DEF Places, Skips
  <1>10. CASE CursorNotFound
    BY <1>10 DEF CursorNotFound, Places, Skips, Shape
  <1>11. CASE GetMoreFails
    BY <1>11 DEF GetMoreFails, Places, Skips, Shape
  <1>12. CASE NoChange
    <2>1. cur # 0 /\ last # None /\ last <= from /\ Skips(last, from)
      BY <1>12 DEF NoChange, Places, Shape
    <2>2. last <= to /\ Skips(last, to)
      BY <1>12, <2>1, SkipsDocuments, SkipsJoin DEF NoChange, HasNext, Numbers, None
    <2> QED  BY <1>12, <2>1, <2>2 DEF NoChange, Places, Skips
  <1>13. CASE Change
    <2>1. PICK e \in Nat : from' = e /\ last' = e /\ token' = NextToken(e)
      BY <1>13 DEF Change, Documents, Numbers
    <2>2. e <= token' /\ Skips(e, token')
      <3>1. CASE Documents(e, to) = {} /\ postBatch
        BY <1>13, <2>1, <3>1, SkipsDocuments DEF NextToken, Change, Documents, Numbers
      <3>2. CASE ~(Documents(e, to) = {} /\ postBatch)
        BY <2>1, <3>2 DEF NextToken, Skips, Numbers
      <3> QED  BY <3>1, <3>2
    <2>3. matches' = matches /\ pc' = "idle" /\ token' # None
      BY <1>13, <2>1, <2>2 DEF Change, None
    <2>4. Skips(e, e)
      BY DEF Skips, Numbers
    <2> QED  BY <2>1, <2>2, <2>3, <2>4 DEF Places, Skips
  <1>14. CASE MissingId
    BY <1>14 DEF MissingId, Places, Skips
  <1>15. CASE Close
    BY <1>15 DEF Close, Places, Skips
  <1>16. CASE CloseCursor
    BY <1>16 DEF CloseCursor, Places, Skips
  <1>17. CASE \E p \in Threads : Closing(p)
    BY <1>17 DEF Closing, KillCursor, EndSession, ClearSession, Places, Skips
  <1>18. CASE UNCHANGED vars
    BY <1>18 DEF Places, Skips
  <1> QED
    BY <1>1, <1>2, <1>3, <1>4, <1>5, <1>6, <1>7, <1>8, <1>9, <1>10, <1>11, <1>12, <1>13, <1>14,
       <1>15, <1>16, <1>17, <1>18 DEF Next, Resuming, Fetching, Yielding

-----------------------------------------------------------------------------
(* The theorems.                                                           *)

LEMMA TypeParts == TypeOK <=> Numbers /\ CursorTypes /\ Flags
  BY DEF TypeOK, Numbers, CursorTypes, Flags

LEMMA InitInv == Init => IInv
  <1> SUFFICES ASSUME Init PROVE IInv  OBVIOUS
  <1>1. Numbers
    BY BoundsAreNumbers DEF Init, Numbers, None, Ids
  <1>2. CursorTypes
    BY DEF Init, CursorTypes
  <1>3. Flags
    BY Zenon DEF Init, Flags
  <1>4. Waiting /\ OneSession
    BY DEF Init, Waiting, OneSession
  <1>5. Shape /\ Known /\ Places
    BY DEF Init, Shape, Known, Places, None, Skips
  <1> QED  BY <1>1, <1>2, <1>3, <1>4, <1>5, TypeParts DEF IInv

LEMMA NextInv == IInv /\ [Next]_vars => IInv'
  <1> SUFFICES ASSUME IInv, [Next]_vars PROVE IInv'  OBVIOUS
  <1>1. Numbers /\ CursorTypes /\ Flags /\ Shape /\ Waiting /\ OneSession /\ Known /\ Places
    BY TypeParts DEF IInv
  <1>2. CursorEffect
    BY <1>1, EffectOfStep
  <1>3. Numbers' /\ CursorTypes' /\ Flags'
    BY <1>1, <1>2, NumbersStep, CursorTypesStep, FlagsStep
  <1>4. TypeOK'
    BY <1>3 DEF TypeOK, Numbers, CursorTypes, Flags
  <1>5. Shape' /\ Waiting' /\ OneSession' /\ Known' /\ Places'
    BY <1>1, <1>2, <1>3, ShapeStep, WaitingStep, SessionStep, KnownStep, PlacesStep
  <1> QED  BY <1>4, <1>5 DEF IInv

LEMMA Invariance == Spec => []IInv
  BY InitInv, NextInv, PTL DEF Spec

\* The stream's variables always have their types, for any bounds.
THEOREM TypeCorrect == Spec => []TypeOK
  <1>1. IInv => TypeOK
    BY DEF IInv
  <1> QED  BY Invariance, <1>1, PTL

\* resume_token names a place behind the event read last and before the next
\* one, whichever of the batch, the event and the options it was taken from.
THEOREM TokenCorrect == Spec => []TokenExact
  <1>1. IInv => TokenExact
    <2> SUFFICES ASSUME IInv, token # None, last # None
                 PROVE  token >= last /\ Documents(last, token) = {}
      BY DEF TokenExact
    <2>1. Numbers /\ last \in Int /\ token \in Int
      BY TypeParts DEF IInv, Numbers, None
    <2>2. last <= token /\ Skips(last, token)
      BY DEF IInv, Places
    <2> QED  BY <2>1, <2>2, SkipsDocuments
  <1> QED  BY Invariance, <1>1, PTL

\* Whichever threads close which cursors at the same time, a session that its
\* cursor has kept is that of the live cursor, or a thread is about to return it.
THEOREM SessionCorrect == Spec => []OneSession
  <1>1. IInv => OneSession
    BY DEF IInv
  <1> QED  BY Invariance, <1>1, PTL

\* A step of the stream is a step of LogReader or changes nothing that it sees.
LEMMA StepReads ==
  ASSUME IInv, [Next]_vars
  PROVE  [Reader!Next]_(Reader!vars)
  <1> USE DEF vars, server, stream, cursors, buffer, read, history, At, Reader!vars
  <1>1. Numbers /\ Shape /\ Known /\ Places
    BY TypeParts DEF IInv
  <1>2. CASE Extend
    BY <1>2 DEF Extend, Reader!Next, Reader!Extend
  <1>3. CASE Aggregate
    <2>1. CASE last = None
      <3>1. last' \in 0..now
        BY <1>1, <1>3, <2>1, PlaceType DEF Aggregate
      <3> QED  BY <1>3, <2>1, <3>1 DEF Aggregate, Reader!Next, Reader!Open
    <2>2. CASE last # None
      BY <1>3, <2>2 DEF Aggregate
    <2> QED  BY <2>1, <2>2
  <1>4. CASE Change
    <2>1. PICK e \in matches : from < e /\ Documents(from, e) = {e} /\ last' = e
      BY <1>4 DEF Change, Documents
    <2>2. last # None /\ last <= from /\ Skips(last, from)
      BY <1>1, <1>4 DEF Change, Shape, Places
    <2>3. \A x \in matches : x <= from \/ x >= e
      BY <1>1, <2>1 DEF Documents, Numbers
    <2>4. e > last /\ \A x \in matches : x <= last \/ x >= e
      BY <1>1, <2>1, <2>2, <2>3 DEF Skips, Numbers, None
    <2> QED  BY <1>4, <2>1, <2>2, <2>4 DEF Change, Reader!Next, Reader!Yield
  <1>5. CASE LoseCursor \/ ProcessKillCursors \/ Watch \/ AggregateFails \/ TryNext \/ GetMore
    BY <1>5, Zenon DEF LoseCursor, ProcessKillCursors, Watch, AggregateFails, TryNext, GetMore
  <1>6. CASE MoreArrives \/ CursorNotFound \/ GetMoreFails \/ NoChange \/ MissingId
    BY <1>6 DEF MoreArrives, CursorNotFound, GetMoreFails, NoChange, MissingId
  <1>7. CASE Close \/ CloseCursor \/ (\E p \in Threads : Closing(p)) \/ UNCHANGED vars
    BY <1>7 DEF Close, CloseCursor, Closing, KillCursor, EndSession, ClearSession
  <1> QED
    BY <1>2, <1>3, <1>4, <1>5, <1>6, <1>7 DEF Next, Resuming, Fetching, Yielding

\* The stream implements LogReader: whatever errors, resumes, invalidations and
\* new streams with the old token come between, it reads every matching event of
\* the log behind its start once and in order.
THEOREM ReadsCorrect == Spec => ReadsTheLog
  <1>1. Init => Reader!Init
    BY DEF Init, Reader!Init
  <1>2. IInv /\ [Next]_vars => [Reader!Next]_(Reader!vars)
    BY StepReads
  <1> QED  BY <1>1, <1>2, Invariance, PTL DEF Spec, ReadsTheLog, Reader!Spec
=============================================================================
