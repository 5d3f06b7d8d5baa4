---------------------------- MODULE ChangeStream ----------------------------
(***************************************************************************)
(* A change stream (change_stream.py) and the CommandCursor below it       *)
(* (command_cursor.py, cursor_base.py, cursor_shared.py), with the cursors *)
(* of the server, the implicit sessions of the cursors and the client's    *)
(* queue of cursors to kill.                                               *)
(*                                                                         *)
(* The log of the server is 0..now.  An entry may match the pipeline, and  *)
(* may be a drop, which invalidates every stream that reads it.  A resume  *)
(* token names a place in the log: the stream goes on behind it.  A batch  *)
(* of documents is the part of the log it was read from: the documents in  *)
(* the buffer of the cursor are the matching entries of from + 1 .. to.    *)
(*                                                                         *)
(* One thread calls watch and try_next.  close may come from the same      *)
(* thread between two calls, or from another one in the middle of a call.  *)
(* Either of them closes a cursor in steps, without a lock, so that both   *)
(* may be closing the same one.                                            *)
(***************************************************************************)
EXTENDS Integers, Sequences

CONSTANTS
  MaxLog,      \* Bound on the length of the log.
  NumCursors,  \* Bound on the cursors that are open or in use at a time.
  MaxFails     \* Bound on the errors of the network and the server.

ASSUME BoundsAreNumbers == MaxLog \in Nat /\ NumCursors \in Nat /\ MaxFails \in Nat

VARIABLES
  now, matches, drops,  \* The log of the server.
  open,        \* Whether the server has the cursor of the stream, which can still use it.
  postBatch,   \* Whether the server sends postBatchResumeToken.
  token,       \* ChangeStream._resume_token
  spent,       \* Whether the token is that of an invalidate event.
  startAt,     \* ChangeStream._start_at_operation_time
  uses,        \* "none", "start" or "resume": _uses_start_after, _uses_resume_after
  closed,      \* ChangeStream._closed
  hasId,       \* FALSE when the pipeline has removed the _id of an event.
  cur,         \* ChangeStream._cursor, 0 when there is no stream
  from, to,    \* CommandCursor._data
  killed,      \* CommandCursor._killed of that cursor
  held,        \* The cursors whose implicit session has a _server_session.
  queue,       \* MongoClient._kill_cursors_queue
  pc,          \* The step that the reading thread takes next.
  closing,     \* Whether a call of close has set _closed and has not read _cursor yet.
  dying, step, \* The cursor that a thread is closing, or 0, and what it does next to it.
  fails,       \* The number of errors so far.
  last,        \* The event that the stream read last, or where it was opened.
  yielded,     \* All the events that the application was given.
  excused,     \* Whether the stream was closed, invalidated, or failed for good.
  stillborn    \* Whether the first batch of watch was empty and its cursor closed.

server == <<now, matches, drops, postBatch>>
stream == <<token, spent, startAt, uses, closed, hasId>>
cursors == <<open, killed, held, queue, dying, step>>
buffer == <<cur, from, to>>
read == <<last, yielded>>
history == <<read, excused, stillborn>>
vars == <<server, stream, cursors, buffer, history, pc, closing, fails>>

None == -1
Ids == 1..NumCursors
Threads == {"reader", "closer"}

\* The reading thread is at one of these steps, and not closing a cursor.
At(steps) == pc \in steps /\ dying["reader"] = 0

-----------------------------------------------------------------------------
(* The server. *)

\* Another client writes; the write may be the drop of what is watched.
Extend ==
  /\ now < MaxLog
  /\ now' = now + 1
  /\ matches' \in {matches, matches \cup {now + 1}}
  /\ drops' \in {drops} \cup (IF drops = {} THEN {{now + 1}} ELSE {})
  /\ UNCHANGED <<postBatch, stream, cursors, buffer, history, pc, fails, closing>>

Documents(a, b) == {e \in matches : a < e /\ e <= b}

\* Where a batch that starts behind p may end: never behind a drop.
Ends(p) == {q \in p..now : \A d \in drops : d <= p \/ q <= d}

\* A getMore that finds no event has read on as far as it may.
MoreEnds(p) == {q \in Ends(p) :
  Documents(p, q) # {} \/ \A r \in Ends(p) : r <= q}

\* A batch behind p with this end has read a drop: the server closes the cursor.
Invalidated(p, q) == q > p /\ q \in drops

\* The server loses the cursor.
LoseCursor ==
  /\ open /\ ~killed
  /\ fails < MaxFails
  /\ fails' = fails + 1
  /\ open' = FALSE
  /\ UNCHANGED <<server, stream, killed, held, queue, dying, step, buffer, history, pc, closing>>

Dying == {dying[p] : p \in Threads}

Fresh == Ids \ (held \cup queue \cup Dying \cup {cur})

-----------------------------------------------------------------------------
(* CommandCursor *)

HasNext == Documents(from, to) # {}

Alive == HasNext \/ ~killed

\* _prepare_to_die: first of all the cursor counts as killed.
Prepare(p, next) ==
  /\ killed' = TRUE
  /\ dying' = [dying EXCEPT ![p] = cur]
  /\ step' = [step EXCEPT ![p] = next]
  /\ held' = held

\* _die_lock: whoever comes first sends killCursors.
Die(p) ==
  /\ Prepare(p, IF killed THEN "end" ELSE "kill")
  /\ queue' = queue

\* _die_no_lock, also when a cursor is garbage collected.
DieNoLock ==
  /\ Prepare("reader", "end")
  /\ queue' = IF killed THEN queue ELSE queue \cup {cur}

\* The server is known to have closed the cursor: no killCursors.
Gone_Keeps ==
  /\ killed' = TRUE
  /\ open' = FALSE
  /\ UNCHANGED <<held, queue, dying, step>>
Gone ==
  /\ Prepare("reader", "end")
  /\ queue' = queue
  /\ open' = FALSE

\* _close_cursor_now: when killCursors fails it is tried again later.
KillCursor(p) ==
  /\ dying[p] # 0 /\ step[p] = "kill"
  /\ \/ /\ queue' = queue /\ fails' = fails
        /\ open' = (open /\ dying[p] # cur)
     \/ /\ fails < MaxFails /\ fails' = fails + 1
        /\ queue' = queue \cup {dying[p]}
        /\ open' = open
  /\ step' = [step EXCEPT ![p] = "end"]
  /\ UNCHANGED <<server, stream, killed, held, dying, buffer, history, pc, closing>>

\* _end_implicit_session: a thread that finds the server session gives it back.
EndSession(p) ==
  /\ dying[p] # 0 /\ step[p] = "end"
  /\ \/ /\ dying[p] \in held
        /\ step' = [step EXCEPT ![p] = "clear"] /\ dying' = dying
     \/ /\ dying[p] \notin held
        /\ dying' = [dying EXCEPT ![p] = 0] /\ step' = step
  /\ UNCHANGED <<server, stream, open, killed, held, queue, buffer, history, pc, fails, closing>>

\* Only then the cursor's session forgets it.
ClearSession(p) ==
  /\ dying[p] # 0 /\ step[p] = "clear"
  /\ held' = held \ {dying[p]}
  /\ dying' = [dying EXCEPT ![p] = 0] /\ step' = [step EXCEPT ![p] = "end"]
  /\ UNCHANGED <<server, stream, open, killed, queue, buffer, history, pc, fails, closing>>

Closing(p) == KillCursor(p) \/ EndSession(p) \/ ClearSession(p)

\* MongoClient._process_kill_cursors; what fails is not tried again.
ProcessKillCursors ==
  /\ queue # {}
  /\ queue' = {}
  /\ open' \in IF cur \in queue THEN {open, FALSE} ELSE {open}
  /\ UNCHANGED <<server, stream, killed, held, dying, step, buffer, history, pc, fails, closing>>

-----------------------------------------------------------------------------
(* Opening and resuming *)

\* A new token t, from a batch of which the entries behind f are left.
Spent(t, f) == IF t = token THEN spent ELSE t \in drops /\ t > f

\* watch: with the options of the application; or with the token of a stream
\* that it had before, which is closed, or which it drops as one of its failures.
Watch ==
  /\ At({"idle"}) /\ ~closing /\ dying["closer"] = 0
  /\ \/ /\ last # None /\ token # None
        /\ \/ closed /\ fails' = fails
           \/ ~closed /\ fails < MaxFails /\ fails' = fails + 1
        /\ UNCHANGED <<token, spent>>
        /\ uses' \in {"start", "resume"}
        /\ startAt' = None
     \/ /\ last = None
        /\ token' \in {None} \cup 0..now
        /\ spent' \in BOOLEAN /\ (spent' => token' \in drops)
        /\ uses' \in IF token' = None THEN {"none"} ELSE {"start", "resume"}
        /\ startAt' \in IF token' = None THEN {None} \cup 1..now + 1 ELSE {None}
        /\ fails' = fails
  /\ closed' = FALSE /\ hasId' = TRUE /\ excused' = FALSE /\ stillborn' = FALSE
  /\ DieNoLock
  /\ open' = FALSE /\ cur' = 0 /\ from' = 0 /\ to' = 0
  /\ pc' = "watch"
  /\ UNCHANGED <<server, read, closing>>

\* _change_stream_options: the place behind which the server starts reading.
Place_Early ==
  IF token # None THEN (IF token > 0 THEN token - 1 ELSE 0)
  ELSE IF startAt # None THEN startAt - 1
  ELSE now
Place ==
  IF token # None THEN token
  ELSE IF startAt # None THEN startAt - 1
  ELSE now

\* An aggregate with resumeAfter does not go on behind an invalidate event.
Refused == token # None /\ spent /\ uses # "start"

\* _process_result
ProcessResult(p, q) ==
  LET empty == Documents(p, q) = {} IN
  /\ token' = IF empty /\ postBatch THEN q ELSE token
  /\ spent' = IF empty /\ postBatch THEN Spent(q, p) ELSE spent
  /\ startAt' =
       IF empty /\ ~postBatch /\ startAt = None /\ uses = "none"
       THEN now + 1 ELSE startAt

\* The aggregate succeeds and the stream has a new cursor.
Aggregate ==
  /\ At({"watch", "resumeFirst", "resume"})
  /\ ~Refused
  /\ \E q \in Ends(Place), c \in Fresh :
       /\ \A d \in Fresh : c <= d
       /\ ProcessResult(Place, q)
       /\ cur' = c /\ from' = Place /\ to' = q
       /\ open' = ~Invalidated(Place, q)
       /\ killed' = Invalidated(Place, q)
       /\ held' = IF Invalidated(Place, q) THEN held ELSE held \cup {c}
       /\ excused' = (excused \/ Invalidated(Place, q))
       /\ stillborn' = \/ stillborn
                       \/ /\ pc = "watch"
                          /\ Invalidated(Place, q)
                          /\ Documents(Place, q) = {}
  /\ last' = IF last = None THEN Place ELSE last
  /\ pc' = CASE pc = "watch" -> "idle"
             [] pc = "resumeFirst" -> "next"
             [] OTHER -> "yield"
  /\ UNCHANGED <<server, uses, closed, hasId, queue, dying, step, yielded, fails, closing>>

\* The aggregate fails, and its error is raised to the application.  Only an
\* error of the resume after a getMore closes the stream.
AggregateFails ==
  /\ At({"watch", "resumeFirst", "resume"})
  /\ \/ Refused /\ fails' = fails
     \/ fails < MaxFails /\ fails' = fails + 1
  /\ closed' \in CASE pc = "watch" -> {TRUE}
                   [] pc = "resumeFirst" -> {closed}
                   [] Refused -> {TRUE}
                   [] OTHER -> {closed, TRUE}
  /\ excused' = (excused \/ closed')
  /\ pc' = "idle"
  /\ UNCHANGED <<server, token, spent, startAt, uses, hasId, cursors, buffer, read, stillborn, closing>>

-----------------------------------------------------------------------------
(* try_next *)

\* A live stream whose cursor is dead starts with a resume.
MustResume_Never == FALSE
MustResume == ~closed /\ ~Alive

\* The application may go on calling a closed stream, though not after it has
\* learnt that its pipeline removes the _id of an event.
TryNext ==
  /\ cur # 0
  /\ hasId \/ ~closed
  /\ At({"idle"})
  /\ pc' = IF MustResume THEN "resumeFirst" ELSE "next"
  /\ UNCHANGED <<server, stream, cursors, buffer, history, fails, closing>>

\* CommandCursor._try_next(True)
GetMore ==
  /\ At({"next"})
  /\ ~HasNext /\ ~killed
  /\ pc' = "getMore"
  /\ UNCHANGED <<server, stream, cursors, buffer, history, fails, closing>>

MoreArrives ==
  /\ At({"getMore"})
  /\ open
  /\ \E q \in MoreEnds(to) :
       /\ from' = to /\ to' = q
       /\ excused' = (excused \/ Invalidated(to, q))
       /\ IF Invalidated(to, q)
          THEN Gone
          ELSE UNCHANGED cursors
  /\ pc' = "yield"
  /\ UNCHANGED <<server, stream, cur, read, stillborn, fails, closing>>

\* CursorNotFound; or, when close came from the other thread, CursorKilled or
\* the error that the session has ended.
CursorNotFound ==
  /\ At({"getMore"})
  /\ Prepare("reader", "end")
  /\ \/ ~open /\ pc' = "resume" /\ closed' = closed
     \/ killed /\ (~open \/ cur \notin held) /\ pc' = "idle" /\ closed' = TRUE
  /\ open' = FALSE
  /\ UNCHANGED <<server, token, spent, startAt, uses, hasId, queue, buffer, history, fails, closing>>

\* A network error, a resumable error of the server, a fatal one, a timeout.
GetMoreFails ==
  /\ At({"getMore"})
  /\ fails < MaxFails /\ fails' = fails + 1
  /\ \/ Gone /\ pc' = "resume" /\ closed' = closed
     \/ Die("reader") /\ pc' = "resume" /\ closed' = closed
     \/ Die("reader") /\ pc' = "idle" /\ closed' = TRUE
     \/ DieNoLock /\ pc' = "idle" /\ closed' = closed
  /\ open' = FALSE
  /\ excused' = (excused \/ closed')
  /\ UNCHANGED <<server, token, spent, startAt, uses, hasId, buffer, read, stillborn, closing>>

\* A cursor without documents whose server side is gone has been invalidated.
ClosedAfter(left) == closed \/ (left = {} /\ killed)

\* The end of try_next, when no change is available.
NoChange ==
  /\ At({"yield"}) \/ (At({"next"}) /\ killed)
  /\ ~HasNext
  /\ closed' = ClosedAfter({})
  /\ token' = IF postBatch THEN to ELSE token
  /\ spent' = IF postBatch THEN Spent(to, from) ELSE spent
  /\ startAt' = IF postBatch THEN None ELSE startAt
  /\ pc' = "idle"
  /\ UNCHANGED <<server, uses, hasId, cursors, buffer, history, fails, closing>>

\* The token that is cached with the event e.
NextToken_Eager(e) == IF postBatch THEN to ELSE e
NextToken(e) == IF Documents(e, to) = {} /\ postBatch THEN to ELSE e

\* The end of try_next, when there is a change.  What follows, the decoding with
\* the codecs of the application, changes nothing more when it raises.
Change ==
  /\ At({"yield", "next"})
  /\ \E e \in Documents(from, to) :
       /\ Documents(from, e) = {e}
       /\ from' = e
       /\ closed' = ClosedAfter(Documents(e, to))
       /\ token' = NextToken(e)
       /\ spent' = Spent(NextToken(e), from)
       /\ last' = e
       /\ yielded' = Append(yielded, e)
  /\ uses' = "resume"
  /\ startAt' = None
  /\ pc' = "idle"
  /\ UNCHANGED <<server, hasId, cursors, cur, to, excused, stillborn, fails, closing>>

\* The change has no _id to resume with.
MissingId ==
  /\ At({"yield", "next"})
  /\ \E e \in Documents(from, to) : Documents(from, e) = {e} /\ from' = e
  /\ closed' = TRUE /\ hasId' = FALSE /\ excused' = TRUE
  /\ Die("reader") /\ open' = FALSE
  /\ pc' = "idle"
  /\ UNCHANGED <<server, token, spent, startAt, uses, cur, to, read, stillborn, fails, closing>>

-----------------------------------------------------------------------------
(* close *)

\* A close that finds the stream closed, its cursor killed and no session does
\* nothing.
Close ==
  /\ cur # 0
  /\ ~closed \/ ~killed \/ cur \in held
  /\ ~closing /\ dying["closer"] = 0
  /\ closed' = TRUE /\ excused' = TRUE
  /\ closing' = TRUE
  /\ UNCHANGED <<server, token, spent, startAt, uses, hasId, cursors, buffer, read, stillborn, pc, fails>>

CloseCursor ==
  /\ closing
  /\ closing' = FALSE
  /\ Die("closer") /\ open' = (open /\ pc = "getMore")
  /\ UNCHANGED <<server, stream, buffer, history, pc, fails>>

-----------------------------------------------------------------------------
Init ==
  /\ now = 0 /\ matches = {} /\ drops = {}
  /\ postBatch \in BOOLEAN
  /\ token = None /\ spent = FALSE /\ startAt = None /\ uses = "none"
  /\ closed = TRUE /\ hasId = TRUE
  /\ cur = 0 /\ from = 0 /\ to = 0
  /\ open = FALSE /\ killed = TRUE /\ held = {} /\ queue = {}
  /\ pc = "idle" /\ closing = FALSE
  /\ dying = [p \in Threads |-> 0] /\ step = [p \in Threads |-> "end"]
  /\ fails = 0
  /\ last = None /\ yielded = <<>> /\ excused = FALSE /\ stillborn = FALSE

Resuming == Aggregate \/ AggregateFails
Fetching == GetMore \/ MoreArrives \/ CursorNotFound \/ GetMoreFails
Yielding == NoChange \/ Change \/ MissingId

Next ==
  \/ Extend \/ LoseCursor \/ ProcessKillCursors
  \/ Watch \/ Resuming \/ TryNext \/ Fetching \/ Yielding
  \/ Close \/ CloseCursor \/ \E p \in Threads : Closing(p)

\* The application goes on reading, the server and the client's periodic task
\* go on running.
Fairness ==
  /\ WF_vars(TryNext \/ Resuming \/ Fetching \/ Yielding \/ Closing("reader"))
  /\ WF_vars(CloseCursor \/ Closing("closer"))
  /\ WF_vars(ProcessKillCursors)

Spec == Init /\ [][Next]_vars /\ Fairness

-----------------------------------------------------------------------------
(* Properties *)

TypeOK ==
  /\ now \in 0..MaxLog /\ matches \subseteq 1..now /\ drops \subseteq 1..now
  /\ open \in BOOLEAN /\ killed \in BOOLEAN
  /\ held \subseteq Ids /\ queue \subseteq Ids
  /\ postBatch \in BOOLEAN /\ hasId \in BOOLEAN
  /\ token \in {None} \cup 0..now /\ spent \in BOOLEAN
  /\ startAt \in {None} \cup 1..now + 1
  /\ uses \in {"none", "start", "resume"} /\ closed \in BOOLEAN
  /\ cur \in Ids \cup {0} /\ from \in 0..now /\ to \in from..now
  /\ pc \in {"idle", "watch", "resumeFirst", "resume", "next", "getMore", "yield"}
  /\ closing \in BOOLEAN
  /\ dying \in [Threads -> Ids \cup {0}] /\ step \in [Threads -> {"kill", "end", "clear"}]
  /\ fails \in 0..MaxFails
  /\ last \in {None} \cup 0..now /\ yielded \in Seq(Nat)
  /\ excused \in BOOLEAN /\ stillborn \in BOOLEAN

\* The stream reads the log as LogReader does: no event twice, none left out,
\* whatever errors, resumes and new streams with the old token come between.
Reader == INSTANCE LogReader WITH Unopened <- None
ReadsTheLog == Reader!Spec

\* resume_token: a stream resumed with it goes on behind the event read last,
\* and leaves out no event.
TokenExact ==
  token # None /\ last # None => token >= last /\ Documents(last, token) = {}

\* The cursor of the stream, while it is alive, has its implicit session; any
\* other cursor that still has one is just being closed by a thread, whichever
\* threads close which cursors at the same time.
OneSession == held \ Dying = IF killed THEN {} ELSE {cur}

\* An application that goes on reading gets every event of a log that others
\* stop writing; a stream ends before only when it is told to, or by a fatal
\* error or an invalidation.
EventRead ==
  []<>(last # None => \/ \A e \in matches : e <= last
                      \/ excused /\ (closed \/ stillborn))
=============================================================================
