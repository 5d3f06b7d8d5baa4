------------------------------ MODULE Monitor ------------------------------
(***************************************************************************)
(* The background threads that watch one server: PeriodicExecutor            *)
(* (periodic_executor.py), Monitor with its streaming hello and its          *)
(* _RttMonitor (monitor.py), and the calls of a Topology that open, close,    *)
(* wake and cancel them.                                                    *)
(*                                                                         *)
(* Both monitors have an executor: flags that several threads read and write *)
(* without a lock, and a thread that runs until it sees _stopped.  The        *)
(* topology's calls hold the topology's lock; the monitor's own thread holds  *)
(* it while on_change removes the server and closes this very monitor.        *)
(***************************************************************************)
EXTENDS Naturals, Sequences, FiniteSets

CONSTANTS Stream          \* server_monitoring_mode "stream"

Executors == {"monitor", "rtt"}
Slots == {1, 2}           \* the Thread objects of an executor
Actors == {"app", "self"} \* who runs open or close: the topology, the monitor's thread
None == "none"

VARIABLES
    ex,      \* per executor: _stopped, _event, _thread_will_exit, _skip_sleep
    lock,    \* per executor: who waits for the thread with _lock held
    run,     \* per executor and Thread: where it is in _run
    cur,     \* per executor: _thread
    app,     \* where the topology's call is
    status,  \* the Server: new, open, closed
    sd,      \* Monitor._server_description: unknown, known, or known with topologyVersion
    prev,    \* prev_sd of the running _run
    timed,   \* the published description has a round trip time
    ctx,     \* Monitor._cancel_context: none, live or cancelled
    conn,    \* per executor: the connection its thread has checked out
    pool,    \* per executor: the idle connection
    sampled, \* the moving average has a sample
    asked,   \* request_check was called and no check began since
    tainted  \* a reply was accepted from a connection that was cancelled

vars == <<ex, lock, run, cur, app, status, sd, prev, timed, ctx, conn, pool, sampled, asked, tainted>>

NoConn == [open |-> FALSE]
NewConn == [open |-> TRUE, handshake |-> FALSE, more |-> FALSE, stale |-> FALSE]

Init ==
    /\ ex = [e \in Executors |-> [stopped |-> FALSE, event |-> FALSE, will_exit |-> FALSE, skip |-> FALSE]]
    /\ lock = [e \in Executors |-> None]
    /\ run = [e \in Executors |-> [s \in Slots |-> "dead"]]
    /\ cur = [e \in Executors |-> 0]
    /\ app = "idle" /\ status = "new"
    /\ sd = "unknown" /\ prev = "unknown" /\ timed = FALSE /\ ctx = None
    /\ conn = [e \in Executors |-> NoConn] /\ pool = [e \in Executors |-> NoConn]
    /\ sampled = FALSE /\ asked = FALSE /\ tainted = FALSE

-----------------------------------------------------------------------------
(* PeriodicExecutor.                                                        *)

Alive_Never(e) == FALSE
Alive(e) == cur[e] # 0 /\ run[e][cur[e]] # "dead"

\* open in three steps: take the lock; wait for a thread that will exit, and
\* reset the flags; start a thread unless one is alive.
OpenLock(e, actor) == lock[e] = None /\ lock' = [lock EXCEPT ![e] = actor]
OpenReset(e, actor) ==
    /\ lock[e] = actor
    /\ ex[e].will_exit => ~Alive(e)
    /\ ex' = [ex EXCEPT ![e].will_exit = FALSE, ![e].stopped = FALSE]
    /\ lock' = [lock EXCEPT ![e] = None]
\* The new state of the executor's threads and of _thread.
Started(e) ==
    LET free == CHOOSE s \in Slots : run[e][s] = "dead"
    IN  IF Alive(e) THEN <<run[e], cur[e]>> ELSE <<[run[e] EXCEPT ![free] = "top"], free>>

Go(e, s, pc) == run' = [run EXCEPT ![e][s] = pc]
Goes(e, s, from, to) == run[e][s] = from /\ Go(e, s, to)

OwnState == <<cur, app, status, sd, prev, timed, conn, pool, sampled>>

\* _should_stop, and the call of the target.
First == [monitor |-> "check", rtt |-> "checkout"]
ShouldStop(e, s) ==
    /\ run[e][s] = "top" /\ lock[e] = None
    /\ ex' = [ex EXCEPT ![e].will_exit = @ \/ ex[e].stopped]
    /\ Go(e, s, IF ex[e].stopped THEN "exit" ELSE First[e])
    /\ asked' = IF e = "monitor" /\ ~ex[e].stopped THEN FALSE ELSE asked
    /\ UNCHANGED <<OwnState, lock, ctx, tainted>>

\* The thread ends.
Exit(e, s) ==
    /\ Goes(e, s, "exit", "dead")
    /\ UNCHANGED <<OwnState, ex, lock, ctx, asked, tainted>>

\* After the target: no sleep if skip_sleep was called, by the thread itself.
Rest(e) == IF ex[e].skip THEN "clear" ELSE "sleep"

\* The sleep ends early, or at its deadline.
Wakes_Never(e) == ex[e].stopped
Wakes(e) == ex[e].stopped \/ ex[e].event
SleepEnds(e, s, deadline) ==
    /\ Wakes(e) \/ deadline
    /\ Goes(e, s, "sleep", "clear")
    /\ UNCHANGED <<OwnState, ex, lock, ctx, asked, tainted>>

Clear(e, s) ==
    /\ Goes(e, s, "clear", "top")
    /\ ex' = [ex EXCEPT ![e].event = FALSE, ![e].skip = FALSE]
    /\ UNCHANGED <<OwnState, lock, ctx, asked, tainted>>

-----------------------------------------------------------------------------
(* The pools of the monitors.  Closing a connection cancels its context.     *)

\* Pool.reset: the idle connection is closed, one that is checked out will be.
Reset(e) ==
    /\ pool' = [pool EXCEPT ![e] = NoConn]
    /\ conn' = [conn EXCEPT ![e] = IF @.open THEN [@ EXCEPT !.stale = TRUE] ELSE @]
    /\ ctx' = IF e = "monitor" /\ pool[e].open THEN "cancelled" ELSE ctx
    /\ tainted' = IF e = "monitor" /\ pool[e].open THEN FALSE ELSE tainted

Checkout(e) ==
    /\ conn' = [conn EXCEPT ![e] = IF pool[e].open THEN pool[e] ELSE NewConn]
    /\ pool' = [pool EXCEPT ![e] = NoConn]

\* The connection goes back, unless it is stale or was closed.
Checkin(c) == IF c.stale THEN NoConn ELSE c

-----------------------------------------------------------------------------
(* MonitorBase and Monitor: close, by the topology or by the own thread.     *)

\* Monitor.close, one statement after the other: the two executors are stopped,
\* the check is cancelled, the _RttMonitor is closed, the pool is reset.
CloseSteps == <<"monitor", "rtt", "cancel", "rtt", "rttpool", "pool">>
CloseStep(i) ==
    CASE CloseSteps[i] \in Executors ->
           /\ ex' = [ex EXCEPT ![CloseSteps[i]].stopped = TRUE]
           /\ UNCHANGED <<pool, conn, ctx, tainted>>
      [] CloseSteps[i] = "cancel" ->
           /\ ctx' = IF ctx = "live" THEN "cancelled" ELSE ctx
           /\ UNCHANGED <<ex, pool, conn, tainted>>
      [] CloseSteps[i] = "rttpool" -> Reset("rtt") /\ UNCHANGED ex
      [] CloseSteps[i] = "pool" -> Reset("monitor") /\ UNCHANGED ex

CloseAt == <<"close1", "close2", "close3", "close4", "close5", "close6">>
Closing(pc) == \E i \in DOMAIN CloseAt : pc = CloseAt[i]

\* The topology's lock is free.
TopologyFree == app = "idle" /\ \A s \in Slots : ~Closing(run["monitor"][s])


(* The topology's calls.                                                    *)

AppOpen ==
    /\ TopologyFree /\ status \in {"new", "open"}
    /\ OpenLock("monitor", "app") /\ app' = "open1"
    /\ UNCHANGED <<ex, run, cur, status, sd, prev, timed, ctx, conn, pool, sampled, asked, tainted>>
AppOpening ==
    /\ app = "open1" /\ app' = "open2"
    /\ OpenReset("monitor", "app")
    /\ UNCHANGED <<run, cur, status, sd, prev, timed, ctx, conn, pool, sampled, asked, tainted>>
AppOpened ==
    /\ app = "open2" /\ app' = "idle" /\ status' = "open"
    /\ run' = [run EXCEPT !["monitor"] = Started("monitor")[1]]
    /\ cur' = [cur EXCEPT !["monitor"] = Started("monitor")[2]]
    /\ UNCHANGED <<ex, lock, sd, prev, timed, ctx, conn, pool, sampled, asked, tainted>>

\* Server.close: the server left the topology, or the topology is closed.
AppClose ==
    /\ TopologyFree /\ status = "open" /\ status' = "closed" /\ app' = "close1"
    /\ UNCHANGED <<ex, lock, run, cur, sd, prev, timed, ctx, conn, pool, sampled, asked, tainted>>
AppClosing ==
    \E i \in DOMAIN CloseAt :
       /\ app = CloseAt[i] /\ app' = IF i = Len(CloseAt) THEN "idle" ELSE CloseAt[i + 1]
       /\ CloseStep(i)
       /\ UNCHANGED <<lock, run, cur, status, sd, prev, timed, sampled, asked>>

\* request_check, when a thread waits for a server.
RequestCheck ==
    /\ TopologyFree /\ status = "open"
    /\ ex' = [ex EXCEPT !["monitor"].event = TRUE]
    /\ asked' = TRUE
    /\ UNCHANGED <<OwnState, lock, run, ctx, tainted>>

\* cancel_check, when an operation failed on the network.
CancelCheck ==
    /\ TopologyFree /\ status = "open" /\ ctx = "live"
    /\ ctx' = "cancelled"
    /\ UNCHANGED <<OwnState, ex, lock, run, asked, tainted>>

-----------------------------------------------------------------------------
(* Monitor._run on the thread s.                                            *)

\* The beginning of _check_once: a connection that was cancelled is dropped.
DropsCancelled_Never == FALSE
DropsCancelled == ctx = "cancelled"
Check(s) ==
    /\ Goes("monitor", s, "check", "checkout")
    /\ prev' = sd
    /\ IF DropsCancelled THEN Reset("monitor") ELSE UNCHANGED <<pool, conn, ctx, tainted>>
    /\ UNCHANGED <<ex, lock, cur, app, status, sd, timed, sampled, asked>>

MonitorCheckout(s) ==
    /\ Goes("monitor", s, "checkout", "hello")
    /\ Checkout("monitor")
    /\ ctx' = IF pool["monitor"].open THEN ctx ELSE "live"
    /\ UNCHANGED <<ex, lock, cur, app, status, sd, prev, timed, sampled, asked, tainted>>

\* _check_with_socket gives the next reply of a stream, or one to a hello that
\* waits, or one to a plain hello, whose time is a sample.
Awaitable(c) == c.more \/ (Stream /\ c.handshake /\ sd = "versioned")
Sample_Streamed(c) == Awaitable(c)
Sample(c) == ~Awaitable(c)
Reply(s, new, more) ==
    LET c == conn["monitor"]
        back == Checkin([c EXCEPT !.handshake = TRUE, !.more = more])
    IN  /\ Goes("monitor", s, "hello", "publish")
        /\ more => Awaitable(c)
        /\ sampled' = (sampled \/ Sample(c))
        /\ timed' = sampled' /\ sd' = new
        /\ pool' = [pool EXCEPT !["monitor"] = back]
        /\ conn' = [conn EXCEPT !["monitor"] = NoConn]
        /\ ctx' = IF back.open THEN ctx ELSE "cancelled"
        /\ tainted' = (back.open /\ ctx = "cancelled")
        /\ UNCHANGED <<ex, lock, cur, app, status, prev, asked>>

\* The check fails: the connection is closed and the pool reset.  The round trip
\* times are forgotten.
Fails(s) ==
    /\ Goes("monitor", s, "hello", "publish")
    /\ sd' = "unknown" /\ timed' = FALSE /\ sampled' = FALSE
    /\ pool' = [pool EXCEPT !["monitor"] = NoConn]
    /\ conn' = [conn EXCEPT !["monitor"] = NoConn]
    /\ ctx' = "cancelled" /\ tainted' = FALSE
    /\ UNCHANGED <<ex, lock, cur, app, status, prev, asked>>

\* No connection: the same, but there is nothing to close.
ConnectFails(s) ==
    /\ ~pool["monitor"].open
    /\ Goes("monitor", s, "checkout", "publish")
    /\ sd' = "unknown" /\ timed' = FALSE /\ sampled' = FALSE
    /\ UNCHANGED <<ex, lock, cur, app, status, prev, ctx, conn, pool, asked, tainted>>

\* _OperationCancelled: the topology does not hear of it.
Cancelled(s) ==
    /\ ctx = "cancelled"
    /\ Goes("monitor", s, "hello", "finally")
    /\ sd' = "unknown" /\ timed' = FALSE
    /\ ex' = [ex EXCEPT !["monitor"].skip = @ \/ prev # "unknown"]
    /\ pool' = [pool EXCEPT !["monitor"] = NoConn]
    /\ conn' = [conn EXCEPT !["monitor"] = NoConn]
    /\ tainted' = FALSE
    /\ UNCHANGED <<lock, cur, app, status, prev, ctx, sampled, asked>>

\* on_change: the topology ignores a server it does not have, or updates its
\* description; the update may remove this server.
AfterPublish == IF Stream /\ sd = "versioned" THEN "ropen" ELSE "decide"
Publish(s, removed) ==
    /\ TopologyFree
    /\ removed => status = "open"
    /\ status' = IF removed THEN "closed" ELSE status
    /\ Goes("monitor", s, "publish", IF removed THEN CloseAt[1] ELSE AfterPublish)
    /\ UNCHANGED <<ex, lock, cur, app, sd, prev, timed, ctx, conn, pool, sampled, asked, tainted>>
SelfClosing(s) ==
    \E i \in DOMAIN CloseAt :
       /\ Goes("monitor", s, CloseAt[i], IF i = Len(CloseAt) THEN AfterPublish ELSE CloseAt[i + 1])
       /\ CloseStep(i)
       /\ UNCHANGED <<lock, cur, app, status, sd, prev, timed, sampled, asked>>

\* _start_rtt_monitor: open it, and close it again if this monitor was closed.
RttOpen(s) ==
    /\ Goes("monitor", s, "ropen", "ropen1")
    /\ OpenLock("rtt", "self")
    /\ UNCHANGED <<OwnState, ex, ctx, asked, tainted>>
RttOpening(s) ==
    /\ Goes("monitor", s, "ropen1", "ropen2")
    /\ OpenReset("rtt", "self")
    /\ UNCHANGED <<OwnState, ctx, asked, tainted>>
RttOpened(s) ==
    /\ run["monitor"][s] = "ropen2"
    /\ run' = [run EXCEPT !["monitor"][s] = "rcheck", !["rtt"] = Started("rtt")[1]]
    /\ cur' = [cur EXCEPT !["rtt"] = Started("rtt")[2]]
    /\ UNCHANGED <<ex, lock, app, status, sd, prev, timed, ctx, conn, pool, sampled, asked, tainted>>
MustClose_Never == FALSE
MustClose == ex["monitor"].stopped
RttCheck(s) ==
    /\ Goes("monitor", s, "rcheck", IF MustClose THEN "rclose" ELSE "decide")
    /\ UNCHANGED <<OwnState, ex, lock, ctx, asked, tainted>>

\* _RttMonitor.close on this thread, in _start_rtt_monitor and in the finally.
RttClose(s) ==
    \E to \in {<<"rclose", "rreset">>, <<"fclose", "freset">>} :
       /\ Goes("monitor", s, to[1], to[2])
       /\ ex' = [ex EXCEPT !["rtt"].stopped = TRUE]
       /\ UNCHANGED <<OwnState, lock, ctx, asked, tainted>>
RttReset(s) ==
    \E to \in {<<"rreset", "decide">>, <<"freset", Rest("monitor")>>} :
       /\ Goes("monitor", s, to[1], to[2])
       /\ Reset("rtt")
       /\ UNCHANGED <<ex, lock, cur, app, status, sd, prev, timed, sampled, asked>>

\* No sleep before the next reply of a stream, or after a network error.
Decide(s) ==
    /\ Goes("monitor", s, "decide", "finally")
    /\ ex' = [ex EXCEPT !["monitor"].skip =
                @ \/ (Stream /\ sd = "versioned") \/ (sd = "unknown" /\ prev # "unknown")]
    /\ UNCHANGED <<OwnState, lock, ctx, asked, tainted>>
Finally(s) ==
    /\ Goes("monitor", s, "finally", IF MustClose THEN "fclose" ELSE Rest("monitor"))
    /\ UNCHANGED <<OwnState, ex, lock, ctx, asked, tainted>>

-----------------------------------------------------------------------------
(* _RttMonitor._run on the thread s.                                        *)

RttCheckout(s) ==
    /\ Goes("rtt", s, "checkout", "test")
    /\ Checkout("rtt")
    /\ UNCHANGED <<ex, lock, cur, app, status, sd, prev, timed, ctx, sampled, asked, tainted>>

PingRefused_Never == FALSE
PingRefused == ex["rtt"].stopped
RttTest(s) ==
    /\ Goes("rtt", s, "test", IF PingRefused THEN "reset" ELSE "ping")
    /\ pool' = [pool EXCEPT !["rtt"] = IF PingRefused THEN Checkin(conn["rtt"]) ELSE @]
    /\ conn' = [conn EXCEPT !["rtt"] = IF PingRefused THEN NoConn ELSE @]
    /\ UNCHANGED <<ex, lock, cur, app, status, sd, prev, timed, ctx, sampled, asked, tainted>>
Ping(s, ok) ==
    /\ Goes("rtt", s, "ping", IF ok THEN Rest("rtt") ELSE "reset")
    /\ pool' = [pool EXCEPT !["rtt"] = IF ok THEN Checkin(conn["rtt"]) ELSE @]
    /\ conn' = [conn EXCEPT !["rtt"] = NoConn]
    /\ sampled' = (sampled \/ ok)
    /\ UNCHANGED <<ex, lock, cur, app, status, sd, prev, timed, ctx, asked, tainted>>
RttFailed(s) ==
    /\ Goes("rtt", s, "reset", Rest("rtt"))
    /\ Reset("rtt")
    /\ UNCHANGED <<ex, lock, cur, app, status, sd, prev, timed, sampled, asked>>

-----------------------------------------------------------------------------
ExecutorStep(e, s) ==
    \/ Exit(e, s) \/ SleepEnds(e, s, FALSE) \/ Clear(e, s)
MonitorStep(s) ==
    \/ Check(s) \/ MonitorCheckout(s) \/ ConnectFails(s)
    \/ \E new \in {"known", "versioned"}, more \in BOOLEAN : Reply(s, new, more)
    \/ Fails(s) \/ Cancelled(s) \/ SelfClosing(s)
    \/ RttOpen(s) \/ RttOpening(s) \/ RttOpened(s) \/ RttCheck(s) \/ RttClose(s) \/ RttReset(s)
    \/ Decide(s) \/ Finally(s)
RttStep(s) ==
    RttCheckout(s) \/ RttTest(s) \/ (\E ok \in BOOLEAN : Ping(s, ok)) \/ RttFailed(s)
AnyPublish(s) == \E removed \in BOOLEAN : Publish(s, removed)
AppStep == AppOpening \/ AppOpened \/ AppClosing

Next ==
    \/ AppOpen \/ AppClose \/ RequestCheck \/ CancelCheck \/ AppStep
    \/ \E s \in Slots :
         \/ MonitorStep(s) \/ RttStep(s) \/ AnyPublish(s)
         \/ \E e \in Executors : ShouldStop(e, s) \/ ExecutorStep(e, s) \/ SleepEnds(e, s, TRUE)

\* Threads run, a hello or a ping ends with a reply or an error, and who keeps
\* asking for a lock gets it.  The deadline of a sleep is not counted on.
Fairness ==
    /\ WF_vars(AppStep)
    /\ WF_vars(\E s \in Slots : MonitorStep(s) \/ ExecutorStep("monitor", s))
    /\ WF_vars(\E s \in Slots : RttStep(s) \/ ExecutorStep("rtt", s))
    /\ SF_vars(\E s \in Slots : AnyPublish(s) \/ ShouldStop("monitor", s))
    /\ SF_vars(\E s \in Slots : ShouldStop("rtt", s))

Spec == Init /\ [][Next]_vars /\ Fairness

-----------------------------------------------------------------------------
Dead(e) == \A s \in Slots : run[e][s] = "dead"
AllDead == Dead("monitor") /\ Dead("rtt")

\* Every variable has its type; the lock of an executor is held only by one who
\* is between the two steps of open.
TypeOK ==
    /\ \A e \in Executors :
         /\ ex[e] \in [stopped : BOOLEAN, event : BOOLEAN, will_exit : BOOLEAN, skip : BOOLEAN]
         /\ lock[e] \in Actors \cup {None} /\ cur[e] \in {0} \cup Slots
    /\ status \in {"new", "open", "closed"} /\ sd \in {"unknown", "known", "versioned"}
    /\ ctx \in {None, "live", "cancelled"}
    /\ lock["monitor"] # None <=> app = "open1"
    /\ lock["rtt"] # None <=> \E s \in Slots : run["monitor"][s] = "ropen1"

\* "Start. Multiple calls have no effect.": an executor never has two threads,
\* however open, close and the exit of the old thread interleave.
OneThread == \A e \in Executors : \A s, r \in Slots : run[e][s] # "dead" /\ run[e][r] # "dead" => s = r

\* A known server always has a round trip time, which _apply_local_threshold
\* takes for granted: the reply after the times were reset is not one of a stream.
RttKnown == sd # "unknown" => timed

\* cancel_check, "close the current monitoring connection": a reply that was
\* already under way may still be accepted, but no other one is read from it.
CancelHeard == \A s \in Slots : run["monitor"][s] = "hello" => ~tainted

\* When the monitor was closed and the threads are gone, no socket of the
\* _RttMonitor is left, whether or not it was checked out when the pool was reset.
RttSocketClosed == status = "closed" /\ app = "idle" /\ AllDead => ~pool["rtt"].open

\* "Checking if this monitor was closed directly after resolves the race.": both
\* threads of a closed monitor end and stay ended.
ThreadsEnd == status = "closed" ~> []AllDead

\* request_check, "If the monitor is sleeping, wake it soon.": another check begins
\* without waiting for the heartbeat interval, even if the request comes while a
\* check runs or while the sleep ends.
WakeHeard == asked ~> (~asked \/ status = "closed")
=============================================================================
