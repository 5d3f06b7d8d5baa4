-------------------------------- MODULE Pool --------------------------------
(***************************************************************************)
(* The connection pool of one server: class Pool of                        *)
(* src/pymongo/synchronous/pool.py.  Application threads check connections *)
(* out and in, one background thread keeps minPoolSize connections open,   *)
(* and server discovery readies, clears and closes the pool.               *)
(*                                                                         *)
(* Every `with self.lock` section of the code is one step.  Both condition *)
(* variables share that lock, so each is only the set of its waiters: a    *)
(* thread whose pc says it waits and which is no longer in the set has     *)
(* been notified and is about to take the lock again.                      *)
(***************************************************************************)
EXTENDS Integers, Sequences, FiniteSets

CONSTANTS Threads,        \* application threads
          Maint,          \* the thread that runs remove_stale_sockets
          Services,       \* serviceIds behind a load balancer; {} without one
          NoService,      \* service_id is None
          NoConn,         \* no connection, or one that has been closed
          MaxPoolSize, MinPoolSize, MaxConnecting,
          Timeouts,       \* is waitQueueTimeoutMS set?
          WaitInterrupts, \* may KeyboardInterrupt strike a condition wait?
          Pins,           \* kinds of pin in use: a subset of {"txn", "cursor"}
          MaxGen,         \* bound: how often the pool may be cleared or closed
          MaxOps,         \* bound on operation_count when a checkout starts
          MaxDeaths,      \* bound: idle connections found dead or too old
          MaxDrift        \* bound: how far ntxns and ncursors go below zero

ASSUME PoolAssumption ==
    /\ IsFiniteSet(Threads) /\ Maint \notin Threads
    /\ NoService \notin Services
    /\ MaxPoolSize \in Nat \ {0} /\ MaxConnecting \in Nat \ {0}
    /\ MinPoolSize \in Nat /\ MinPoolSize <= MaxPoolSize
    /\ Timeouts \in BOOLEAN /\ WaitInterrupts \in BOOLEAN
    /\ Pins \subseteq {"txn", "cursor"}
    /\ MaxGen \in Nat /\ MaxOps \in Nat /\ MaxDeaths \in Nat /\ MaxDrift \in Nat

VARIABLES state,            \* PoolState
          conns,            \* idle connections, most recently used first
          gens,             \* _PoolGeneration: overall and per service
          requests, active_sockets, pending, operation_count,
          ntxns, ncursors,
          sizeWait,         \* waiters of size_cond
          connWait,         \* waiters of _max_connecting_cond
          active_contexts,  \* actors whose cancellation context is registered
          pc,               \* where each actor is in the code
          conn,             \* the connection (or context) each actor holds
          pin,              \* Connection.pinned_txn / pinned_cursor
          reference,        \* remove_stale_sockets' reference_generation
          mloop,            \* remove_stale_sockets goes on: "again" or "leave"
          deaths            \* idle connections lost so far

slots == <<requests, active_sockets, pending, operation_count>>
pins == <<ntxns, ncursors, pin>>
maint == <<reference, mloop>>
vars == <<state, conns, gens, slots, pins, sizeWait, connWait,
          active_contexts, pc, conn, maint, deaths>>

Actors == Threads \cup {Maint}
LoadBalanced == Services # {}
AllServices == Services \cup {NoService}
NoGen == -1

\* A Connection, as far as the pool can tell one from another.  Before
\* Connection() exists, connect() only has a temporary cancellation context.
Connection == [svc : AllServices, gen : Nat \cup {NoGen},
               ctx : {"live", "cancelled"}]
TmpContext == [svc |-> NoService, gen |-> NoGen, ctx |-> "live"]
ASSUME NoConnAssumption == NoConn \notin Connection

Stale_Never(c) == FALSE
Stale(c) == c.gen # gens[c.svc]

ThreadPcs == {"idle", "enter", "size_wait", "size_timeout", "slot", "acquire",
              "conn_wait", "conn_timeout", "check", "socket", "hello",
              "unpend", "got", "use", "pinned", "checkin", "append",
              "release", "fail"}
MaintPcs == {"idle", "m_state", "m_idle", "m_size", "m_pend", "socket",
             "hello", "m_add", "m_unpend", "m_release"}

Init ==
    /\ state = "PAUSED"
    /\ conns = <<>>
    /\ gens = [s \in AllServices |-> 0]
    /\ requests = 0 /\ active_sockets = 0 /\ pending = 0 /\ operation_count = 0
    /\ ntxns = 0 /\ ncursors = 0
    /\ sizeWait = {} /\ connWait = {} /\ active_contexts = {}
    /\ pc = [a \in Actors |-> "idle"]
    /\ conn = [a \in Actors |-> NoConn]
    /\ pin = [t \in Threads |-> "none"]
    /\ reference = 0 /\ mloop = "again"
    /\ deaths = 0

-----------------------------------------------------------------------------
(* Helpers.  Condition.notify() wakes one waiter, whichever it is.         *)

Goto(a, label) == pc' = [pc EXCEPT ![a] = label]
Hold(a, c) == conn' = [conn EXCEPT ![a] = c]

AfterNotify(waiters) ==
    IF waiters = {} THEN {{}} ELSE {waiters \ {w} : w \in waiters}

NotifySize == sizeWait' \in AfterNotify(sizeWait)
NotifyConn == connWait' \in AfterNotify(connWait)

\* A timed-out thread leaves the waiters.  "Timed out, notify the next thread
\* to ensure a timeout doesn't consume the condition."
AfterTimeout_Consumed(waiters, t, condition) == {waiters \ {t}}
AfterTimeout(waiters, t, condition) ==
    IF condition THEN AfterNotify(waiters \ {t}) ELSE {waiters \ {t}}

SlotFree == requests < MaxPoolSize

CanConnect_OffByOne == conns # <<>> \/ pending <= MaxConnecting
CanConnect == conns # <<>> \/ pending < MaxConnecting

\* remove_stale_sockets: "There are enough sockets in the pool."
EnoughConns_IdleOnly == Len(conns) >= MinPoolSize
EnoughConns ==
    Len(conns) + active_sockets >= MinPoolSize \/ requests >= MinPoolSize

-----------------------------------------------------------------------------
(* _get_conn, first portion of the wait queue: a slot of maxPoolSize.      *)

StartCheckout(t) ==
    /\ pc[t] = "idle"
    /\ state # "CLOSED"
    /\ operation_count < MaxOps
    /\ operation_count' = operation_count + 1
    /\ Goto(t, "enter")
    /\ UNCHANGED <<state, conns, gens, requests, active_sockets, pending, pins,
                   sizeWait, connWait, active_contexts, conn, maint, deaths>>

\* Holding size_cond, on entry or after being notified: fail if the pool is
\* not ready, wait while there is no slot, otherwise take one.
TakeSlotOrWait(t) ==
    /\ \/ /\ state # "READY"
          /\ Goto(t, "idle") /\ UNCHANGED <<requests, sizeWait>>
       \/ /\ state = "READY" /\ ~SlotFree
          /\ Goto(t, "size_wait") /\ sizeWait' = sizeWait \cup {t}
          /\ UNCHANGED requests
       \/ /\ state = "READY" /\ SlotFree
          /\ Goto(t, "slot") /\ requests' = requests + 1
          /\ UNCHANGED sizeWait
    /\ UNCHANGED <<state, conns, gens, active_sockets, pending, operation_count,
                   pins, connWait, active_contexts, conn, maint, deaths>>

EnterSize(t) == pc[t] = "enter" /\ TakeSlotOrWait(t)
WakeSize(t) == pc[t] = "size_wait" /\ t \notin sizeWait /\ TakeSlotOrWait(t)

\* The wait times out; the thread still needs the lock to return from wait(),
\* and until then it is a waiter that notify() may pick.
SizeTimeout(t) ==
    /\ Timeouts /\ pc[t] = "size_wait" /\ t \in sizeWait
    /\ Goto(t, "size_timeout")
    /\ UNCHANGED <<state, conns, gens, slots, pins, sizeWait, connWait,
                   active_contexts, conn, maint, deaths>>

GiveUpSize_Retry(t) ==
    /\ pc[t] = "size_timeout"
    /\ sizeWait' \in AfterTimeout(sizeWait, t, SlotFree)
    /\ Goto(t, "enter")
    /\ UNCHANGED <<state, conns, gens, slots, pins, connWait, active_contexts,
                   conn, maint, deaths>>
GiveUpSize(t) ==
    /\ pc[t] = "size_timeout"
    /\ sizeWait' \in AfterTimeout(sizeWait, t, SlotFree)
    /\ Goto(t, "idle")
    /\ UNCHANGED <<state, conns, gens, slots, pins, connWait, active_contexts,
                   conn, maint, deaths>>

TakeActive(t) ==
    /\ pc[t] = "slot"
    /\ active_sockets' = active_sockets + 1
    /\ Goto(t, "acquire")
    /\ UNCHANGED <<state, conns, gens, requests, pending, operation_count, pins,
                   sizeWait, connWait, active_contexts, conn, maint, deaths>>

\* The code's `except BaseException` reached before active_sockets was
\* incremented: KeyboardInterrupt inside the try block.
InterruptedSlot_Active(t) ==
    /\ pc[t] = "slot"
    /\ requests' = requests - 1
    /\ active_sockets' = active_sockets - 1
    /\ NotifySize
    /\ Goto(t, "idle")
    /\ UNCHANGED <<state, conns, gens, pending, operation_count, pins, connWait,
                   active_contexts, conn, maint, deaths>>
InterruptedSlot(t) ==
    /\ pc[t] = "slot"
    /\ requests' = requests - 1
    /\ NotifySize
    /\ Goto(t, "idle")
    /\ UNCHANGED <<state, conns, gens, active_sockets, pending, operation_count,
                   pins, connWait, active_contexts, conn, maint, deaths>>

-----------------------------------------------------------------------------
(* _get_conn, second portion: an idle connection, or leave to create one.  *)

PopOrConnectOrWait(t) ==
    /\ \/ /\ state # "READY"
          /\ Goto(t, "fail")
          /\ UNCHANGED <<conns, conn, pending, connWait, active_contexts>>
       \/ /\ state = "READY" /\ ~CanConnect
          /\ Goto(t, "conn_wait") /\ connWait' = connWait \cup {t}
          /\ UNCHANGED <<conns, conn, pending, active_contexts>>
       \/ /\ state = "READY" /\ conns # <<>>
          /\ conns' = Tail(conns) /\ Hold(t, Head(conns))
          /\ Goto(t, "check")
          /\ UNCHANGED <<pending, connWait, active_contexts>>
       \/ /\ state = "READY" /\ conns = <<>> /\ CanConnect
          /\ pending' = pending + 1 /\ Hold(t, TmpContext)
          /\ active_contexts' = active_contexts \cup {t}
          /\ Goto(t, "socket")
          /\ UNCHANGED <<conns, connWait>>
    /\ UNCHANGED <<state, gens, requests, active_sockets, operation_count, pins,
                   sizeWait, maint, deaths>>

Acquire(t) == pc[t] = "acquire" /\ PopOrConnectOrWait(t)
WakeConn(t) == pc[t] = "conn_wait" /\ t \notin connWait /\ PopOrConnectOrWait(t)

ConnTimeout(t) ==
    /\ Timeouts /\ pc[t] = "conn_wait" /\ t \in connWait
    /\ Goto(t, "conn_timeout")
    /\ UNCHANGED <<state, conns, gens, slots, pins, sizeWait, connWait,
                   active_contexts, conn, maint, deaths>>

GiveUpConn(t) ==
    /\ pc[t] = "conn_timeout"
    /\ connWait' \in AfterTimeout(connWait, t, CanConnect)
    /\ Goto(t, "fail")
    /\ UNCHANGED <<state, conns, gens, slots, pins, sizeWait, active_contexts,
                   conn, maint, deaths>>

\* KeyboardInterrupt later in the try block, outside connect() and the waits.
\* The exception handler closes a connection already taken from the pool.
InterruptedAcquire(t) ==
    /\ pc[t] \in {"acquire", "check"}
    /\ Hold(t, NoConn)
    /\ Goto(t, "fail")
    /\ UNCHANGED <<state, conns, gens, slots, pins, sizeWait, connWait,
                   active_contexts, maint, deaths>>

\* KeyboardInterrupt in one of the two waits.  The first is outside the try
\* block.  Neither passes a notify on, as a timeout does: one that picked this
\* thread is lost.
InterruptedWait(t) ==
    /\ WaitInterrupts
    /\ \/ pc[t] = "size_wait" /\ Goto(t, "idle")
       \/ pc[t] = "conn_wait" /\ Goto(t, "fail")
    /\ sizeWait' = sizeWait \ {t} /\ connWait' = connWait \ {t}
    /\ UNCHANGED <<state, conns, gens, slots, pins, active_contexts, conn,
                   maint, deaths>>

\* _perished: idle for too long, closed by the peer, or of an old generation.
Perished(t) ==
    /\ pc[t] = "check"
    /\ \/ Stale(conn[t]) /\ UNCHANGED deaths
       \/ deaths < MaxDeaths /\ deaths' = deaths + 1
    /\ Hold(t, NoConn)
    /\ Goto(t, "acquire")
    /\ UNCHANGED <<state, conns, gens, slots, pins, sizeWait, connWait,
                   active_contexts, maint>>

NotPerished(t) ==
    /\ pc[t] = "check"
    /\ ~Stale(conn[t])
    /\ Goto(t, "got")
    /\ UNCHANGED <<state, conns, gens, slots, pins, sizeWait, connWait,
                   active_contexts, conn, maint, deaths>>

-----------------------------------------------------------------------------
(* connect, run by a thread or by the background thread.                   *)

\* The connection attempt fails: its context is discarded, nothing is kept.
\* For the background thread the exception leaves remove_stale_sockets.
ConnectFailed(a) ==
    /\ Hold(a, NoConn)
    /\ active_contexts' = active_contexts \ {a}
    /\ Goto(a, IF a \in Threads THEN "unpend" ELSE "m_unpend")
    /\ mloop' = IF a = Maint THEN "leave" ELSE mloop
    /\ UNCHANGED <<state, conns, gens, slots, pins, sizeWait, connWait,
                   reference, deaths>>

SocketFailed(a) == pc[a] = "socket" /\ ConnectFailed(a)

\* Connection() notes the generation of the moment, and inherits a
\* cancellation that hit the temporary context.
SocketOpened(a) ==
    /\ pc[a] = "socket"
    /\ Hold(a, [conn[a] EXCEPT !.gen = gens[NoService]])
    /\ Goto(a, "hello")
    /\ UNCHANGED <<state, conns, gens, slots, pins, sizeWait, connWait,
                   active_contexts, maint, deaths>>

HelloFailed(a) == pc[a] = "hello" /\ ConnectFailed(a)

\* A cancelled connection cannot read the hello reply.  Behind a load balancer
\* the reply names the service, whose own generation the connection takes.
HelloDone(a) ==
    /\ pc[a] = "hello"
    /\ conn[a].ctx = "live"
    /\ \/ ~LoadBalanced /\ UNCHANGED conn
       \/ \E s \in Services :
             Hold(a, [conn[a] EXCEPT !.svc = s, !.gen = gens[s]])
    /\ Goto(a, IF a \in Threads THEN "unpend" ELSE "m_add")
    /\ UNCHANGED <<state, conns, gens, slots, pins, sizeWait, connWait,
                   active_contexts, maint, deaths>>

\* The `finally` around connect(), then success or the `except BaseException`.
Unpend(t) ==
    /\ pc[t] = "unpend"
    /\ pending' = pending - 1
    /\ NotifyConn
    /\ Goto(t, IF conn[t] = NoConn THEN "fail" ELSE "got")
    /\ UNCHANGED <<state, conns, gens, requests, active_sockets,
                   operation_count, pins, sizeWait, active_contexts, conn,
                   maint, deaths>>

\* _get_conn's `except BaseException`: the slot is released.  operation_count
\* is left as it is.
FailCheckout(t) ==
    /\ pc[t] = "fail"
    /\ requests' = requests - 1
    /\ active_sockets' = active_sockets - 1
    /\ NotifySize
    /\ Goto(t, "idle")
    /\ UNCHANGED <<state, conns, gens, pending, operation_count, pins, connWait,
                   active_contexts, conn, maint, deaths>>

-----------------------------------------------------------------------------
(* checkout: the body of the with statement, and what follows it.          *)

RegisterContext(t) ==
    /\ pc[t] = "got"
    /\ active_contexts' = active_contexts \cup {t}
    /\ Goto(t, "use")
    /\ UNCHANGED <<state, conns, gens, slots, pins, sizeWait, connWait, conn,
                   maint, deaths>>

\* pin_txn or pin_cursor: a session or a cursor now owns the connection.
PinConn(t, kind) ==
    /\ pc[t] = "use" /\ pin[t] = "none" /\ conn[t] # NoConn
    /\ ntxns > -MaxDrift /\ ncursors > -MaxDrift
    /\ pin' = [pin EXCEPT ![t] = kind]
    /\ UNCHANGED <<state, conns, gens, slots, ntxns, ncursors, sizeWait,
                   connWait, active_contexts, pc, conn, maint, deaths>>

\* A network error closes the connection in use.
BreakConn(t) ==
    /\ pc[t] \in {"use", "pinned"} /\ conn[t] # NoConn
    /\ Hold(t, NoConn)
    /\ UNCHANGED <<state, conns, gens, slots, pins, sizeWait, connWait,
                   active_contexts, pc, maint, deaths>>

\* The with block ends normally.  A pinned connection stays with its owner.
FinishUse(t) ==
    /\ pc[t] = "use"
    /\ Goto(t, IF pin[t] = "none" THEN "checkin" ELSE "pinned")
    /\ ntxns' = IF pin[t] = "txn" THEN ntxns + 1 ELSE ntxns
    /\ ncursors' = IF pin[t] = "cursor" THEN ncursors + 1 ELSE ncursors
    /\ UNCHANGED <<state, conns, gens, slots, sizeWait, connWait, pin,
                   active_contexts, conn, maint, deaths>>

\* The with block raises.  If the connection is pinned, the error handler may
\* unpin it, which checks it in, or it stays with its owner.
RaiseInUse(t) ==
    /\ pc[t] = "use"
    /\ \/ Goto(t, "checkin")
       \/ pin[t] # "none" /\ Goto(t, "pinned")
    /\ UNCHANGED <<state, conns, gens, slots, pins, sizeWait, connWait,
                   active_contexts, conn, maint, deaths>>

\* Connection.unpin by the session or the cursor that owns it.
Unpin(t) ==
    /\ pc[t] = "pinned"
    /\ Goto(t, "checkin")
    /\ UNCHANGED <<state, conns, gens, slots, pins, sizeWait, connWait,
                   active_contexts, conn, maint, deaths>>

-----------------------------------------------------------------------------
(* checkin.                                                                *)

\* Up to the unlocked read of `closed`.
StartCheckin(t) ==
    /\ pc[t] = "checkin"
    /\ active_contexts' = active_contexts \ {t}
    /\ IF state = "CLOSED" \/ conn[t] = NoConn
       THEN Hold(t, NoConn) /\ Goto(t, "release")
       ELSE UNCHANGED conn /\ Goto(t, "append")
    /\ UNCHANGED <<state, conns, gens, slots, pins, sizeWait, connWait, maint,
                   deaths>>

\* "Hold the lock to ensure this section does not race with Pool.reset()."
AppendConn(t) ==
    /\ pc[t] = "append"
    /\ IF Stale(conn[t])
       THEN UNCHANGED <<conns, connWait>>
       ELSE conns' = <<conn[t]>> \o conns /\ NotifyConn
    /\ Hold(t, NoConn)
    /\ Goto(t, "release")
    /\ UNCHANGED <<state, gens, slots, pins, sizeWait, active_contexts, maint,
                   deaths>>

ReleaseSlot(t) ==
    /\ pc[t] = "release"
    /\ ntxns' = IF pin[t] = "txn" THEN ntxns - 1 ELSE ntxns
    /\ ncursors' = IF pin[t] = "cursor" THEN ncursors - 1 ELSE ncursors
    /\ pin' = [pin EXCEPT ![t] = "none"]
    /\ requests' = requests - 1
    /\ active_sockets' = active_sockets - 1
    /\ operation_count' = operation_count - 1
    /\ NotifySize
    /\ Goto(t, "idle")
    /\ UNCHANGED <<state, conns, gens, pending, connWait, active_contexts, conn,
                   maint, deaths>>

-----------------------------------------------------------------------------
(* ready, reset and close, called by server discovery.                     *)

\* Topology only readies the pool of a server it still monitors, and it closes
\* a pool once and for all when it drops the server.
Ready ==
    /\ state = "PAUSED"
    /\ state' = "READY"
    /\ UNCHANGED <<conns, gens, slots, pins, sizeWait, connWait,
                   active_contexts, pc, conn, maint, deaths>>

\* _PoolGeneration.inc
IncGen(svc) ==
    gens' = [s \in AllServices |->
                IF svc = NoService \/ s \in {svc, NoService} THEN gens[s] + 1
                                                             ELSE gens[s]]

\* _reset drops every idle connection, or those of one service, in order.
DropConns(svc) ==
    IF svc = NoService THEN conns' = <<>>
    ELSE \E n \in 0..Len(conns) : \E keep \in [1..n -> 1..Len(conns)] :
            /\ \A i, j \in 1..n : i < j => keep[i] < keep[j]
            /\ {keep[i] : i \in 1..n} =
                   {i \in 1..Len(conns) : conns[i].svc # svc}
            /\ conns' = [i \in 1..n |-> conns[keep[i]]]

\* _reset.  notify_all empties both wait queues.
ResetPool(newState, svc, interrupt) ==
    /\ state # "CLOSED"
    /\ gens[NoService] < MaxGen
    /\ state' = newState
    /\ IncGen(svc)
    /\ DropConns(svc)
    /\ sizeWait' = {} /\ connWait' = {}
    /\ conn' = [a \in Actors |->
                  IF interrupt /\ a \in active_contexts /\ conn[a] # NoConn
                  THEN [conn[a] EXCEPT !.ctx = "cancelled"] ELSE conn[a]]
    /\ UNCHANGED <<slots, pins, active_contexts, pc, maint, deaths>>

Reset == ~LoadBalanced /\ ResetPool("PAUSED", NoService, FALSE)
ResetInterrupt == ~LoadBalanced /\ ResetPool("PAUSED", NoService, TRUE)
\* Behind a load balancer a pool is never paused.
ResetService(svc) == ResetPool(state, svc, FALSE)
Close == ResetPool("CLOSED", NoService, FALSE)

-----------------------------------------------------------------------------
(* remove_stale_sockets.                                                   *)

StartMaint ==
    /\ pc[Maint] = "idle"
    /\ reference' = gens[NoService] /\ mloop' = "again"
    /\ Goto(Maint, "m_state")
    /\ UNCHANGED <<state, conns, gens, slots, pins, sizeWait, connWait,
                   active_contexts, conn, deaths>>

MaintState ==
    /\ pc[Maint] = "m_state"
    /\ Goto(Maint, IF state = "READY" THEN "m_idle" ELSE "idle")
    /\ UNCHANGED <<state, conns, gens, slots, pins, sizeWait, connWait,
                   active_contexts, conn, maint, deaths>>

\* Connections idle for longer than maxIdleTimeMS are at the right end.
MaintIdle ==
    /\ pc[Maint] = "m_idle"
    /\ \E n \in 0..Len(conns) :
         /\ deaths + (Len(conns) - n) <= MaxDeaths
         /\ conns' = SubSeq(conns, 1, n)
         /\ deaths' = deaths + (Len(conns) - n)
    /\ Goto(Maint, "m_size")
    /\ UNCHANGED <<state, gens, slots, pins, sizeWait, connWait,
                   active_contexts, conn, maint>>

MaintSize ==
    /\ pc[Maint] = "m_size"
    /\ IF EnoughConns
       THEN Goto(Maint, "idle") /\ UNCHANGED requests
       ELSE Goto(Maint, "m_pend") /\ requests' = requests + 1
    /\ UNCHANGED <<state, conns, gens, active_sockets, pending,
                   operation_count, pins, sizeWait, connWait, active_contexts,
                   conn, maint, deaths>>

MaintPend ==
    /\ pc[Maint] = "m_pend"
    /\ IF pending >= MaxConnecting
       THEN /\ Goto(Maint, "m_release") /\ mloop' = "leave"
            /\ UNCHANGED <<pending, conn, active_contexts>>
       ELSE /\ Goto(Maint, "socket") /\ pending' = pending + 1
            /\ Hold(Maint, TmpContext)
            /\ active_contexts' = active_contexts \cup {Maint}
            /\ UNCHANGED mloop
    /\ UNCHANGED <<state, conns, gens, requests, active_sockets,
                   operation_count, pins, sizeWait, connWait, reference,
                   deaths>>

\* "Close connection and return if the pool was reset during socket creation".
MaintAdd ==
    /\ pc[Maint] = "m_add"
    /\ IF gens[NoService] # reference
       THEN mloop' = "leave" /\ UNCHANGED <<conns, active_contexts>>
       ELSE /\ conns' = <<conn[Maint]>> \o conns
            /\ active_contexts' = active_contexts \ {Maint}
            /\ UNCHANGED mloop
    /\ Hold(Maint, NoConn)
    /\ Goto(Maint, "m_unpend")
    /\ UNCHANGED <<state, gens, slots, pins, sizeWait, connWait, reference,
                   deaths>>

MaintUnpend ==
    /\ pc[Maint] = "m_unpend"
    /\ pending' = pending - 1
    /\ NotifyConn
    /\ Goto(Maint, "m_release")
    /\ UNCHANGED <<state, conns, gens, requests, active_sockets,
                   operation_count, pins, sizeWait, active_contexts, conn,
                   maint, deaths>>

MaintRelease ==
    /\ pc[Maint] = "m_release"
    /\ requests' = requests - 1
    /\ NotifySize
    /\ Goto(Maint, IF mloop = "leave" THEN "idle" ELSE "m_size")
    /\ UNCHANGED <<state, conns, gens, active_sockets, pending,
                   operation_count, pins, connWait, active_contexts, conn,
                   maint, deaths>>

-----------------------------------------------------------------------------

ConnectStep(a) ==
    SocketFailed(a) \/ SocketOpened(a) \/ HelloFailed(a) \/ HelloDone(a)

CheckoutStep(t) ==
    \/ EnterSize(t) \/ WakeSize(t) \/ GiveUpSize(t)
    \/ TakeActive(t)
    \/ Acquire(t) \/ WakeConn(t) \/ GiveUpConn(t)
    \/ Perished(t) \/ NotPerished(t)
    \/ ConnectStep(t) \/ Unpend(t) \/ FailCheckout(t) \/ RegisterContext(t)

Interrupted(t) ==
    InterruptedSlot(t) \/ InterruptedAcquire(t) \/ InterruptedWait(t)

UseStep(t) ==
    \/ FinishUse(t) \/ RaiseInUse(t) \/ Unpin(t)
    \/ StartCheckin(t) \/ AppendConn(t) \/ ReleaseSlot(t)

MaintStep ==
    \/ MaintState \/ MaintIdle \/ MaintSize \/ MaintPend
    \/ ConnectStep(Maint) \/ MaintAdd \/ MaintUnpend \/ MaintRelease

SdamStep ==
    \/ Ready \/ Reset \/ ResetInterrupt \/ Close
    \/ \E svc \in Services : ResetService(svc)

ThreadStep(t) ==
    \/ StartCheckout(t) \/ CheckoutStep(t) \/ UseStep(t)
    \/ SizeTimeout(t) \/ ConnTimeout(t) \/ Interrupted(t)
    \/ BreakConn(t) \/ \E kind \in Pins : PinConn(t, kind)

Next ==
    \/ \E t \in Threads : ThreadStep(t)
    \/ StartMaint \/ MaintStep
    \/ SdamStep

Spec == Init /\ [][Next]_vars

-----------------------------------------------------------------------------
(* Properties.                                                             *)

At(labels) == {a \in Actors : pc[a] \in labels}

\* Every variable has its type; sequences hold connections with a generation.
TypeOK ==
    /\ state \in {"PAUSED", "READY", "CLOSED"}
    /\ conns \in Seq(Connection)
    /\ gens \in [AllServices -> Nat]
    /\ requests \in Int /\ active_sockets \in Int /\ pending \in Int
    /\ operation_count \in Int /\ ntxns \in Int /\ ncursors \in Int
    /\ sizeWait \subseteq At({"size_wait", "size_timeout"})
    /\ connWait \subseteq At({"conn_wait", "conn_timeout"})
    /\ active_contexts \subseteq Actors
    /\ pc \in [Actors -> ThreadPcs \cup MaintPcs]
    /\ \A t \in Threads : pc[t] \in ThreadPcs
    /\ pc[Maint] \in MaintPcs
    /\ conn \in [Actors -> Connection \cup {NoConn}]
    /\ pin \in [Threads -> {"none", "txn", "cursor"}]
    /\ reference \in Nat /\ mloop \in {"again", "leave"}
    /\ deaths \in Nat

\* Where an actor owns a unit of requests, of active_sockets and of _pending.
NoSlotPcs == {"idle", "enter", "size_wait", "size_timeout",
              "m_state", "m_idle", "m_size"}
SlotPcs == (ThreadPcs \cup MaintPcs) \ NoSlotPcs
ActivePcs == ThreadPcs \ (NoSlotPcs \cup {"slot"})
PendingPcs == {"socket", "hello", "unpend", "m_add", "m_unpend"}

\* The semaphores of _get_conn, checkin and remove_stale_sockets are released
\* exactly once on every path: errors, timeouts, and interruptions of the try
\* block, of connect and of the two waits.
CountersExact ==
    /\ requests = Cardinality(At(SlotPcs))
    /\ active_sockets = Cardinality({t \in Threads : pc[t] \in ActivePcs})
    /\ pending = Cardinality(At(PendingPcs))

\* Connections that are open, or being opened, outside the idle list.
OutsideConns == {a \in Actors : conn[a] # NoConn}

\* maxPoolSize: idle connections, those in use and those being created by
\* checkouts and by the background thread never exceed it together.
PoolSizeBound == Len(conns) + Cardinality(OutsideConns) <= MaxPoolSize

\* maxConnecting: checkouts and the background thread together never create
\* more connections at once.
ConnectingBound == Cardinality(At({"socket", "hello"})) <= MaxConnecting

\* What waits in the idle list can be used: it belongs to the current
\* generation and no clear has cancelled it; a closed pool keeps nothing,
\* although checkin reads `closed` without the lock.
PooledUsable ==
    /\ \A i \in DOMAIN conns : ~Stale(conns[i]) /\ conns[i].ctx = "live"
    /\ state = "CLOSED" => conns = <<>>

Notified(label, timeout, waiters) == At({label, timeout}) \ waiters

\* While a thread sleeps on size_cond, every free slot of maxPoolSize has a
\* notified thread on its way to it: no notify is lost, not even on a waiter
\* that times out.  (An interrupted wait may lose one: see InterruptedWait.)
SizeWakeup ==
    At({"size_wait"}) \cap sizeWait # {} =>
        MaxPoolSize - requests <=
            Cardinality(Notified("size_wait", "size_timeout", sizeWait))

\* The same for _max_connecting_cond: "we MUST wait for either maxConnecting
\* OR for a socket to be checked back into the pool", so an idle connection or
\* a free place to connect has a notified thread, or a notify about to come.
ConnWakeup ==
    At({"conn_wait"}) \cap connWait # {} =>
        Len(conns) + MaxConnecting - pending <=
            Cardinality(Notified("conn_wait", "conn_timeout", connWait)
                        \cup At({"m_unpend"}))

-----------------------------------------------------------------------------
(* Liveness.  Threads are scheduled, connection attempts and operations    *)
(* end.  The wait queue deadline is absolute: once it has passed, every    *)
(* further wait returns at once, so a thread that sleeps again and again   *)
(* does time out.                                                          *)

Fairness ==
    /\ \A t \in Threads : /\ WF_vars(CheckoutStep(t)) /\ WF_vars(UseStep(t))
                          /\ SF_vars(SizeTimeout(t)) /\ SF_vars(ConnTimeout(t))
    /\ WF_vars(MaintStep)

FairSpec == Spec /\ Fairness

\* Every checkout ends: the thread gets a connection or an error.
CheckoutEnds ==
    \A t \in Threads : pc[t] = "enter" ~> pc[t] \in {"use", "idle"}
=============================================================================
