------------------------------ MODULE Topology ------------------------------
(***************************************************************************)
(* pymongo/synchronous/topology.py, with the parts of server.py, monitor.py *)
(* and mongo_client.py that call it: monitors that check servers, threads  *)
(* that select a server, connect and fail, SRV polling and close.          *)
(*                                                                         *)
(* Every `with self._lock` section is one step.  What the code does outside *)
(* the lock is a step of its own: the reset of a pool after a failed       *)
(* heartbeat, the construction of the error handler and of a connection,   *)
(* and the last assignment of close.                                       *)
(*                                                                         *)
(* A host that leaves the description and comes back gets a new Server,    *)
(* with a new pool and a new monitor; <<a, n>> is the n-th Server of the   *)
(* host a.  The monitor of an old one may still be inside a check.         *)
(*                                                                         *)
(* A cancelled check (cancel_check) ends without calling the topology, so  *)
(* it is no step here.  Load balanced mode is left out: its one server     *)
(* never changes.                                                          *)
(***************************************************************************)
EXTENDS TopologyDescription

CONSTANTS
    Seeds, Direct, ReplicaSetName,
    Threads,
    Replies,          \* Replies[a]: what a hello to a may bring
    ErrorVersions,    \* topologyVersions that errors may carry
    Seedlists,        \* what an SRV poll may bring, {} without an SRV host
    PublishTopology,  \* topology listeners are registered
    MaxServers,       \* bound: Server objects per host
    MaxFailures,      \* bound: failed checks and operations
    MaxOps            \* bound: operations

VARIABLES
    td,        \* _description
    state,     \* _opened and _closed: "new", "open", "closed", "forgotten"
    servers,   \* _servers: host -> Server
    born,      \* how many Servers a host has had
    srv,       \* per Server: its description, its pool's state and generation
    alive,     \* Servers whose monitor runs
    mon,       \* per Server: where its monitor is, and the reply it holds
    op,        \* per thread: its operation
    failures, ops

vars == <<td, state, servers, born, srv, alive, mon, op, failures, ops>>

Hellos == UNION {Replies[a] : a \in Address}

ASSUME TopologyAssumption ==
    /\ PublishTopology \in BOOLEAN
    /\ Seeds \subseteq Address /\ ReplicaSetName \in SetName \cup {NoName}
    /\ \A a \in Address : \A sd \in Replies[a] : HelloReply(sd)
    /\ Seedlists \subseteq (SUBSET Address) \ {{}}
    /\ NoTopologyVersion \in ErrorVersions /\ ErrorVersions \subseteq [process : Nat, counter : Nat]
    /\ MaxServers \in Nat \ {0} /\ MaxFailures \in Nat /\ MaxOps \in Nat

\* What server discovery promises: see the property RefinesSdam.
S == INSTANCE Sdam WITH phase <- IF state \in {"closed", "forgotten"} THEN "closed" ELSE "open"

Server == Address \X (1..MaxServers)
Current == {servers[a] : a \in DOMAIN servers}
Born(i) == i[2] <= born[i[1]]

Selectable(sd) == Readable(sd) \/ (Known(sd) /\ td.type = "Single")

-----------------------------------------------------------------------------
(* The pool, as far as the topology sees it: see Pool.tla.                 *)

Ready(p) == [p EXCEPT !.pool = "ready"]
ResetPool(p) == IF p.pool = "closed" THEN p
                ELSE [p EXCEPT !.pool = "paused", !.gen = @ + 1]
ClosePool(p) == IF p.pool = "closed" THEN p
                ELSE [p EXCEPT !.pool = "closed", !.gen = @ + 1]

NewPool(sd) == [sd |-> sd, pool |-> "paused", gen |-> 0]

\* The Servers that new has no host for, and those it adds or keeps.
Gone_None(new) == {}
Gone(new) == {servers[a] : a \in DOMAIN servers \ Addresses(new)}
Added(new) == Addresses(new) \ DOMAIN servers
Described_Not(p, sd) == p
Described(p, sd) == [p EXCEPT !.sd = sd]

\* _update_servers: afterwards _servers mirrors the description new.  p holds
\* the Servers as the caller left them.
UpdateServers(new, p) ==
    /\ \A a \in Added(new) : born[a] < MaxServers
    /\ born' = [a \in Address |-> IF a \in Added(new) THEN born[a] + 1 ELSE born[a]]
    /\ servers' = [a \in Addresses(new) |->
                     IF a \in Added(new) THEN <<a, born'[a]>> ELSE servers[a]]
    /\ alive' = (alive \ Gone(new)) \cup {servers'[a] : a \in Added(new)}
    /\ srv' = [i \in Server |->
                 IF i \in Gone(new) THEN ClosePool(p[i])
                 ELSE IF i[1] \in Addresses(new) /\ i = servers'[i[1]]
                 THEN IF i[1] \in Added(new) THEN NewPool(new.sds[i[1]])
                      ELSE Described(p[i], new.sds[i[1]])
                 ELSE p[i]]

\* Pools made ready before the new description shows their server.
ReadyFor_Later(a, sd, new) == srv
ReadyFor_Writable(a, sd, new) ==
    IF a \in DOMAIN servers /\ Writable(sd) THEN [srv EXCEPT ![servers[a]] = Ready(@)] ELSE srv
ReadyFor(a, sd, new) ==
    IF a \in DOMAIN servers /\ (Readable(sd) \/ (Known(sd) /\ new.type = "Single"))
    THEN [srv EXCEPT ![servers[a]] = Ready(@)] ELSE srv

\* _process_change(sd) for a host a of the description.  After it the caller
\* may clear the pool of Server i as well (clear = {i}).
ProcessChange(a, sd, clear) ==
    LET new == updated_topology_description(td, a, sd)
        cleared(p) == [i \in Server |-> IF i \in clear THEN ResetPool(p[i]) ELSE p[i]]
    IN  IF _is_stale_server_description(td.sds[a], sd)
        THEN /\ srv' = cleared(srv)
             /\ UNCHANGED <<td, servers, born, alive>>
        ELSE /\ td' = new
             /\ UpdateServers(new, cleared(ReadyFor(a, sd, new)))

-----------------------------------------------------------------------------

Init ==
    /\ td = S!InitialDescription /\ state = "new"
    /\ servers = [a \in {} |-> <<a, 1>>] /\ born = [a \in Address |-> 0]
    /\ srv = [i \in Server |-> NewPool(NewServer)] /\ alive = {}
    /\ mon = [i \in Server |-> [pc |-> "idle", sd |-> NewServer]]
    /\ op = [t \in Threads |-> [pc |-> "idle"]]
    /\ failures = 0 /\ ops = 0

\* _ensure_opened.
Open ==
    /\ state = "new" /\ state' = "open"
    /\ UpdateServers(td, srv)
    /\ UNCHANGED <<td, mon, op, failures, ops>>

\* _run: the check of a server returns, _check_server turned an error into a
\* description of type Unknown.
MonitorReply(i, sd) ==
    /\ i \in alive /\ mon[i].pc = "idle"
    /\ Known(sd) \/ failures < MaxFailures
    /\ \A a \in sd.hosts \ DOMAIN servers : born[a] < MaxServers
    /\ failures' = IF Known(sd) THEN failures ELSE failures + 1
    /\ mon' = [mon EXCEPT ![i] = [pc |-> "reply", sd |-> sd]]
    /\ UNCHANGED <<td, state, servers, born, srv, alive, op, ops>>

\* on_change under the lock: a reply that comes after close, or after the host
\* left the description, is dropped.
Monitored(a) == state = "open" /\ a \in Addresses(td)
OnChange(i) ==
    LET sd == mon[i].sd
    IN  /\ mon[i].pc = "reply"
        /\ mon' = [mon EXCEPT ![i] = IF Known(sd) THEN [pc |-> "idle", sd |-> NewServer]
                                     ELSE [pc |-> "reset", sd |-> NewServer]]
        /\ IF Monitored(i[1])
           THEN ProcessChange(i[1], sd, {})
           ELSE UNCHANGED <<td, servers, born, srv, alive>>
        /\ UNCHANGED <<state, op, failures, ops>>

\* on_change after the lock: the pool of whatever Server the host has now.
ResetAfterFailure(i) ==
    /\ mon[i].pc = "reset"
    /\ mon' = [mon EXCEPT ![i] = [pc |-> "idle", sd |-> NewServer]]
    /\ srv' = IF i[1] \in DOMAIN servers
              THEN [srv EXCEPT ![servers[i[1]]] = ResetPool(@)] ELSE srv
    /\ UNCHANGED <<td, state, servers, born, alive, op, failures, ops>>

\* on_srv_update.
OnSrvUpdate_AnyType(seedlist) ==
    /\ state = "open"
    /\ \E new \in SrvUpdated(td, seedlist) : td' = new /\ UpdateServers(new, srv)
    /\ UNCHANGED <<state, mon, op, failures, ops>>
OnSrvUpdate(seedlist) ==
    /\ state = "open" /\ td.type \in SRV_POLLING_TOPOLOGIES
    /\ \E new \in SrvUpdated(td, seedlist) : td' = new /\ UpdateServers(new, srv)
    /\ UNCHANGED <<state, mon, op, failures, ops>>

-----------------------------------------------------------------------------
(* An operation: select a server, make an error handler, check out a       *)
(* connection, use it; an error at any point goes to handle_error.         *)

Goto(t, new) == op' = [op EXCEPT ![t] = new]
Topo == <<td, state, servers, born, srv, alive, mon>>

\* select_server returned the Server of a.
Select(t, a) ==
    /\ op[t].pc = "idle" /\ ops < MaxOps /\ state = "open"
    /\ a \in DOMAIN servers /\ Selectable(td.sds[a])
    /\ ops' = ops + 1
    /\ Goto(t, [pc |-> "selected", server |-> servers[a]])
    /\ UNCHANGED <<Topo, failures>>

\* _MongoClientErrorHandler.__init__.
MakeHandler(t) ==
    /\ op[t].pc = "selected"
    /\ Goto(t, [pc |-> "handler", server |-> op[t].server, gen |-> srv[op[t].server].gen])
    /\ UNCHANGED <<Topo, failures, ops>>

Failed(t, kind, tv) ==
    Goto(t, [pc |-> "failed", server |-> op[t].server, gen |-> op[t].gen, kind |-> kind, tv |-> tv])

\* A closed pool's error is not a connection failure, a paused pool's is.  A
\* pool that closes between _get_conn's first look at it and the next one, so
\* after the handler was made, reports itself as paused.
Checkout(t) ==
    LET pool == srv[op[t].server].pool
    IN  /\ op[t].pc = "handler"
        /\ \/ pool = "ready" /\ Goto(t, [op[t] EXCEPT !.pc = "connecting"])
           \/ pool = "paused" /\ Failed(t, "network", NoTopologyVersion)
           \/ pool = "closed" /\ Goto(t, [pc |-> "idle"])
           \/ /\ pool = "closed" /\ op[t].gen # srv[op[t].server].gen
              /\ Failed(t, "network", NoTopologyVersion)
        /\ UNCHANGED <<Topo, failures, ops>>

\* Connection.__init__ reads the generation; contribute_socket hands it on.
Connect(t) ==
    /\ op[t].pc = "connecting"
    /\ Goto(t, [op[t] EXCEPT !.pc = "connected", !.gen = srv[op[t].server].gen])
    /\ UNCHANGED <<Topo, failures, ops>>

\* _handle_connection_error labels most failures to connect as an overload,
\* which handle_error ignores; DNS and certificate errors keep no label.
ConnectFails(t, kind) ==
    /\ op[t].pc = "connecting" /\ failures < MaxFailures
    /\ failures' = failures + 1
    /\ Failed(t, kind, NoTopologyVersion)
    /\ UNCHANGED <<Topo, ops>>

\* "ignored": a timeout after the handshake, a WriteError, an overload.
OpFails(t, kind, tv) ==
    /\ op[t].pc = "connected" /\ failures < MaxFailures
    /\ kind \in {"network", "ignored"} => tv = NoTopologyVersion
    /\ failures' = failures + 1
    /\ Failed(t, kind, tv)
    /\ UNCHANGED <<Topo, ops>>

OpSucceeds(t) ==
    /\ op[t].pc = "connected"
    /\ Goto(t, [pc |-> "idle"])
    /\ UNCHANGED <<Topo, failures, ops>>

\* _is_stale_error: the Server is gone, the error is of an earlier generation
\* of the pool, or the server has been heard of since.
_is_stale_error(t) ==
    LET a == op[t].server[1]
    IN  \/ a \notin DOMAIN servers
        \/ srv[servers[a]].gen # op[t].gen
        \/ _is_stale_error_topology_version(srv[servers[a]].sd.tv, op[t].tv)

\* handle_error: nothing here asks whether the topology is still open.
HandleError(t) ==
    LET a == op[t].server[1]
        i == servers[a]
        sd == UnknownServer(op[t].tv)
    IN  /\ op[t].pc = "failed"
        /\ IF _is_stale_error(t) \/ op[t].kind = "ignored"
           THEN UNCHANGED <<td, servers, born, srv, alive>> /\ Goto(t, [pc |-> "idle"])
           ELSE IF a \notin Addresses(td)
           THEN UNCHANGED <<td, servers, born, srv, alive>> /\ Goto(t, [pc |-> "KeyError"])
           ELSE /\ ProcessChange(a, sd, IF op[t].kind = "notPrimary" THEN {} ELSE {i})
                /\ Goto(t, [pc |-> "idle"])
        /\ UNCHANGED <<state, mon, failures, ops>>

-----------------------------------------------------------------------------
\* close, under the lock.
Close ==
    /\ state \in {"new", "open"} /\ state' = "closed"
    /\ td' = Reset(td)
    /\ srv' = [i \in Server |-> IF i \in Current THEN [ClosePool(srv[i]) EXCEPT !.sd = NewServer]
                                ELSE srv[i]]
    /\ alive' = {}
    /\ UNCHANGED <<servers, born, mon, op, failures, ops>>

\* close, after the lock, when topology events are published.
Forget ==
    /\ state = "closed" /\ PublishTopology /\ state' = "forgotten"
    /\ td' = [td EXCEPT !.type = "Unknown", !.sds = [a \in {} |-> NewServer]]
    /\ UNCHANGED <<servers, born, srv, alive, mon, op, failures, ops>>

Errors == {"network", "notPrimary", "shutdown", "ignored"}

MonitorStep(i) ==
    \/ \E sd \in Replies[i[1]] \cup {UnknownServer(tv) : tv \in ErrorVersions} : MonitorReply(i, sd)
    \/ OnChange(i)
    \/ ResetAfterFailure(i)

OpStep(t) ==
    \/ MakeHandler(t) \/ Checkout(t) \/ Connect(t) \/ OpSucceeds(t)
    \/ \E kind \in {"network", "ignored"} : ConnectFails(t, kind)
    \/ \E kind \in Errors, tv \in ErrorVersions : OpFails(t, kind, tv)
    \/ HandleError(t)

Next ==
    \/ Open \/ Close \/ Forget
    \/ \E i \in Server : MonitorStep(i)
    \/ \E seedlist \in Seedlists : OnSrvUpdate(seedlist)
    \/ \E t \in Threads, a \in Address : Select(t, a)
    \/ \E t \in Threads : OpStep(t)

Spec == Init /\ [][Next]_vars

-----------------------------------------------------------------------------
\* Every variable has its type; in particular an operation that may fail has
\* the generation that its error will be judged by.
TypeOK ==
    /\ WellFormed(td) /\ state \in {"new", "open", "closed", "forgotten"}
    /\ DOMAIN servers \subseteq Address /\ \A a \in DOMAIN servers : servers[a] \in Server
    /\ born \in [Address -> 0..MaxServers] /\ alive \subseteq Server
    /\ srv \in [Server -> [sd : ServerDescriptions, pool : {"paused", "ready", "closed"}, gen : Nat]]
    /\ mon \in [Server -> [pc : {"idle", "reply", "reset"}, sd : ServerDescriptions]]
    /\ \A t \in Threads :
         op[t] \in [pc : {"idle", "KeyError"}]
           \cup [pc : {"selected"}, server : Server]
           \cup [pc : {"handler", "connecting", "connected"}, server : Server, gen : Nat]
           \cup [pc : {"failed"}, server : Server, gen : Nat, kind : Errors, tv : ErrorVersions]
    /\ failures \in 0..MaxFailures /\ ops \in 0..MaxOps

\* With its threads and its unlocked windows the topology does to the
\* description only what Sdam allows: replies that come after the host left,
\* or after close, change nothing.
RefinesSdam == S!Spec

\* _update_servers leaves _servers in step with the description: select_server
\* and update_pool index one with the addresses of the other, and the cached
\* description that _is_stale_error reads is the current one.
Synced ==
    state = "open" => /\ DOMAIN servers = Addresses(td)
                      /\ \A a \in DOMAIN servers : srv[servers[a]].sd = td.sds[a]

\* A Server that left the topology, or any Server after close, stays shut: no
\* late reply, reset or error makes its pool usable again or its monitor run.
NoOrphans ==
    \A i \in Server : Born(i) /\ (i \notin Current \/ state \in {"closed", "forgotten"})
                        => srv[i].pool = "closed" /\ i \notin alive

\* "Ensure the pool is ready when the server is selectable": for a host that
\* never left the topology.
FirstPoolReady ==
    \A a \in DOMAIN servers :
       state = "open" /\ servers[a] = <<a, 1>> /\ Selectable(td.sds[a]) => srv[servers[a]].pool = "ready"

-----------------------------------------------------------------------------
(* Liveness.  Monitors are threads that run until they are stopped, a check *)
(* ends (connect and socket timeouts), and failures are finite.            *)

FairSpec == Spec /\ \A i \in Server : WF_vars(MonitorStep(i))

\* No pool stays paused: as long as the host belongs to the open topology a
\* later check makes it usable again, whatever cleared it.
Recovers ==
    \A a \in Address :
       state = "open" /\ a \in DOMAIN servers
          ~> state # "open" \/ a \notin DOMAIN servers \/ srv[servers[a]].pool = "ready"
=============================================================================
