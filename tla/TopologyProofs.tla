--------------------------- MODULE TopologyProofs ---------------------------
(***************************************************************************)
(* Proofs about the topology with its threads, for any hosts, any replies, *)
(* any number of threads and of Server objects: the table of servers       *)
(* follows the description, a Server that left stays shut, and the         *)
(* description changes only as Sdam allows.                                *)
(***************************************************************************)
EXTENDS Topology, TopologyDescriptionProofs

-----------------------------------------------------------------------------
(* The inductive invariant.                                                *)

Pools == [sd : ServerDescriptions, pool : {"paused", "ready", "closed"}, gen : Nat]

\* Of the Servers that a host had, _servers holds the last.
Table ==
    /\ born \in [Address -> 0..MaxServers]
    /\ DOMAIN servers \subseteq Address
    /\ \A a \in DOMAIN servers : servers[a] = <<a, born[a]>> /\ born[a] # 0
    /\ alive \subseteq Server

\* What a monitor brings: a reply of its host, or a failure.
Brought(a) == Replies[a] \cup {UnknownServer(tv) : tv \in ErrorVersions}

Monitors ==
    /\ mon \in [Server -> [pc : {"idle", "reply", "reset"}, sd : ServerDescriptions]]
    /\ \A i \in Server : mon[i].pc = "reply" => mon[i].sd \in Brought(i[1])

Operations ==
    [pc : {"idle", "KeyError"}]
      \cup [pc : {"selected"}, server : Server]
      \cup [pc : {"handler", "connecting", "connected"}, server : Server, gen : Nat]
      \cup [pc : {"failed"}, server : Server, gen : Nat, kind : Errors, tv : ErrorVersions]

\* The hosts of the table: those of the description, except before the first
\* operation and after close emptied the description.
Stage ==
    /\ state \in {"new", "open", "closed", "forgotten"}
    /\ state = "new" => DOMAIN servers = {} /\ \A a \in Address : born[a] = 0
    /\ state = "closed" => DOMAIN servers \in {{}, Addresses(td)}
    /\ state = "forgotten" => Addresses(td) = {}

Core == DescInv(td) /\ Table /\ srv \in [Server -> Pools] /\ Stage /\ Synced /\ NoOrphans
IInv == Core /\ Monitors /\ op \in [Threads -> Operations]

-----------------------------------------------------------------------------
(* The operators on descriptions, seen through the instance S, are those   *)
(* of this module.                                                         *)

LEMMA SameUpdate ==
    ASSUME NEW d, NEW a, NEW sd
    PROVE  S!updated_topology_description(d, a, sd) = updated_topology_description(d, a, sd)
  BY Zenon DEF S!None, None, S!NoTopologyVersion, NoTopologyVersion, S!UnknownServer,
         UnknownServer, S!NewServer, NewServer, S!ToUnknown, ToUnknown, S!Members,
         Members, S!ReplicaSet, ReplicaSet, S!Primaries, Primaries, S!Pop, Pop, S!Keep,
         Keep, S!AddNew, AddNew, S!_check_has_primary, _check_has_primary, S!WithServers,
         WithServers, S!Before, Before, S!StalePrimary, StalePrimary, S!MaxElectionId,
         MaxElectionId, S!MaxSetVersion, MaxSetVersion, S!ResetOldPrimary,
         ResetOldPrimary, S!Named, Named, S!_update_rs_from_primary,
         _update_rs_from_primary, S!Misaddressed, Misaddressed,
         S!_update_rs_with_primary_from_member, _update_rs_with_primary_from_member,
         S!_update_rs_no_primary_from_member, _update_rs_no_primary_from_member,
         S!Discovered, Discovered, S!Misplaced, Misplaced, S!SingleServer, SingleServer,
         S!updated_topology_description, updated_topology_description

LEMMA SameReset ==
    ASSUME NEW d
    PROVE  S!Reset(d) = Reset(d)
  BY DEF S!Reset, Reset, S!Addresses, Addresses, S!NewServer, NewServer, S!UnknownServer,
         UnknownServer, S!NoTopologyVersion, NoTopologyVersion, S!None, None

LEMMA SameSrv ==
    ASSUME NEW d, NEW seedlist
    PROVE  S!SrvUpdated(d, seedlist) = SrvUpdated(d, seedlist)
  <1>1. S!Keep(d.sds, seedlist) = Keep(d.sds, seedlist)
    BY DEF S!Keep, Keep
  <1>2. \A sds : S!SrvAdditions(sds, seedlist) = SrvAdditions(sds, seedlist)
    BY DEF S!SrvAdditions, SrvAdditions, S!Min2, Min2, S!Cardinality, Cardinality
  <1>3. \A sds, new : S!AddNew(sds, new) = AddNew(sds, new)
    BY DEF S!AddNew, AddNew, S!NewServer, NewServer, S!UnknownServer, UnknownServer,
           S!NoTopologyVersion, NoTopologyVersion, S!None, None
  <1> QED
    BY <1>1, <1>2, <1>3 DEF S!SrvUpdated, SrvUpdated, S!Addresses, Addresses

LEMMA SameStale ==
    ASSUME NEW cur, NEW sd
    PROVE  S!_is_stale_server_description(cur, sd) = _is_stale_server_description(cur, sd)
  BY SMTT(30) DEF S!_is_stale_server_description, _is_stale_server_description,
         S!NoTopologyVersion, NoTopologyVersion, S!None, None

LEMMA SameUnknown ==
    /\ \A tv : S!UnknownServer(tv) = UnknownServer(tv)
    /\ S!NewServer = NewServer /\ S!None = None
  BY DEF S!UnknownServer, UnknownServer, S!NewServer, NewServer, S!NoTopologyVersion,
         NoTopologyVersion, S!None, None

-----------------------------------------------------------------------------
(* The refinement: every step of the topology is one of Sdam's, or leaves  *)
(* the description alone.                                                  *)

LEMMA ErrorType ==
    ASSUME NEW tv \in ErrorVersions
    PROVE  Reply(UnknownServer(tv)) /\ UnknownServer(tv).type = "Unknown"
  BY UnknownServerType, TopologyAssumption DEF Reply, Members

LEMMA ChangeRefines ==
    ASSUME NEW a \in Address, a \in Addresses(td), NEW sd \in Brought(a), UNCHANGED state,
           NEW clear, ProcessChange(a, sd, clear), state = "open" \/ sd \notin Replies[a]
    PROVE  [S!Next]_(S!vars)
  <1>1. CASE _is_stale_server_description(td.sds[a], sd)
    BY <1>1 DEF ProcessChange, S!vars
  <1>2. CASE ~_is_stale_server_description(td.sds[a], sd)
    <2>1. S!ProcessChange(a, sd)
      BY <1>2, SameUpdate, SameStale, ZenonT(30) DEF ProcessChange, S!ProcessChange, Addresses, S!Addresses
    <2>2. CASE sd \in Replies[a]
      <3>1. sd \in Hellos /\ S!CheckSucceeded(a, sd)
        BY <2>1, <2>2, SMTT(30) DEF Hellos, S!CheckSucceeded
      <3> QED  BY <3>1, SMTT(30) DEF S!Next
    <2>3. CASE sd \notin Replies[a]
      <3>1. PICK tv \in ErrorVersions : sd = UnknownServer(tv)
        BY <2>3, SMTT(30) DEF Brought
      <3>2. S!CheckFailed(a, tv)
        BY <2>1, <3>1, SameUnknown DEF S!CheckFailed
      <3> QED  BY <3>1, <3>2 DEF S!Next
    <2> QED  BY <2>2, <2>3, SMTT(30)
  <1> QED  BY <1>1, <1>2, SMTT(30)

LEMMA StepRefines == IInv /\ [Next]_vars => [S!Next]_(S!vars)
  <1> SUFFICES ASSUME IInv, [Next]_vars PROVE [S!Next]_(S!vars)
    OBVIOUS
  <1>0. Core /\ Monitors /\ op \in [Threads -> Operations]
    BY DEF IInv
  <1>1. CASE UNCHANGED <<td, state>>
    BY <1>1 DEF S!vars
  <1>2. CASE Open
    BY <1>2 DEF Open, S!vars
  <1>3. CASE Close
    BY <1>3, SameReset DEF Close, S!Next, S!Closed
  <1>4. CASE Forget
    BY <1>4, SameUnknown DEF Forget, S!Next, S!Forgotten
  <1>5. ASSUME NEW i \in Server, MonitorStep(i) PROVE [S!Next]_(S!vars)
    <2>1. CASE OnChange(i) /\ Monitored(i[1])
      <3>1. i[1] \in Address /\ mon[i].sd \in Brought(i[1])
        BY <1>0, <2>1, SMTT(30) DEF OnChange, Monitors, Server
      <3>2. /\ state = "open" /\ UNCHANGED state /\ i[1] \in Addresses(td)
            /\ ProcessChange(i[1], mon[i].sd, {})
        BY <2>1, ZenonT(30) DEF OnChange, Monitored
      <3> QED  BY <3>1, <3>2, ChangeRefines, SMTT(30)
    <2>2. CASE ~(OnChange(i) /\ Monitored(i[1]))
      BY <1>1, <1>5, <2>2, Zenon DEF MonitorStep, MonitorReply, OnChange, ResetAfterFailure
    <2> QED  BY <2>1, <2>2
  <1>6. ASSUME NEW seedlist \in Seedlists, OnSrvUpdate(seedlist) PROVE [S!Next]_(S!vars)
    <2>1. seedlist \in (SUBSET Address) \ {{}}
      BY TopologyAssumption
    <2>2. S!SrvPolled(seedlist)
      BY <1>6, SameSrv DEF OnSrvUpdate, S!SrvPolled, SRV_POLLING_TOPOLOGIES, S!SRV_POLLING_TOPOLOGIES
    <2> QED  BY <2>1, <2>2 DEF S!Next
  <1>7. ASSUME NEW t \in Threads, NEW a \in Address, Select(t, a) PROVE [S!Next]_(S!vars)
    BY <1>1, <1>7 DEF Select, Topo
  <1>8. ASSUME NEW t \in Threads, OpStep(t) PROVE [S!Next]_(S!vars)
    <2>1. CASE HandleError(t) /\ ~UNCHANGED td
      <3> DEFINE a == op[t].server[1]
                 sd == UnknownServer(op[t].tv)
      <3>1. op[t].pc = "failed" /\ a \in Addresses(td) /\ UNCHANGED state
        BY <2>1, SMTT(30) DEF HandleError
      <3>2. PICK clear : ProcessChange(a, sd, clear)
        BY <2>1, Zenon DEF HandleError
      <3>3. a \in Address /\ op[t].tv \in ErrorVersions
        BY <1>0, <3>1 DEF Operations, Server
      <3>4. sd \in Brought(a) /\ sd \notin Replies[a]
        BY <3>3, ErrorType, TopologyAssumption, SMTT(30) DEF Brought, HelloReply
      <3> HIDE DEF a, sd
      <3> QED  BY <3>1, <3>2, <3>3, <3>4, ChangeRefines, SMTT(30)
    <2>2. CASE ~(HandleError(t) /\ ~UNCHANGED td)
      BY <1>1, <1>8, <2>2, Zenon
         DEF OpStep, MakeHandler, Checkout, Connect, OpSucceeds, ConnectFails, OpFails,
             HandleError, Topo
    <2> QED  BY <2>1, <2>2
  <1>9. CASE UNCHANGED vars
    BY <1>1, <1>9 DEF vars
  <1> QED  BY <1>2, <1>3, <1>4, <1>5, <1>6, <1>7, <1>8, <1>9 DEF Next

-----------------------------------------------------------------------------
(* The pool operations.                                                    *)

LEMMA PoolSteps ==
    ASSUME NEW p \in Pools
    PROVE  /\ Ready(p) \in Pools /\ Ready(p).sd = p.sd
           /\ ResetPool(p) \in Pools /\ ResetPool(p).sd = p.sd
           /\ p.pool = "closed" => ResetPool(p).pool = "closed"
           /\ ClosePool(p) \in Pools /\ ClosePool(p).pool = "closed"
  <1> DEFINE q(x) == [p EXCEPT !.pool = x]
             r(x) == [q(x) EXCEPT !.gen = p.gen + 1]
  <1>1. Ready(p) \in Pools /\ Ready(p).sd = p.sd
    BY DEF Pools, Ready
  <1>2. p.gen + 1 \in Nat
    BY DEF Pools
  <1>3. \A x \in {"paused", "closed"} : q(x) \in Pools /\ q(x).sd = p.sd /\ q(x).pool = x
    BY DEF Pools
  <1>4. /\ ResetPool(p) = IF p.pool = "closed" THEN p ELSE r("paused")
        /\ ClosePool(p) = IF p.pool = "closed" THEN p ELSE r("closed")
    BY DEF ResetPool, ClosePool
  <1> HIDE DEF q
  <1>5. \A x \in {"paused", "closed"} : r(x) \in Pools /\ r(x).sd = p.sd /\ r(x).pool = x
    BY <1>2, <1>3 DEF Pools
  <1> QED  BY <1>1, <1>4, <1>5

LEMMA DescribedPool ==
    ASSUME NEW p \in Pools, NEW sd \in ServerDescriptions
    PROVE  /\ Described(p, sd) \in Pools /\ Described(p, sd).sd = sd
           /\ Described(p, sd).pool = p.pool
           /\ NewPool(sd) \in Pools /\ NewPool(sd).sd = sd
  BY DEF Pools, Described, NewPool

LEMMA ServerOf ==
    ASSUME Table, NEW a \in DOMAIN servers
    PROVE  servers[a] \in Server /\ servers[a][1] = a /\ servers[a][2] = born[a] /\ servers[a] \in Current
  BY TopologyAssumption DEF Table, Server, Current

-----------------------------------------------------------------------------
(* _update_servers.                                                        *)

LEMMA UpdateTable ==
    ASSUME Table, NEW new, WellFormed(new), NEW p, UpdateServers(new, p)
    PROVE  /\ Table' /\ DOMAIN servers' = Addresses(new)
           /\ \A i \in Server : Born(i)' => Born(i) \/ i \in Current'
           /\ \A i \in Server : i \in Current => i \in Current' \/ i \in Gone(new)
           /\ \A i \in Server : i \in alive' => (i \in alive /\ i \notin Gone(new)) \/ i \in Current'
  <1>1. Addresses(new) \subseteq Address /\ Added(new) \subseteq Address
    BY DEF WellFormed, Addresses, Added
  <1>2. /\ born' = [a \in Address |-> IF a \in Added(new) THEN born[a] + 1 ELSE born[a]]
        /\ \A a \in Added(new) : born[a] < MaxServers
        /\ servers' = [a \in Addresses(new) |->
                         IF a \in Added(new) THEN <<a, born'[a]>> ELSE servers[a]]
        /\ alive' = (alive \ Gone(new)) \cup {servers'[a] : a \in Added(new)}
    BY Zenon DEF UpdateServers
  <1>3. born' \in [Address -> 0..MaxServers]
    BY <1>2, TopologyAssumption DEF Table
  <1>4. /\ DOMAIN servers' = Addresses(new)
        /\ \A a \in Addresses(new) : servers'[a] = <<a, born'[a]>> /\ born'[a] # 0
    <2>1. DOMAIN servers' = Addresses(new)
      BY <1>2, Zenon
    <2> SUFFICES ASSUME NEW a \in Addresses(new)
                 PROVE  servers'[a] = <<a, born'[a]>> /\ born'[a] # 0
      BY <2>1
    <2>2. CASE a \in Added(new)
      BY <1>1, <1>2, <2>2 DEF Table
    <2>3. CASE a \notin Added(new)
      <3>1. a \in DOMAIN servers /\ a \in Address
        BY <1>1, <2>3 DEF Added
      <3> QED  BY <1>2, <2>3, <3>1, Zenon DEF Table
    <2> QED  BY <2>2, <2>3
  <1>5. \A a \in Addresses(new) : servers'[a] \in Server /\ servers'[a] \in Current'
    <2>1. \A a \in Addresses(new) : a \in Address /\ born'[a] \in 1..MaxServers
      BY <1>1, <1>3, <1>4, TopologyAssumption
    <2>2. \A a \in Addresses(new) : <<a, born'[a]>> \in Server
      BY <2>1 DEF Server
    <2> QED  BY <1>4, <2>2 DEF Current
  <1>6. alive' \subseteq Server
    BY <1>2, <1>5, Zenon DEF Table, Added
  <1>7. Table'
    BY <1>1, <1>3, <1>4, <1>6 DEF Table
  <1>8. ASSUME NEW i \in Server, Born(i)', ~Born(i)
        PROVE  i \in Current'
    <2>1. i[1] \in Address /\ i[2] \in 1..MaxServers /\ i = <<i[1], i[2]>>
      BY DEF Server
    <2>2. i[1] \in Added(new) /\ i[2] = born'[i[1]]
      <3> DEFINE a == i[1]
      <3>1. i[2] <= born'[a] /\ ~(i[2] <= born[a]) /\ born[a] \in Nat /\ i[2] \in Nat
        BY <1>8, <2>1, TopologyAssumption DEF Born, Table
      <3>2. born'[a] = IF a \in Added(new) THEN born[a] + 1 ELSE born[a]
        BY <1>2, <2>1, Zenon
      <3> QED  BY <3>1, <3>2
    <2>3. i[1] \in Addresses(new)
      BY <2>2 DEF Added
    <2> QED  BY <1>4, <1>5, <2>1, <2>2, <2>3
  <1>9. ASSUME NEW i \in Server, i \in Current, i \notin Gone(new)
        PROVE  i \in Current'
    <2>1. PICK a \in DOMAIN servers : i = servers[a]
      BY <1>9 DEF Current
    <2>2. a \in Addresses(new) /\ a \notin Added(new)
      BY <1>9, <2>1 DEF Gone, Added
    <2> QED  BY <1>2, <1>5, <2>1, <2>2, Zenon
  <1>10. \A i \in Server : i \in alive' => (i \in alive /\ i \notin Gone(new)) \/ i \in Current'
    BY <1>2, <1>5, Zenon DEF Added
  <1> QED  BY <1>4, <1>7, <1>8, <1>9, <1>10

LEMMA UpdatePools ==
    ASSUME Table, NEW new, WellFormed(new), NEW p \in [Server -> Pools], UpdateServers(new, p)
    PROVE  /\ srv' \in [Server -> Pools]
           /\ \A a \in Addresses(new) : srv'[servers'[a]].sd = new.sds[a]
           /\ \A i \in Server : i \in Gone(new) => srv'[i].pool = "closed"
           /\ \A i \in Server :
                p[i].pool = "closed" /\ (i \notin Current' \/ Added(new) = {}) => srv'[i].pool = "closed"
  <1> DEFINE kept(i) == i[1] \in Addresses(new) /\ i = servers'[i[1]]
             next(i) == IF i \in Gone(new) THEN ClosePool(p[i])
                        ELSE IF kept(i)
                        THEN IF i[1] \in Added(new) THEN NewPool(new.sds[i[1]])
                             ELSE Described(p[i], new.sds[i[1]])
                        ELSE p[i]
  <1>1. srv' = [i \in Server |-> next(i)]
    BY Zenon DEF UpdateServers
  <1>2. Table' /\ DOMAIN servers' = Addresses(new)
    BY UpdateTable
  <1>3. \A a \in Addresses(new) : new.sds[a] \in ServerDescriptions
    BY SMTT(30) DEF WellFormed, Addresses
  <1>4. ASSUME NEW i \in Server
        PROVE  /\ next(i) \in Pools
               /\ i \in Gone(new) => next(i).pool = "closed"
               /\ p[i].pool = "closed" /\ (~kept(i) \/ i[1] \notin Added(new)) => next(i).pool = "closed"
               /\ i \notin Gone(new) /\ kept(i) => next(i).sd = new.sds[i[1]]
    <2>1. p[i] \in Pools
      BY SMTT(30)
    <2>2. CASE i \in Gone(new)
      BY <2>1, <2>2, PoolSteps, SMTT(30)
    <2>3. CASE i \notin Gone(new) /\ kept(i)
      BY <1>3, <2>1, <2>3, DescribedPool, SMTT(30)
    <2>4. CASE i \notin Gone(new) /\ ~kept(i)
      BY <2>1, <2>4, Zenon
    <2> QED  BY <2>2, <2>3, <2>4, Zenon
  <1> HIDE DEF next
  <1>5. ASSUME NEW a \in Addresses(new)
        PROVE  srv'[servers'[a]].sd = new.sds[a]
    <2>1. servers'[a] = <<a, born'[a]>> /\ servers'[a][1] = a
      BY <1>2 DEF Table
    <2>2. servers'[a] \in Server
      <3>1. a \in Address /\ born'[a] \in 1..MaxServers
        BY <1>2, TopologyAssumption DEF Table
      <3> QED  BY <2>1, <3>1 DEF Server
    <2>3. servers'[a] \notin Gone(new)
      BY <2>1 DEF Gone, Table
    <2> QED  BY <1>1, <1>4, <2>1, <2>2, <2>3, Zenon
  <1>6. \A i \in Server : i \notin Current' => ~kept(i)
    BY <1>2 DEF Current
  <1> QED  BY <1>1, <1>4, <1>5, <1>6, Zenon

\* While the topology is open: what p did to Servers that had left does not
\* show.
LEMMA UpdateOrphans ==
    ASSUME Table, NoOrphans, state \in {"new", "open"}, state' = "open",
           NEW new, WellFormed(new), NEW p \in [Server -> Pools], UpdateServers(new, p),
           \A i \in Server : i \notin Current /\ srv[i].pool = "closed" => p[i].pool = "closed"
    PROVE  NoOrphans'
  <1> SUFFICES ASSUME NEW i \in Server, Born(i)', i \notin Current'
               PROVE  srv'[i].pool = "closed" /\ i \notin alive'
    BY DEF NoOrphans
  <1>1. Born(i)
    BY UpdateTable
  <1>2. CASE i \in Current
    <2>1. i \in Gone(new)
      BY <1>2, UpdateTable
    <2> QED  BY <2>1, UpdateTable, UpdatePools, Zenon
  <1>3. CASE i \notin Current
    <2>1. srv[i].pool = "closed" /\ i \notin alive
      BY <1>1, <1>3 DEF NoOrphans
    <2> QED  BY <1>3, <2>1, UpdateTable, UpdatePools
  <1> QED  BY <1>2, <1>3

-----------------------------------------------------------------------------
(* _process_change.                                                        *)

\* The pools as _process_change hands them to _update_servers.
LEMMA ReadiedPools ==
    ASSUME Table, srv \in [Server -> Pools], NEW a, NEW sd, NEW new
    PROVE  /\ ReadyFor(a, sd, new) \in [Server -> Pools]
           /\ \A i \in Server : i \notin Current => ReadyFor(a, sd, new)[i] = srv[i]
           /\ sd.type = "Unknown" => ReadyFor(a, sd, new) = srv
  <1>1. CASE ReadyFor(a, sd, new) = srv
    BY <1>1
  <1>2. CASE ReadyFor(a, sd, new) # srv
    <2>1. /\ a \in DOMAIN servers /\ sd.type # "Unknown"
          /\ ReadyFor(a, sd, new) = [srv EXCEPT ![servers[a]] = Ready(@)]
      BY <1>2, Zenon DEF ReadyFor, Readable, Writable, Known
    <2>2. servers[a] \in Server /\ servers[a] \in Current
      BY <2>1, ServerOf
    <2>3. Ready(srv[servers[a]]) \in Pools
      BY <2>2, PoolSteps
    <2> QED  BY <2>1, <2>2, <2>3
  <1> QED  BY <1>1, <1>2

LEMMA ClearedPools ==
    ASSUME NEW p \in [Server -> Pools], NEW clear
    PROVE  LET q == [i \in Server |-> IF i \in clear THEN ResetPool(p[i]) ELSE p[i]]
           IN  /\ q \in [Server -> Pools]
               /\ \A i \in Server : q[i].sd = p[i].sd /\ (p[i].pool = "closed" => q[i].pool = "closed")
  BY PoolSteps

LEMMA StaleChange ==
    ASSUME Core, srv' \in [Server -> Pools], UNCHANGED <<td, state, servers, born, alive>>,
           \A i \in Server : srv'[i].sd = srv[i].sd /\ (srv[i].pool = "closed" => srv'[i].pool = "closed")
    PROVE  Core'
  <1>1. DescInv(td)' /\ Table' /\ srv' \in [Server -> Pools] /\ Stage'
    BY Zenon DEF Core, Table, Stage
  <1>2. Synced'
    BY ServerOf DEF Core, Synced
  <1>3. NoOrphans'
    BY DEF Core, NoOrphans, Current, Born
  <1> QED  BY <1>1, <1>2, <1>3 DEF Core

LEMMA ChangeOpen ==
    ASSUME Core, state = "open", UNCHANGED state,
           NEW a \in Addresses(td), NEW sd, Reply(sd), NEW clear, ProcessChange(a, sd, clear)
    PROVE  Core'
  <1> DEFINE new == updated_topology_description(td, a, sd)
             cleared(p) == [i \in Server |-> IF i \in clear THEN ResetPool(p[i]) ELSE p[i]]
             p == ReadyFor(a, sd, new)
  <1>0. Table /\ srv \in [Server -> Pools] /\ NoOrphans /\ DescInv(td)
    BY DEF Core
  <1>1. CASE _is_stale_server_description(td.sds[a], sd)
    <2>1. srv' = cleared(srv) /\ UNCHANGED <<td, state, servers, born, alive>>
      BY <1>1 DEF ProcessChange
    <2>2. /\ cleared(srv) \in [Server -> Pools]
          /\ \A i \in Server : /\ cleared(srv)[i].sd = srv[i].sd
                               /\ srv[i].pool = "closed" => cleared(srv)[i].pool = "closed"
      BY <1>0, ClearedPools, Zenon
    <2> HIDE DEF cleared
    <2> QED  BY <2>1, <2>2, StaleChange, Zenon
  <1>2. CASE ~_is_stale_server_description(td.sds[a], sd)
    <2>1. td' = new /\ UpdateServers(new, cleared(p))
      BY <1>2, Zenon DEF ProcessChange
    <2>2. DescInv(new) /\ WellFormed(new)
      BY <1>0, UpdatedInv DEF DescInv
    <2> HIDE DEF new
    <2>3. p \in [Server -> Pools] /\ \A i \in Server : i \notin Current => p[i] = srv[i]
      BY <1>0, ReadiedPools
    <2> HIDE DEF p
    <2>4. /\ cleared(p) \in [Server -> Pools]
          /\ \A i \in Server : p[i].pool = "closed" => cleared(p)[i].pool = "closed"
      BY <2>3, ClearedPools, Zenon
    <2> HIDE DEF cleared
    <2>5. Table' /\ DOMAIN servers' = Addresses(new)
      BY <1>0, <2>1, <2>2, UpdateTable, SMTT(30)
    <2>6. srv' \in [Server -> Pools] /\ \A b \in Addresses(new) : srv'[servers'[b]].sd = new.sds[b]
      BY <1>0, <2>1, <2>2, <2>4, UpdatePools, Zenon
    <2>7. NoOrphans'
      BY <1>0, <2>1, <2>2, <2>3, <2>4, UpdateOrphans, Zenon
    <2>8. Synced' /\ Stage'
      BY <2>1, <2>5, <2>6 DEF Synced, Stage
    <2> QED  BY <2>1, <2>2, <2>5, <2>6, <2>7, <2>8, SMTT(30) DEF Core
  <1> QED  BY <1>1, <1>2

\* An error that outlives close: it changes the description of a host, and no
\* Server.
LEMMA ChangeClosed ==
    ASSUME Core, state # "open", UNCHANGED state, NEW a \in Addresses(td), a \in DOMAIN servers,
           NEW sd, Reply(sd), sd.type = "Unknown", NEW clear, ProcessChange(a, sd, clear)
    PROVE  Core'
  <1> DEFINE new == updated_topology_description(td, a, sd)
             cleared == [i \in Server |-> IF i \in clear THEN ResetPool(srv[i]) ELSE srv[i]]
  <1>0. Table /\ srv \in [Server -> Pools] /\ NoOrphans /\ DescInv(td) /\ Stage
    BY DEF Core
  <1>1. state = "closed" /\ DOMAIN servers = Addresses(td)
    BY <1>0 DEF Stage
  <1>2. /\ cleared \in [Server -> Pools]
        /\ \A i \in Server : /\ cleared[i].sd = srv[i].sd
                             /\ srv[i].pool = "closed" => cleared[i].pool = "closed"
    BY <1>0, ClearedPools, Zenon
  <1>3. CASE _is_stale_server_description(td.sds[a], sd)
    <2>1. srv' = cleared /\ UNCHANGED <<td, state, servers, born, alive>>
      BY <1>3, SMTT(30) DEF ProcessChange
    <2> HIDE DEF cleared
    <2> QED  BY <1>2, <2>1, StaleChange, SMTT(30)
  <1>4. CASE ~_is_stale_server_description(td.sds[a], sd)
    <2>1. td' = new /\ UpdateServers(new, cleared)
      BY <1>0, <1>4, ReadiedPools DEF ProcessChange
    <2>2. DescInv(new) /\ WellFormed(new)
      BY <1>0, UpdatedInv DEF DescInv
    <2>3. Addresses(new) = Addresses(td)
      BY <1>0, UnknownKeeps DEF Reply
    <2> HIDE DEF cleared, new
    <2>4. Added(new) = {} /\ Gone(new) = {}
      BY <1>1, <2>3 DEF Added, Gone
    <2>5. Table' /\ DOMAIN servers' = Addresses(new)
      BY <1>0, <2>1, <2>2, UpdateTable, SMTT(30)
    <2>6. /\ srv' \in [Server -> Pools]
          /\ \A i \in Server : cleared[i].pool = "closed" => srv'[i].pool = "closed"
      BY <1>0, <1>2, <2>1, <2>2, <2>4, UpdatePools, SMTT(30)
    <2>7. alive' = alive /\ \A i \in Server : Born(i)' => Born(i)
      BY <1>0, <2>1, <2>4, SMTT(30) DEF UpdateServers, Born, Server, Table
    <2>8. NoOrphans'
      <3> SUFFICES ASSUME NEW i \in Server, Born(i)'
                   PROVE  srv'[i].pool = "closed" /\ i \notin alive'
        BY DEF NoOrphans
      <3>1. srv[i].pool = "closed" /\ i \notin alive
        BY <1>0, <1>1, <2>7 DEF NoOrphans
      <3> QED  BY <1>2, <2>6, <2>7, <3>1
    <2>9. Synced' /\ Stage'
      BY <1>1, <2>1, <2>5 DEF Synced, Stage
    <2> QED  BY <2>1, <2>2, <2>5, <2>6, <2>8, <2>9, SMTT(30) DEF Core
  <1> QED  BY <1>3, <1>4

-----------------------------------------------------------------------------
(* The description, the table and the pools: one step per action.          *)

LEMMA BroughtType ==
    ASSUME NEW a \in Address, NEW sd \in Brought(a)
    PROVE  Reply(sd) /\ sd \in ServerDescriptions
  <1>1. CASE sd \in Replies[a]
    BY <1>1, TopologyAssumption DEF HelloReply, Reply
  <1>2. CASE sd \notin Replies[a]
    <2>1. PICK tv \in ErrorVersions : sd = UnknownServer(tv)
      BY <1>2 DEF Brought
    <2> QED  BY <2>1, UnknownServerType, TopologyAssumption DEF Reply, Members
  <1> QED  BY <1>1, <1>2

LEMMA CoreUnchanged ==
    ASSUME Core, UNCHANGED <<td, state, servers, born, srv, alive>>
    PROVE  Core'
  BY DEF Core, Table, Stage, Synced, NoOrphans, Current, Born

LEMMA OpenCore == Core /\ Open => Core'
  <1> SUFFICES ASSUME Core, Open PROVE Core'
    OBVIOUS
  <1>1. /\ DescInv(td) /\ WellFormed(td) /\ Table /\ srv \in [Server -> Pools] /\ NoOrphans
        /\ state = "new" /\ state' = "open" /\ UpdateServers(td, srv) /\ UNCHANGED td
    BY DEF Core, Open, DescInv
  <1>2. Table' /\ DOMAIN servers' = Addresses(td)
    BY <1>1, UpdateTable
  <1>3. srv' \in [Server -> Pools] /\ \A b \in Addresses(td) : srv'[servers'[b]].sd = td.sds[b]
    BY <1>1, UpdatePools, Zenon
  <1>4. NoOrphans'
    BY <1>1, UpdateOrphans
  <1>5. Synced' /\ Stage'
    BY <1>1, <1>2, <1>3, SMTT(30) DEF Synced, Stage
  <1> QED  BY <1>1, <1>2, <1>3, <1>4, <1>5 DEF Core

LEMMA SrvCore ==
    ASSUME Core, NEW seedlist \in SUBSET Address, OnSrvUpdate(seedlist)
    PROVE  Core'
  <1>1. PICK new \in SrvUpdated(td, seedlist) : td' = new /\ UpdateServers(new, srv)
    BY DEF OnSrvUpdate
  <1>2. /\ DescInv(td) /\ Table /\ srv \in [Server -> Pools] /\ NoOrphans
        /\ state = "open" /\ state' = "open" /\ td.type \in SRV_POLLING_TOPOLOGIES
    BY DEF Core, OnSrvUpdate
  <1>3. DescInv(new) /\ WellFormed(new)
    BY <1>2, SrvUpdatedInv DEF DescInv
  <1>4. Table' /\ DOMAIN servers' = Addresses(new)
    BY <1>1, <1>2, <1>3, UpdateTable, SMTT(30)
  <1>5. srv' \in [Server -> Pools] /\ \A b \in Addresses(new) : srv'[servers'[b]].sd = new.sds[b]
    BY <1>1, <1>2, <1>3, UpdatePools, Zenon
  <1>6. NoOrphans'
    BY <1>1, <1>2, <1>3, UpdateOrphans
  <1>7. Synced' /\ Stage'
    BY <1>1, <1>2, <1>4, <1>5 DEF Synced, Stage
  <1> QED  BY <1>1, <1>3, <1>4, <1>5, <1>6, <1>7 DEF Core

LEMMA OnChangeCore ==
    ASSUME Core, Monitors, NEW i \in Server, OnChange(i)
    PROVE  Core'
  <1>1. CASE Monitored(i[1])
    <2>1. state = "open" /\ UNCHANGED state /\ i[1] \in Addresses(td) /\ ProcessChange(i[1], mon[i].sd, {})
      BY <1>1, Zenon DEF OnChange, Monitored
    <2>2. i[1] \in Address /\ mon[i].sd \in Brought(i[1])
      BY Zenon DEF OnChange, Monitors, Server
    <2> QED  BY <2>1, <2>2, BroughtType, ChangeOpen, SMTT(30)
  <1>2. CASE ~Monitored(i[1])
    BY <1>2, CoreUnchanged DEF OnChange
  <1> QED  BY <1>1, <1>2

LEMMA ResetCore ==
    ASSUME Core, NEW i \in Server, ResetAfterFailure(i)
    PROVE  Core'
  <1>1. UNCHANGED <<td, state, servers, born, alive>>
    BY DEF ResetAfterFailure
  <1>2. CASE i[1] \in DOMAIN servers
    <2> DEFINE j == servers[i[1]]
    <2>1. j \in Server /\ srv \in [Server -> Pools]
      BY <1>2, ServerOf DEF Core
    <2>2. srv' = [srv EXCEPT ![j] = ResetPool(srv[j])]
      BY <1>2 DEF ResetAfterFailure
    <2> HIDE DEF j
    <2>3. /\ ResetPool(srv[j]) \in Pools /\ ResetPool(srv[j]).sd = srv[j].sd
          /\ srv[j].pool = "closed" => ResetPool(srv[j]).pool = "closed"
      BY <2>1, PoolSteps
    <2> QED  BY <1>1, <2>1, <2>2, <2>3, StaleChange
  <1>3. CASE i[1] \notin DOMAIN servers
    BY <1>1, <1>3, CoreUnchanged DEF ResetAfterFailure
  <1> QED  BY <1>2, <1>3

LEMMA HandleErrorCore ==
    ASSUME Core, NEW t \in Threads, op \in [Threads -> Operations], HandleError(t)
    PROVE  Core'
  <1> DEFINE a == op[t].server[1]
             sd == UnknownServer(op[t].tv)
  <1>1. CASE UNCHANGED <<td, servers, born, srv, alive>>
    BY <1>1, CoreUnchanged, Zenon DEF HandleError
  <1>2. CASE ~UNCHANGED <<td, servers, born, srv, alive>>
    <2>1. /\ op[t].pc = "failed" /\ ~_is_stale_error(t) /\ a \in Addresses(td) /\ UNCHANGED state
          /\ \E clear : ProcessChange(a, sd, clear)
      BY <1>2, SMTT(30) DEF HandleError
    <2>2. op[t].tv \in ErrorVersions
      BY <2>1, SMTT(30) DEF Operations
    <2>3. a \in DOMAIN servers
      BY <2>1, Zenon DEF _is_stale_error
    <2>4. Reply(sd) /\ sd.type = "Unknown"
      BY <2>2, ErrorType
    <2> HIDE DEF a, sd
    <2> QED  BY <2>1, <2>3, <2>4, ChangeOpen, ChangeClosed, SMTT(30)
  <1> QED  BY <1>1, <1>2, SMTT(30)

LEMMA CloseCore == Core /\ Close => Core'
  <1> SUFFICES ASSUME Core, Close PROVE Core'
    OBVIOUS
  <1>1. /\ state \in {"new", "open"} /\ state' = "closed" /\ td' = Reset(td) /\ alive' = {}
        /\ UNCHANGED <<servers, born>>
        /\ srv' = [i \in Server |-> IF i \in Current THEN [ClosePool(srv[i]) EXCEPT !.sd = NewServer]
                                    ELSE srv[i]]
    BY DEF Close
  <1>2. DescInv(td)'
    BY <1>1, ResetInv DEF Core
  <1>3. Addresses(td') = Addresses(td)
    BY <1>1 DEF Core, DescInv, WellFormed, Reset, Addresses
  <1>4. Table'
    BY <1>1 DEF Core, Table
  <1>5. ASSUME NEW i \in Server
        PROVE  srv'[i] \in Pools /\ (i \in Current \/ srv[i].pool = "closed" => srv'[i].pool = "closed")
    <2>1. srv[i] \in Pools
      BY DEF Core
    <2>2. ClosePool(srv[i]) \in Pools /\ ClosePool(srv[i]).pool = "closed"
      BY <2>1, PoolSteps
    <2>3. \A p \in Pools : /\ [p EXCEPT !.sd = NewServer] \in Pools
                           /\ [p EXCEPT !.sd = NewServer].pool = p.pool
      BY NewServerType DEF Pools
    <2> QED  BY <1>1, <2>1, <2>2, <2>3
  <1>6. srv' \in [Server -> Pools]
    BY <1>1, <1>5
  <1>7. NoOrphans'
    BY <1>1, <1>5 DEF Core, NoOrphans, Born, Current
  <1>8. Stage' /\ Synced'
    BY <1>1, <1>3 DEF Core, Stage, Synced
  <1> QED  BY <1>2, <1>4, <1>6, <1>7, <1>8 DEF Core

LEMMA ForgetCore == Core /\ Forget => Core'
  <1> SUFFICES ASSUME Core, Forget PROVE Core'
    OBVIOUS
  <1>1. /\ state = "closed" /\ state' = "forgotten" /\ UNCHANGED <<servers, born, srv, alive>>
        /\ td' = [td EXCEPT !.type = "Unknown", !.sds = [a \in {} |-> NewServer]]
    BY SMTT(30) DEF Forget
  <1>2. DescInv(td)'
    BY <1>1, ForgottenInv, Zenon DEF Core
  <1>3. Addresses(td') = {}
    BY <1>1 DEF Core, DescInv, WellFormed, Addresses
  <1>4. Table' /\ srv' \in [Server -> Pools] /\ Stage' /\ Synced'
    BY <1>1, <1>3 DEF Core, Table, Stage, Synced
  <1>5. NoOrphans'
    BY <1>1 DEF Core, NoOrphans, Born, Current
  <1> QED  BY <1>2, <1>4, <1>5 DEF Core

LEMMA CoreStep == IInv /\ [Next]_vars => Core'
  <1> SUFFICES ASSUME IInv, [Next]_vars PROVE Core'
    OBVIOUS
  <1>0. Core /\ Monitors /\ op \in [Threads -> Operations]
    BY DEF IInv
  <1>1. CASE Open \/ Close \/ Forget
    BY <1>0, <1>1, OpenCore, CloseCore, ForgetCore
  <1>2. ASSUME NEW i \in Server, MonitorStep(i) PROVE Core'
    <2>1. ASSUME NEW sd, MonitorReply(i, sd) PROVE Core'
      BY <1>0, <2>1, CoreUnchanged, Zenon DEF MonitorReply
    <2> QED  BY <1>0, <1>2, <2>1, OnChangeCore, ResetCore, SMTT(30) DEF MonitorStep
  <1>3. ASSUME NEW seedlist \in Seedlists, OnSrvUpdate(seedlist) PROVE Core'
    <2>1. seedlist \in SUBSET Address
      BY TopologyAssumption
    <2> QED  BY <1>0, <1>3, <2>1, SrvCore
  <1>4. ASSUME NEW t \in Threads, NEW a \in Address, Select(t, a) PROVE Core'
    BY <1>0, <1>4, CoreUnchanged DEF Select, Topo
  <1>5. ASSUME NEW t \in Threads, OpStep(t) PROVE Core'
    <2>1. CASE HandleError(t)
      BY <1>0, <2>1, HandleErrorCore
    <2>2. CASE ~HandleError(t)
      BY <1>0, <1>5, <2>2, CoreUnchanged, Zenon
         DEF OpStep, MakeHandler, Checkout, Connect, OpSucceeds, ConnectFails, OpFails, Topo
    <2> QED  BY <2>1, <2>2
  <1>6. CASE UNCHANGED vars
    BY <1>0, <1>6, CoreUnchanged DEF vars
  <1> QED  BY <1>1, <1>2, <1>3, <1>4, <1>5, <1>6 DEF Next

-----------------------------------------------------------------------------
(* What monitors and operations hold.                                      *)

LEMMA MonitorsStep == IInv /\ [Next]_vars => Monitors'
  <1> SUFFICES ASSUME IInv, [Next]_vars PROVE Monitors'
    OBVIOUS
  <1>0. Monitors
    BY DEF IInv
  <1>1. CASE UNCHANGED mon
    BY <1>0, <1>1 DEF Monitors
  <1>2. ASSUME NEW i \in Server, NEW m \in [pc : {"idle", "reply", "reset"}, sd : ServerDescriptions],
               m.pc = "reply" => m.sd \in Brought(i[1]), mon' = [mon EXCEPT ![i] = m]
        PROVE  Monitors'
    BY <1>0, <1>2 DEF Monitors
  <1>3. ASSUME NEW i \in Server, MonitorStep(i) PROVE Monitors'
    <2>1. i[1] \in Address
      BY DEF Server
    <2>2. ASSUME NEW sd \in Brought(i[1]), MonitorReply(i, sd) PROVE Monitors'
      <3>1. sd \in ServerDescriptions
        BY <2>1, BroughtType
      <3> DEFINE m == [pc |-> "reply", sd |-> sd]
      <3>2. m \in [pc : {"idle", "reply", "reset"}, sd : ServerDescriptions] /\ m.sd \in Brought(i[1])
        BY <3>1
      <3>3. mon' = [mon EXCEPT ![i] = m]
        BY <2>2 DEF MonitorReply
      <3> QED  BY <1>2, <3>2, <3>3, Zenon
    <2>3. CASE OnChange(i) \/ ResetAfterFailure(i)
      <3>1. PICK x \in {"idle", "reset"} : mon' = [mon EXCEPT ![i] = [pc |-> x, sd |-> NewServer]]
        BY <2>3, Zenon DEF OnChange, ResetAfterFailure
      <3> DEFINE m == [pc |-> x, sd |-> NewServer]
      <3>2. m \in [pc : {"idle", "reply", "reset"}, sd : ServerDescriptions] /\ m.pc # "reply"
        BY NewServerType, SMTT(30)
      <3> QED  BY <1>2, <3>1, <3>2, Zenon
    <2> QED  BY <1>3, <2>2, <2>3 DEF MonitorStep, Brought
  <1>4. ASSUME NEW t \in Threads, OpStep(t) PROVE UNCHANGED mon
    BY <1>4 DEF OpStep, MakeHandler, Checkout, Connect, OpSucceeds, ConnectFails, OpFails,
                HandleError, Topo
  <1>5. CASE UNCHANGED vars
    BY <1>1, <1>5 DEF vars
  <1>6. CASE Open \/ Close \/ Forget \/ (\E seedlist \in Seedlists : OnSrvUpdate(seedlist))
             \/ (\E t \in Threads, a \in Address : Select(t, a))
    BY <1>1, <1>6, Zenon DEF Open, Close, Forget, OnSrvUpdate, Select, Topo
  <1> QED  BY <1>1, <1>3, <1>4, <1>5, <1>6 DEF Next

LEMMA OperationsStep == IInv /\ [Next]_vars => op' \in [Threads -> Operations]
  <1> SUFFICES ASSUME IInv, [Next]_vars PROVE op' \in [Threads -> Operations]
    OBVIOUS
  <1>0. op \in [Threads -> Operations] /\ Table /\ srv \in [Server -> Pools]
    BY DEF IInv, Core
  <1>1. ASSUME NEW t \in Threads, NEW new \in Operations, Goto(t, new)
        PROVE  op' \in [Threads -> Operations]
    BY <1>0, <1>1 DEF Goto
  <1>2. ASSUME NEW t \in Threads, NEW a \in Address, Select(t, a)
        PROVE  op' \in [Threads -> Operations]
    <2>1. servers[a] \in Server
      BY <1>0, <1>2, ServerOf DEF Select
    <2>2. [pc |-> "selected", server |-> servers[a]] \in Operations
      BY <2>1 DEF Operations
    <2> QED  BY <1>1, <1>2, <2>2, SMTT(30) DEF Select
  <1>3. ASSUME NEW t \in Threads, OpStep(t)
        PROVE  op' \in [Threads -> Operations]
    <2>0. op[t] \in Operations
      BY <1>0
    <2>1. [pc |-> "idle"] \in Operations /\ [pc |-> "KeyError"] \in Operations
      BY DEF Operations
    <2>2. ASSUME op[t].pc \in {"handler", "connecting", "connected"}, NEW kind \in Errors,
                 NEW tv \in ErrorVersions, Failed(t, kind, tv)
          PROVE  op' \in [Threads -> Operations]
      <3>1. op[t].server \in Server /\ op[t].gen \in Nat
        BY <2>0, <2>2, SMTT(30) DEF Operations
      <3>2. [pc |-> "failed", server |-> op[t].server, gen |-> op[t].gen, kind |-> kind, tv |-> tv]
              \in Operations
        BY <3>1, Zenon DEF Operations
      <3> QED  BY <1>1, <2>2, <3>2 DEF Failed
    <2>3. CASE MakeHandler(t)
      <3>1. op[t].server \in Server
        BY <2>0, <2>3, Zenon DEF Operations, MakeHandler
      <3>2. srv[op[t].server].gen \in Nat
        BY <1>0, <3>1, SMTT(30) DEF Pools
      <3>3. [pc |-> "handler", server |-> op[t].server, gen |-> srv[op[t].server].gen] \in Operations
        BY <3>1, <3>2, Zenon DEF Operations
      <3> QED  BY <1>1, <2>3, <3>3, SMTT(30) DEF MakeHandler
    <2>4. CASE Checkout(t)
      <3>1. op[t].pc = "handler" => [op[t] EXCEPT !.pc = "connecting"] \in Operations
        BY <2>0 DEF Operations
      <3>2. "network" \in Errors /\ NoTopologyVersion \in ErrorVersions
        BY TopologyAssumption DEF Errors
      <3> QED  BY <1>1, <2>1, <2>2, <2>4, <3>1, <3>2, Zenon DEF Checkout
    <2>5. CASE Connect(t)
      <3>1. op[t].pc = "connecting" /\ op[t].server \in Server
        BY <2>0, <2>5 DEF Operations, Connect
      <3>2. srv[op[t].server].gen \in Nat
        BY <1>0, <3>1 DEF Pools
      <3>3. op[t] \in [pc : {"handler", "connecting", "connected"}, server : Server, gen : Nat]
        BY <2>0, <3>1 DEF Operations
      <3>4. [op[t] EXCEPT !.pc = "connected"]
              \in [pc : {"handler", "connecting", "connected"}, server : Server, gen : Nat]
        BY <3>3
      <3>5. \A q \in [pc : {"handler", "connecting", "connected"}, server : Server, gen : Nat] :
              [q EXCEPT !.gen = srv[op[t].server].gen] \in Operations
        BY <3>2, Zenon DEF Operations
      <3> QED  BY <1>1, <2>5, <3>4, <3>5, Zenon DEF Connect
    <2>6. CASE OpSucceeds(t)
      BY <1>1, <2>1, <2>6 DEF OpSucceeds
    <2>7. ASSUME NEW kind \in {"network", "ignored"}, ConnectFails(t, kind)
          PROVE  op' \in [Threads -> Operations]
      BY <2>2, <2>7, TopologyAssumption DEF ConnectFails, Errors
    <2>8. ASSUME NEW kind \in Errors, NEW tv \in ErrorVersions, OpFails(t, kind, tv)
          PROVE  op' \in [Threads -> Operations]
      BY <2>2, <2>8, SMTT(30) DEF OpFails
    <2>9. CASE HandleError(t)
      BY <1>1, <2>1, <2>9, SMTT(30) DEF HandleError
    <2> QED  BY <1>3, <2>3, <2>4, <2>5, <2>6, <2>7, <2>8, <2>9 DEF OpStep
  <1>4. ASSUME NEW i \in Server, MonitorStep(i) PROVE UNCHANGED op
    BY <1>4, Zenon DEF MonitorStep, MonitorReply, OnChange, ResetAfterFailure
  <1>5. CASE UNCHANGED vars
    BY <1>0, <1>5 DEF vars
  <1>6. CASE Open \/ Close \/ Forget \/ (\E seedlist \in Seedlists : OnSrvUpdate(seedlist))
    BY <1>0, <1>6, SMTT(30) DEF Open, Close, Forget, OnSrvUpdate
  <1> QED  BY <1>0, <1>2, <1>3, <1>4, <1>5, <1>6 DEF Next

-----------------------------------------------------------------------------
(* The invariant holds.                                                    *)

LEMMA InitIInv == Init => IInv
  <1> SUFFICES ASSUME Init PROVE IInv
    BY SMTT(30)
  <1>1. DescInv(td)
    <2>1. /\ S!get_topology_type \in {"Single", "Unknown", "ReplicaSetNoPrimary"}
          /\ S!get_topology_type = "ReplicaSetNoPrimary" => ReplicaSetName # NoName
      BY DEF S!get_topology_type
    <2> QED  BY <2>1, InitialInv, SameUnknown, TopologyAssumption, Zenon DEF Init, S!InitialDescription
  <1>2. NewPool(NewServer) \in Pools /\ NewServer \in ServerDescriptions
    BY NewServerType DEF NewPool, Pools
  <1>3. /\ DOMAIN servers = {} /\ born = [a \in Address |-> 0] /\ alive = {} /\ state = "new"
        /\ srv = [i \in Server |-> NewPool(NewServer)]
        /\ mon = [i \in Server |-> [pc |-> "idle", sd |-> NewServer]]
        /\ op = [t \in Threads |-> [pc |-> "idle"]]
    BY DEF Init
  <1>4. Table
    BY <1>3, TopologyAssumption, SMTT(30) DEF Table
  <1>5. srv \in [Server -> Pools] /\ Stage /\ Synced
    BY <1>2, <1>3, SMTT(30) DEF Stage, Synced
  <1>6. NoOrphans
    BY <1>3, TopologyAssumption DEF NoOrphans, Born, Server
  <1>7. Monitors
    BY <1>2, <1>3, SMTT(30) DEF Monitors
  <1>8. op \in [Threads -> Operations]
    BY <1>3 DEF Operations
  <1> QED  BY <1>1, <1>4, <1>5, <1>6, <1>7, <1>8 DEF IInv, Core

LEMMA Invariance == Spec => []IInv
  <1>1. IInv /\ [Next]_vars => IInv'
    BY CoreStep, MonitorsStep, OperationsStep DEF IInv
  <1> QED  BY InitIInv, <1>1, PTL DEF Spec

\* After every lock section _servers has the hosts of the description, and the
\* description cached in each Server is the current one, for any replies, in
\* any order, of any number of monitors.
THEOREM SyncedCorrect == Spec => []Synced
  <1>1. IInv => Synced
    BY DEF IInv, Core
  <1> QED  BY Invariance, <1>1, PTL

\* A Server that left the description, and every Server after close, keeps its
\* pool closed and its monitor stopped, whatever replies, resets and errors
\* are still under way.
THEOREM NoOrphansCorrect == Spec => []NoOrphans
  <1>1. IInv => NoOrphans
    BY DEF IInv, Core
  <1> QED  BY Invariance, <1>1, PTL

\* The topology with its threads, its unlocked windows and its late replies
\* implements Sdam, so what SdamProofs shows of Sdam holds of it: at most one
\* primary, a type that tells of it, members of one set.
THEOREM RefinementCorrect == Spec => RefinesSdam
  <1>1. Init => S!Init
    BY DEF Init, S!Init
  <1> QED  BY Invariance, <1>1, StepRefines, PTL DEF Spec, RefinesSdam, S!Spec
=============================================================================
