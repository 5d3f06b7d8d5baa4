-------------------------------- MODULE Sdam --------------------------------
(***************************************************************************)
(* What server discovery promises about the client's view of a deployment: *)
(* a state machine whose only state is the topology description and whose  *)
(* steps are hello replies in any order, failed checks, SRV polls and      *)
(* close.  Topology, with its threads, locks and pools, implements it.     *)
(***************************************************************************)
EXTENDS TopologyDescription

CONSTANTS
    Seeds,            \* the hosts of the connection string
    Direct,           \* directConnection
    ReplicaSetName,   \* the replicaSet option, NoName when absent
    Hellos,           \* the replies servers may give
    ErrorVersions     \* topologyVersions that a failed check may carry

VARIABLES
    td,      \* Topology._description
    phase    \* "open" until close

vars == <<td, phase>>

ASSUME SdamAssumption ==
    /\ Seeds \subseteq Address /\ Seeds # {} /\ SeedCount = Cardinality(Seeds)
    /\ IsFiniteSet(Address)
    /\ SrvMaxHosts # 0 => SeedCount <= SrvMaxHosts     \* as _SrvResolver samples them
    /\ Direct \in BOOLEAN /\ (Direct => Cardinality(Seeds) = 1)
    /\ ReplicaSetName \in SetName \cup {NoName}
    /\ \A sd \in Hellos : HelloReply(sd)
    /\ ErrorVersions \subseteq [process : Nat, counter : Nat]

get_topology_type ==
    IF Direct THEN "Single"
    ELSE IF ReplicaSetName # NoName THEN "ReplicaSetNoPrimary" ELSE "Unknown"

InitialDescription ==
    [type |-> get_topology_type, setName |-> ReplicaSetName,
     sds |-> [a \in Seeds |-> NewServer],
     maxSetVersion |-> None, maxElectionId |-> None]

Init == td = InitialDescription /\ phase = "open"

ProcessChange(a, sd) ==
    /\ a \in Addresses(td)
    /\ ~_is_stale_server_description(td.sds[a], sd)
    /\ td' = updated_topology_description(td, a, sd)

CheckSucceeded(a, sd) ==
    phase = "open" /\ ProcessChange(a, sd) /\ UNCHANGED phase

\* A monitor's check or, even after close, an operation fails.
CheckFailed(a, tv) == ProcessChange(a, UnknownServer(tv)) /\ UNCHANGED phase

SrvPolled(seedlist) ==
    /\ phase = "open"
    /\ td.type \in SRV_POLLING_TOPOLOGIES
    /\ td' \in SrvUpdated(td, seedlist)
    /\ UNCHANGED phase

Closed == td' = Reset(td) /\ phase' = "closed"

\* With topology listeners close also forgets the servers.
Forgotten ==
    /\ phase = "closed"
    /\ td' = [td EXCEPT !.type = "Unknown", !.sds = [a \in {} |-> NewServer]]
    /\ UNCHANGED phase

Next ==
    \/ \E a \in Address, sd \in Hellos : CheckSucceeded(a, sd)
    \/ \E a \in Address, tv \in ErrorVersions : CheckFailed(a, tv)
    \/ \E seedlist \in (SUBSET Address) \ {{}} : SrvPolled(seedlist)
    \/ Closed
    \/ Forgotten

Spec == Init /\ [][Next]_vars

-----------------------------------------------------------------------------
\* Every description is well formed.
TypeOK == WellFormed(td) /\ phase \in {"open", "closed"}

\* "There can be only one prior primary" (_update_rs_from_primary): the loop
\* that resets the old primary stops at the first it finds, so two primaries
\* would leave a stale one selectable for writes.
OnePrimary ==
    td.type # "Single" => \A p, q \in Primaries(td.sds) : p = q

\* The type says ReplicaSetWithPrimary exactly when a primary is described, and
\* then the set has a name: get_primary indexes the writable servers without a
\* test, the fast path of apply_selector trusts the type, and
\* _update_rs_with_primary_from_member asserts the name.
PrimaryTyped ==
    /\ td.type = "ReplicaSetWithPrimary" <=> Primaries(td.sds) # {} /\ td.type # "Single"
    /\ td.type = "ReplicaSetWithPrimary" => td.setName # NoName

\* A server of a kind that the topology's type excludes: a mongos beside replica
\* set members, a standalone among several seeds, any member in an Unknown
\* topology.  (A ghost seen before the first mongos stays in a sharded topology
\* until it is checked again.)
Homogeneous ==
    \A a \in Addresses(td) :
       LET t == td.sds[a].type
       IN  /\ td.type = "Sharded" => t \in {"Mongos", "Unknown", "RSGhost"}
           /\ td.type = "Unknown" => t \in {"Unknown", "RSGhost"}
           /\ td.type \in ReplicaSet => t \notin {"Mongos", "Standalone"}

SameSet ==
    td.type \in ReplicaSet =>
       \A a \in Addresses(td) :
          td.sds[a].type \in Members \cup {"RSPrimary"} => td.sds[a].setName = td.setName

\* No server of another kind stays in the description, and every member kept in
\* a set belongs to the set the client is bound to, whatever the seeds were.
Membership == Homogeneous /\ SameSet

\* SRV polling keeps the number of mongoses within srvMaxHosts.
SrvHostsBound ==
    SrvMaxHosts # 0 /\ td.type \in SRV_POLLING_TOPOLOGIES
       => Cardinality(Addresses(td)) <= SrvMaxHosts

\* From wire version 17 on, the primary in the description is the newest one
\* heard of, and (electionId, setVersion) never goes back: no reply of a deposed
\* primary, however late, displaces its successor.
ElectionsForward ==
    [][(\A sd \in Hellos : sd.wire17 = "yes") =>
         /\ ~Before(<<td'.maxElectionId, td'.maxSetVersion>>,
                    <<td.maxElectionId, td.maxSetVersion>>)
         /\ td'.type \in ReplicaSet => \A a \in Primaries(td'.sds) :
              <<td'.sds[a].electionId, td'.sds[a].setVersion>> = <<td'.maxElectionId, td'.maxSetVersion>>]_td

\* What the client knows of one server process never gets older: a reply that
\* was overtaken, by a newer reply or by an error with a newer topologyVersion,
\* changes nothing.
TopologyVersionsForward ==
    [][\A a \in Addresses(td) \cap Addresses(td') :
         LET old == td.sds[a].tv
             new == td'.sds[a].tv
         IN  old.process # None /\ old.process = new.process => new.counter >= old.counter]_td
=============================================================================
