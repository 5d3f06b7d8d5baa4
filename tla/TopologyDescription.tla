------------------------ MODULE TopologyDescription -------------------------
(***************************************************************************)
(* pymongo/topology_description.py: how one hello response, or one failed  *)
(* check, turns a topology description into the next one.  Descriptions    *)
(* are values; the modules Sdam and Topology hold the current one.         *)
(*                                                                         *)
(* A setVersion, an electionId or a topologyVersion counter that is None   *)
(* is 0: the code compares None as the smallest value (MinKey) or tests    *)
(* for it first.                                                           *)
(***************************************************************************)
EXTENDS Naturals, FiniteSets

CONSTANTS
    Address,      \* (host, port) pairs
    SetName,      \* replica set names
    NoName,       \* replica_set_name is None
    NoAddress,    \* me is None
    SeedCount,    \* len(topology_settings.seeds)
    SrvMaxHosts   \* srvMaxHosts, 0 for no limit

ASSUME TDAssumption ==
    /\ NoName \notin SetName /\ NoAddress \notin Address
    /\ SeedCount \in Nat /\ SrvMaxHosts \in Nat

None == 0

ServerTypes == {"Unknown", "Mongos", "RSPrimary", "RSSecondary", "RSArbiter",
                "RSOther", "RSGhost", "Standalone", "LoadBalancer"}
TopologyTypes == {"Single", "ReplicaSetNoPrimary", "ReplicaSetWithPrimary",
                  "Sharded", "Unknown", "LoadBalanced"}

Members == {"RSSecondary", "RSArbiter", "RSOther"}
ReplicaSet == {"ReplicaSetNoPrimary", "ReplicaSetWithPrimary"}
SRV_POLLING_TOPOLOGIES == {"Unknown", "Sharded"}

\* is_writable, is_readable and is_server_type_known of a description.
Writable(sd) == sd.type \in {"RSPrimary", "Standalone", "Mongos", "LoadBalancer"}
Readable(sd) == sd.type = "RSSecondary" \/ Writable(sd)
Known(sd) == sd.type # "Unknown"

\* topologyVersion: the server process and its counter, None when absent.
NoTopologyVersion == [process |-> None, counter |-> None]

ServerDescriptions ==
    [type : ServerTypes, hosts : SUBSET Address, me : Address \cup {NoAddress},
     setName : SetName \cup {NoName}, setVersion : Nat, electionId : Nat,
     wire17 : {"yes", "no"}, tv : [process : Nat, counter : Nat]]

\* A hello that failed, or a server not checked yet; tv is what the error's
\* details carry.
UnknownServer(tv) ==
    [type |-> "Unknown", hosts |-> {}, me |-> NoAddress, setName |-> NoName,
     setVersion |-> None, electionId |-> None, wire17 |-> "no", tv |-> tv]

NewServer == UnknownServer(NoTopologyVersion)
ToUnknown(sd) == UnknownServer(sd.tv)

\* What _get_server_type can make of a reply that is ok: a member of a set
\* names the set, the others do not.
HelloReply(sd) ==
    /\ sd \in ServerDescriptions
    /\ IF sd.type \in Members \cup {"RSPrimary"}
       THEN sd.setName \in SetName
       ELSE /\ sd.setName = NoName /\ sd.hosts = {} /\ sd.me = NoAddress
            /\ sd.setVersion = None /\ sd.electionId = None
    /\ sd.type \notin {"Unknown", "LoadBalancer"}

WellFormed(td) ==
    /\ td \in [type : TopologyTypes, setName : SetName \cup {NoName},
               sds : {td.sds}, maxSetVersion : Nat, maxElectionId : Nat]
    /\ DOMAIN td.sds \subseteq Address
    /\ td.sds \in [DOMAIN td.sds -> ServerDescriptions]

Addresses(td) == DOMAIN td.sds
Primaries(sds) == {a \in DOMAIN sds : sds[a].type = "RSPrimary"}
KnownServers(td) == {a \in Addresses(td) : Known(td.sds[a])}
ReadableServers(td) == {a \in Addresses(td) : Readable(td.sds[a])}

-----------------------------------------------------------------------------
(* The dict operations of the code.                                        *)

Pop(sds, a) == [b \in DOMAIN sds \ {a} |-> sds[b]]
Keep(sds, S) == [b \in DOMAIN sds \cap S |-> sds[b]]
AddNew(sds, S) == [b \in DOMAIN sds \cup S |->
                     IF b \in DOMAIN sds THEN sds[b] ELSE NewServer]

_check_has_primary(sds) ==
    IF Primaries(sds) # {} THEN "ReplicaSetWithPrimary" ELSE "ReplicaSetNoPrimary"

WithServers(td, sds) == [td EXCEPT !.sds = sds, !.type = _check_has_primary(sds)]

-----------------------------------------------------------------------------
(* A primary's hello.                                                      *)

Before(p, q) == p[1] < q[1] \/ (p[1] = q[1] /\ p[2] < q[2])

\* Before wire version 17 setVersion comes first and None is never stale.
StalePrimary_SetVersionFirst(td, sd) ==
    Before(<<sd.setVersion, sd.electionId>>, <<td.maxSetVersion, td.maxElectionId>>)
StalePrimary(td, sd) ==
    IF sd.wire17 = "no"
    THEN /\ None \notin {sd.setVersion, sd.electionId, td.maxSetVersion, td.maxElectionId}
         /\ Before(<<sd.setVersion, sd.electionId>>, <<td.maxSetVersion, td.maxElectionId>>)
    ELSE Before(<<sd.electionId, sd.setVersion>>, <<td.maxElectionId, td.maxSetVersion>>)

MaxElectionId(td, sd) ==
    IF sd.wire17 = "no" /\ None \in {sd.setVersion, sd.electionId}
    THEN td.maxElectionId ELSE sd.electionId
MaxSetVersion(td, sd) ==
    IF sd.wire17 = "no" /\ sd.setVersion <= td.maxSetVersion
    THEN td.maxSetVersion ELSE sd.setVersion

\* "There can be only one prior primary": the loop resets the first it meets.
ResetOldPrimary_Keep(sds, a) == sds
ResetOldPrimary(sds, a) ==
    IF Primaries(sds) \ {a} = {} THEN sds
    ELSE LET old == CHOOSE b \in Primaries(sds) \ {a} : TRUE
         IN  [sds EXCEPT ![old] = ToUnknown(sds[old])]

\* A client that was given no set name takes the first it hears.
Named(td, sd) == [td EXCEPT !.setName = sd.setName]

\* sds already holds sd for the address a.
_update_rs_from_primary(td, a, sd) ==
    LET named == Named(td, sd)
    IN  IF td.setName \notin {NoName, sd.setName}
        THEN WithServers(td, Pop(td.sds, a))
        ELSE IF StalePrimary(td, sd)
        THEN WithServers(named, [td.sds EXCEPT ![a] = ToUnknown(sd)])
        ELSE WithServers([named EXCEPT !.maxElectionId = MaxElectionId(td, sd),
                                       !.maxSetVersion = MaxSetVersion(td, sd)],
                         Keep(AddNew(ResetOldPrimary(td.sds, a), sd.hosts), sd.hosts))

-----------------------------------------------------------------------------
(* Another member's hello.                                                 *)

Misaddressed(a, sd) == sd.me \notin {NoAddress, a}

FromMember_NoCheck(td, a, sd) ==
    [td EXCEPT !.sds = IF sd.setName # td.setName \/ Misaddressed(a, sd)
                       THEN Pop(td.sds, a) ELSE td.sds]
FromMember_AnySet(td, a, sd) ==
    WithServers(td, IF Misaddressed(a, sd) THEN Pop(td.sds, a) ELSE td.sds)
_update_rs_with_primary_from_member(td, a, sd) ==
    WithServers(td, IF sd.setName # td.setName \/ Misaddressed(a, sd)
                    THEN Pop(td.sds, a) ELSE td.sds)

_update_rs_no_primary_from_member(td, a, sd) ==
    LET added == AddNew(td.sds, sd.hosts)
    IN  IF td.setName \notin {NoName, sd.setName}
        THEN [td EXCEPT !.sds = Pop(td.sds, a)]
        ELSE [Named(td, sd) EXCEPT
                !.sds = IF Misaddressed(a, sd) THEN Pop(added, a) ELSE added]

-----------------------------------------------------------------------------
(* The type that an Unknown topology takes from its first known server.    *)

Discovered(td, sd) ==
    CASE sd.type \in {"Standalone", "LoadBalancer"} /\ SeedCount = 1 -> "Single"
      [] sd.type = "Mongos" -> "Sharded"
      [] sd.type = "RSPrimary" -> "ReplicaSetWithPrimary"
      [] sd.type \in Members -> "ReplicaSetNoPrimary"
      [] OTHER -> "Unknown"

\* A server that cannot belong to the topology of type t.
Misplaced(t, sd) ==
    \/ t = "Unknown" /\ sd.type \in {"Standalone", "LoadBalancer"}
    \/ t = "Sharded" /\ sd.type \notin {"Mongos", "Unknown"}
    \/ t \in ReplicaSet /\ sd.type \in {"Standalone", "Mongos"}

\* Direct connection to a member of the wrong set.
SingleServer(td, sd) ==
    IF td.setName \notin {NoName, sd.setName} THEN ToUnknown(sd) ELSE sd

\* updated_topology_description for a server a that td has.
updated_topology_description(td, a, sd) ==
    LET t == IF td.type = "Unknown" THEN Discovered(td, sd) ELSE td.type
        new == [td EXCEPT !.type = t, !.sds[a] = sd]
        sds == IF Misplaced(t, sd) THEN Pop(new.sds, a) ELSE new.sds
    IN  IF td.type = "Single"
        THEN [td EXCEPT !.sds[a] = SingleServer(td, sd)]
        ELSE IF t \in ReplicaSet /\ sd.type = "RSPrimary"
        THEN _update_rs_from_primary(new, a, sd)
        ELSE IF t = "ReplicaSetNoPrimary" /\ sd.type \in Members
        THEN _update_rs_no_primary_from_member(new, a, sd)
        ELSE IF t = "ReplicaSetWithPrimary" /\ sd.type \in Members
        THEN _update_rs_with_primary_from_member(new, a, sd)
        ELSE IF t = "ReplicaSetWithPrimary"
        THEN WithServers(new, sds)
        ELSE [new EXCEPT !.sds = sds]

-----------------------------------------------------------------------------

\* TopologyDescription.reset: every server Unknown.
Reset(td) ==
    [td EXCEPT !.type = IF @ = "ReplicaSetWithPrimary" THEN "ReplicaSetNoPrimary" ELSE @,
               !.sds = [a \in Addresses(td) |-> NewServer]]

Min2(m, n) == IF m <= n THEN m ELSE n

\* The hosts that an SRV record adds: all of them, or a sample that fills the
\* description up to srvMaxHosts.
SrvAdditions_NoLimit(sds, seedlist) == {seedlist \ DOMAIN sds}
SrvAdditions(sds, seedlist) ==
    LET new == seedlist \ DOMAIN sds
        n == IF SrvMaxHosts >= Cardinality(DOMAIN sds)
             THEN Min2(SrvMaxHosts - Cardinality(DOMAIN sds), Cardinality(new)) ELSE 0
    IN  IF SrvMaxHosts = 0 THEN {new} ELSE {S \in SUBSET new : Cardinality(S) = n}

\* The results of _updated_topology_description_srv_polling.
SrvUpdated(td, seedlist) ==
    LET kept == Keep(td.sds, seedlist)
    IN  IF Addresses(td) = seedlist THEN {td}
        ELSE {[td EXCEPT !.sds = AddNew(kept, S)] : S \in SrvAdditions(kept, seedlist)}

\* A reply whose topologyVersion is older than the one known is ignored.
_is_stale_server_description_Never(cur, new) == FALSE
_is_stale_server_description(cur, new) ==
    /\ cur.tv # NoTopologyVersion /\ new.tv # NoTopologyVersion
    /\ cur.tv.process = new.tv.process
    /\ cur.tv.counter > new.tv.counter

_is_stale_error_topology_version(current_tv, error_tv) ==
    /\ current_tv # NoTopologyVersion /\ error_tv # NoTopologyVersion
    /\ current_tv.process = error_tv.process
    /\ current_tv.counter >= error_tv.counter
=============================================================================
