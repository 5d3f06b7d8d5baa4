----------------------------- MODULE MCTopology -----------------------------
(* Instances of Topology for TLC: a primary that drops and re-adds its      *)
(* secondary from its list of hosts.                                       *)
EXTENDS Topology

CONSTANTS h1, h2, rs

Member(t, h, v) ==
    [type |-> t, hosts |-> h, me |-> NoAddress, setName |-> rs, setVersion |-> None,
     electionId |-> None, wire17 |-> "yes", tv |-> v]

Version == [process |-> 1, counter |-> 1]

MCReplies ==
    [x \in Address |->
       IF x = h1 THEN {Member("RSPrimary", h, Version) : h \in {{h1, h2}, {h1}}}
       ELSE {Member("RSSecondary", {h1, h2}, NoTopologyVersion)}]

NoVersions == {NoTopologyVersion}
MCErrorVersions == {NoTopologyVersion, Version}
MCSeedlists == {{h1}, {h1, h2}}
=============================================================================
