------------------------------- MODULE MCSdam -------------------------------
(* Instances of Sdam for TLC: three hosts, two set names, two elections.   *)
EXTENDS Sdam

CONSTANTS a, b, c, rs, other, Wires, Versions, TopologyVersions

Member(t, h, m, s, w) ==
    [type |-> t, hosts |-> h, me |-> m, setName |-> s, setVersion |-> None,
     electionId |-> None, wire17 |-> w, tv |-> NoTopologyVersion]
Primary(h, s, v, e, w) ==
    [Member("RSPrimary", h, NoAddress, s, w) EXCEPT !.setVersion = v, !.electionId = e]

HostLists == {{a, b}, {a}, {b, c}}

PrimaryHellos == {Primary(h, s, v, e, w) : h \in HostLists, s \in SetName,
                    v \in Versions, e \in Versions, w \in Wires}
MemberHellos ==
    {Member(t, h, m, s, w) : t \in {"RSSecondary"}, h \in {{a, b}},
       m \in {NoAddress, b}, s \in SetName, w \in Wires}
OtherHellos ==
    {Member(t, {}, NoAddress, NoName, w) : t \in {"RSGhost", "Standalone", "Mongos"},
       w \in Wires}
\* Secondaries, and failed checks, carry topologyVersions.
MCHellos == PrimaryHellos \cup OtherHellos
              \cup {[sd EXCEPT !.tv = tv] : sd \in MemberHellos, tv \in TopologyVersions}

TwoVersions == [process : {1}, counter : 1..2]
=============================================================================
