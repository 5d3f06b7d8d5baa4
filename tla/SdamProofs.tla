----------------------------- MODULE SdamProofs -----------------------------
(***************************************************************************)
(* Proofs about the topology description, for any hosts, any set names,    *)
(* any replies in any order: it is well formed, it never has two           *)
(* primaries, its type tells whether there is one, every member it keeps   *)
(* belongs to the set it names, what it knows never goes back, and         *)
(* srvMaxHosts bounds a sharded cluster.                                   *)
(***************************************************************************)
EXTENDS Sdam, TopologyDescriptionProofs, FiniteSetTheorems

-----------------------------------------------------------------------------
(* What updated_topology_description leaves, in three cases: a direct      *)
(* connection, a primary that is accepted, and everything else.            *)

Put(d, a, sd) == [d.sds EXCEPT ![a] = sd]
SameElection(d, e) == e.maxElectionId = d.maxElectionId /\ e.maxSetVersion = d.maxSetVersion

SingleCase(d, a, sd, e) ==
    e.type = "Single" /\ e.sds = [d.sds EXCEPT ![a] = SingleServer(d, sd)] /\ SameElection(d, e)

PrimaryCase(d, a, sd, e) ==
    /\ sd.type = "RSPrimary" /\ ~StalePrimary(d, sd)
    /\ d.type \in ReplicaSet \cup {"Unknown"} /\ d.setName \in {NoName, sd.setName}
    /\ e.maxElectionId = MaxElectionId(d, sd) /\ e.maxSetVersion = MaxSetVersion(d, sd)
    /\ e.sds = Keep(AddNew(ResetOldPrimary(Put(d, a, sd), a), sd.hosts), sd.hosts)

OtherCase(d, a, sd, e) ==
    /\ e.type \in ReplicaSet => d.type \in ReplicaSet \cup {"Unknown"}
    /\ SameElection(d, e)
    /\ \/ e.sds \in {Pop(Put(d, a, sd), a), [Put(d, a, sd) EXCEPT ![a] = ToUnknown(sd)]}
       \/ /\ e.type \in ReplicaSet => sd.type # "RSPrimary"
          /\ e.sds \in {Put(d, a, sd), AddNew(Put(d, a, sd), sd.hosts),
                       Pop(AddNew(Put(d, a, sd), sd.hosts), a)}

\* A record with the fields of a description.
Shaped(x) == x \in [type : {x.type}, setName : {x.setName}, sds : {x.sds},
                    maxSetVersion : {x.maxSetVersion}, maxElectionId : {x.maxElectionId}]

WithSds(x, sds) == [x EXCEPT !.sds = sds]

LEMMA ShapedSteps ==
    ASSUME NEW x, Shaped(x), NEW y
    PROVE  /\ WithServers(x, y).sds = y /\ SameElection(x, WithServers(x, y))
           /\ WithSds(x, y).sds = y /\ WithSds(x, y).type = x.type /\ SameElection(x, WithSds(x, y))
  BY DEF Shaped, SameElection, WithServers, WithSds

LEMMA UpdatedCases ==
    ASSUME NEW d, WellFormed(d), d.type # "LoadBalanced", NEW a \in Addresses(d), NEW sd
    PROVE  LET e == updated_topology_description(d, a, sd)
           IN  SingleCase(d, a, sd, e) \/ PrimaryCase(d, a, sd, e) \/ OtherCase(d, a, sd, e)
  <1> DEFINE t == IF d.type = "Unknown" THEN Discovered(d, sd) ELSE d.type
             new == [d EXCEPT !.type = t, !.sds[a] = sd]
             put == Put(d, a, sd)
             e == updated_topology_description(d, a, sd)
             sds == IF Misplaced(t, sd) THEN Pop(new.sds, a) ELSE new.sds
  <1>1. Shaped(d) /\ a \in DOMAIN d.sds
    BY DEF WellFormed, Addresses, Shaped
  <1>2. /\ Shaped(new) /\ new.sds = put /\ new.type = t /\ new.setName = d.setName
        /\ SameElection(d, new)
    BY <1>1, Zenon DEF Shaped, Put, SameElection
  <1>3. t \in ReplicaSet => d.type \in ReplicaSet \cup {"Unknown"}
    OBVIOUS
  <1>4. \A x \in {"ReplicaSetNoPrimary", "ReplicaSetWithPrimary"} : x \in ReplicaSet
    BY DEF ReplicaSet
  <1>5. CASE d.type = "Single"
    <2>1. e = [d EXCEPT !.sds[a] = SingleServer(d, sd)]
      BY <1>5 DEF updated_topology_description
    <2> QED  BY <1>1, <1>5, <2>1 DEF SingleCase, Shaped, SameElection
  <1> HIDE DEF new, t
  <1>6. /\ Shaped(Named(new, sd)) /\ Named(new, sd).sds = put /\ Named(new, sd).type = t
        /\ SameElection(d, Named(new, sd))
    BY <1>2 DEF Named, Shaped, SameElection
  <1>7. CASE d.type # "Single" /\ t \in ReplicaSet /\ sd.type = "RSPrimary"
    <2> DEFINE forward == [Named(new, sd) EXCEPT !.maxElectionId = MaxElectionId(new, sd),
                                                !.maxSetVersion = MaxSetVersion(new, sd)]
               kept == Keep(AddNew(ResetOldPrimary(put, a), sd.hosts), sd.hosts)
               reset == [put EXCEPT ![a] = ToUnknown(sd)]
    <2>1. e = _update_rs_from_primary(new, a, sd)
      BY <1>7 DEF updated_topology_description, new, t
    <2>2. \A x, y : [Named(new, sd) EXCEPT !.maxElectionId = x, !.maxSetVersion = y]
                     \in [type : {new.type}, setName : {sd.setName}, sds : {put},
                          maxSetVersion : {y}, maxElectionId : {x}]
      BY <1>2, Zenon DEF Named, Shaped
    <2>3. /\ Shaped(forward) /\ forward.maxElectionId = MaxElectionId(new, sd)
          /\ forward.maxSetVersion = MaxSetVersion(new, sd)
      BY <2>2, Zenon DEF Shaped
    <2>4. /\ MaxElectionId(new, sd) = MaxElectionId(d, sd) /\ MaxSetVersion(new, sd) = MaxSetVersion(d, sd)
          /\ StalePrimary(new, sd) = StalePrimary(d, sd)
      BY <1>2 DEF SameElection, MaxElectionId, MaxSetVersion, StalePrimary
    <2>5. \/ e = WithServers(new, Pop(put, a)) \/ e = WithServers(Named(new, sd), reset)
          \/ /\ e = WithServers(forward, kept) /\ ~StalePrimary(new, sd)
             /\ new.setName \in {NoName, sd.setName}
      BY <1>2, <2>1 DEF _update_rs_from_primary
    <2> HIDE DEF forward, kept, reset, put, e
    <2>6. /\ WithServers(new, Pop(put, a)).sds = Pop(put, a)
          /\ WithServers(Named(new, sd), reset).sds = reset /\ WithServers(forward, kept).sds = kept
          /\ SameElection(new, WithServers(new, Pop(put, a)))
          /\ SameElection(Named(new, sd), WithServers(Named(new, sd), reset))
          /\ SameElection(forward, WithServers(forward, kept))
      BY <1>2, <1>6, <2>3, ShapedSteps
    <2>7. CASE e = WithServers(new, Pop(put, a)) \/ e = WithServers(Named(new, sd), reset)
      <3>1. e.sds \in {Pop(put, a), reset} /\ SameElection(d, e)
        BY <1>2, <1>6, <2>6, <2>7 DEF SameElection
      <3> QED  BY <1>3, <1>7, <3>1 DEF OtherCase, reset, put, e
    <2>8. CASE /\ e = WithServers(forward, kept) /\ ~StalePrimary(new, sd)
               /\ new.setName \in {NoName, sd.setName}
      <3>1. /\ e.sds = kept /\ e.maxElectionId = MaxElectionId(d, sd)
            /\ e.maxSetVersion = MaxSetVersion(d, sd)
        BY <2>3, <2>4, <2>6, <2>8 DEF SameElection
      <3> QED  BY <1>2, <1>3, <1>7, <2>4, <2>8, <3>1 DEF PrimaryCase, kept, put, e
    <2> QED  BY <2>5, <2>7, <2>8
  <1>8. CASE d.type # "Single" /\ t = "ReplicaSetNoPrimary" /\ sd.type \in Members
    <2>1. e = _update_rs_no_primary_from_member(new, a, sd)
      BY <1>8 DEF updated_topology_description, new, t, Members
    <2>2. \E y \in {Pop(put, a), Pop(AddNew(put, sd.hosts), a), AddNew(put, sd.hosts)} :
             e = WithSds(new, y) \/ e = WithSds(Named(new, sd), y)
      BY <1>2, <2>1 DEF _update_rs_no_primary_from_member, WithSds
    <2> HIDE DEF put, e
    <2>3. /\ e.sds \in {Pop(put, a), Pop(AddNew(put, sd.hosts), a), AddNew(put, sd.hosts)}
          /\ SameElection(d, e)
      BY <1>2, <1>6, <2>2, ShapedSteps DEF SameElection
    <2> QED  BY <1>3, <1>4, <1>8, <2>3 DEF OtherCase, put, e, Members
  <1>9. CASE d.type # "Single" /\ t = "ReplicaSetWithPrimary" /\ sd.type \in Members
    <2>1. e = _update_rs_with_primary_from_member(new, a, sd)
      BY <1>9 DEF updated_topology_description, new, t, Members
    <2>2. e = WithServers(new, Pop(put, a)) \/ e = WithServers(new, put)
      BY <1>2, <2>1 DEF _update_rs_with_primary_from_member
    <2> HIDE DEF put, e
    <2>3. e.sds \in {Pop(put, a), put} /\ SameElection(d, e)
      BY <1>2, <2>2, ShapedSteps DEF SameElection
    <2> QED  BY <1>3, <1>4, <1>9, <2>3 DEF OtherCase, put, e, Members
  <1>10. CASE /\ d.type # "Single" /\ ~(t \in ReplicaSet /\ sd.type = "RSPrimary")
              /\ ~(t \in ReplicaSet /\ sd.type \in Members)
    <2>1. \/ e = WithServers(new, sds) /\ t \in ReplicaSet
          \/ e = WithSds(new, sds)
      BY <1>4, <1>10 DEF updated_topology_description, new, t, WithSds
    <2>2. sds \in {Pop(put, a), put}
      BY <1>2
    <2> HIDE DEF put, e, sds
    <2>3. e.sds = sds /\ SameElection(d, e) /\ (e.type \in ReplicaSet => t \in ReplicaSet)
      BY <1>2, <2>1, ShapedSteps DEF SameElection
    <2> QED  BY <1>3, <1>10, <2>2, <2>3 DEF OtherCase, put, e
  <1> QED  BY <1>5, <1>7, <1>8, <1>9, <1>10 DEF ReplicaSet

-----------------------------------------------------------------------------
(* The topologyVersions: only the server that replied gets another one.    *)

\* The hosts that sds shares with put have the versions they have there.
SameVersions(sds, put) == \A b \in DOMAIN sds \cap DOMAIN put : sds[b].tv = put[b].tv

LEMMA VersionSteps ==
    ASSUME NEW put, NEW a, NEW hosts
    PROVE  /\ SameVersions(put, put) /\ SameVersions(Pop(put, a), put)
           /\ SameVersions(AddNew(put, hosts), put)
           /\ SameVersions(Pop(AddNew(put, hosts), a), put)
           /\ SameVersions(Keep(AddNew(ResetOldPrimary(put, a), hosts), hosts), put)
  <1>1. DOMAIN ResetOldPrimary(put, a) = DOMAIN put /\ SameVersions(ResetOldPrimary(put, a), put)
    BY Zenon DEF ResetOldPrimary, SameVersions, ToUnknown, UnknownServer
  <1>2. \A sds : DOMAIN sds = DOMAIN put /\ SameVersions(sds, put)
                => SameVersions(Keep(AddNew(sds, hosts), hosts), put)
    BY DEF SameVersions, Keep, AddNew
  <1>3. /\ SameVersions(put, put) /\ SameVersions(Pop(put, a), put)
        /\ SameVersions(AddNew(put, hosts), put)
        /\ SameVersions(Pop(AddNew(put, hosts), a), put)
    BY DEF SameVersions, Pop, AddNew
  <1> QED  BY <1>1, <1>2, <1>3

LEMMA UpdatedVersions ==
    ASSUME NEW d, DescInv(d), NEW a \in Addresses(d), NEW sd
    PROVE  LET e == updated_topology_description(d, a, sd)
           IN  \A b \in Addresses(d) \cap Addresses(e) :
                  e.sds[b].tv = IF b = a THEN sd.tv ELSE d.sds[b].tv
  <1> DEFINE e == updated_topology_description(d, a, sd)
             put == Put(d, a, sd)
  <1>1. WellFormed(d) /\ d.type # "LoadBalanced" /\ a \in DOMAIN d.sds
    BY DEF DescInv, Quiet, Addresses
  <1>2. DOMAIN put = DOMAIN d.sds /\ \A b \in DOMAIN d.sds : put[b] = IF b = a THEN sd ELSE d.sds[b]
    BY DEF Put
  <1>3. \A x : x.tv = sd.tv => SameVersions([put EXCEPT ![a] = x], put)
    BY <1>2 DEF SameVersions
  <1>4. SameVersions(e.sds, put)
    <2>1. CASE SingleCase(d, a, sd, e)
      <3>1. SingleServer(d, sd).tv = sd.tv
        BY DEF SingleServer, ToUnknown, UnknownServer
      <3>2. e.sds = [d.sds EXCEPT ![a] = SingleServer(d, sd)]
        BY <2>1 DEF SingleCase
      <3> QED  BY <1>2, <3>1, <3>2 DEF SameVersions
    <2>2. CASE PrimaryCase(d, a, sd, e)
      BY <2>2, VersionSteps DEF PrimaryCase
    <2>3. CASE OtherCase(d, a, sd, e)
      <3>1. SameVersions([put EXCEPT ![a] = ToUnknown(sd)], put)
        BY <1>3 DEF ToUnknown, UnknownServer
      <3> QED  BY <2>3, <3>1, VersionSteps, Zenon DEF OtherCase
    <2> QED  BY <1>1, <2>1, <2>2, <2>3, UpdatedCases
  <1> HIDE DEF put
  <1> QED  BY <1>2, <1>4 DEF SameVersions, Addresses

-----------------------------------------------------------------------------
(* The elections, from wire version 17 on.                                 *)

Elected(d) ==
    d.type \in ReplicaSet => \A p \in Primaries(d.sds) :
       d.sds[p].electionId = d.maxElectionId /\ d.sds[p].setVersion = d.maxSetVersion

\* Only the reply of an accepted primary puts a primary into the description.
LEMMA OtherPrimaries ==
    ASSUME NEW d, NEW a \in DOMAIN d.sds, NEW sd, NEW e, OtherCase(d, a, sd, e), e.type \in ReplicaSet
    PROVE  \A p \in Primaries(e.sds) : p \in Primaries(d.sds) /\ e.sds[p] = d.sds[p]
  <1> DEFINE put == Put(d, a, sd)
             Old(sds) == \A p \in Primaries(sds) : p \in Primaries(d.sds) /\ sds[p] = d.sds[p]
  <1>1. DOMAIN put = DOMAIN d.sds /\ \A b \in DOMAIN d.sds : put[b] = IF b = a THEN sd ELSE d.sds[b]
    BY DEF Put
  <1>2. NewServer.type = "Unknown" /\ ToUnknown(sd).type = "Unknown"
    BY DEF NewServer, ToUnknown, UnknownServer
  <1> HIDE DEF put
  <1>3. Old(Pop(put, a)) /\ Old([put EXCEPT ![a] = ToUnknown(sd)])
    BY <1>1, <1>2 DEF Primaries, Pop
  <1>4. sd.type # "RSPrimary" => Old(put)
    BY <1>1 DEF Primaries
  <1>5. \A hosts : sd.type # "RSPrimary" => Old(AddNew(put, hosts)) /\ Old(Pop(AddNew(put, hosts), a))
    BY <1>1, <1>2 DEF Primaries, Pop, AddNew
  <1>6. /\ sd.type # "RSPrimary" \/ e.sds \in {Pop(put, a), [put EXCEPT ![a] = ToUnknown(sd)]}
        /\ e.sds \in {Pop(put, a), [put EXCEPT ![a] = ToUnknown(sd)], put, AddNew(put, sd.hosts),
                      Pop(AddNew(put, sd.hosts), a)}
    BY DEF OtherCase, put
  <1> HIDE DEF Old
  <1>7. Old(e.sds)
    BY <1>3, <1>4, <1>5, <1>6
  <1> QED  BY <1>7 DEF Old

\* An accepted primary is the only one left.
LEMMA AcceptedPrimary ==
    ASSUME NEW d, DescInv(d), NEW a \in DOMAIN d.sds, NEW sd \in ServerDescriptions, NEW e,
           PrimaryCase(d, a, sd, e)
    PROVE  \A p \in Primaries(e.sds) : e.sds[p] = sd
  <1> DEFINE put == Put(d, a, sd)
             reset == ResetOldPrimary(put, a)
  <1>1. /\ Sds(d.sds) /\ sd.type = "RSPrimary" /\ d.type \in ReplicaSet \cup {"Unknown"}
        /\ d.setName \in {NoName, sd.setName}
        /\ e.sds = Keep(AddNew(reset, sd.hosts), sd.hosts)
    BY DEF DescInv, WellFormed, Sds, PrimaryCase
  <1>2. SetOf(d.sds, sd.setName)
    <2>1. CASE d.type \in ReplicaSet
      BY <1>1, <2>1 DEF DescInv, InSet
    <2>2. CASE d.type = "Unknown"
      BY <2>2 DEF DescInv, Quiet, SetOf, Primaries, Members
    <2> QED  BY <1>1, <2>1, <2>2
  <1>3. SetOf(reset, sd.setName)
    BY <1>1, <1>2, ResetOldPrimarySet DEF Put
  <1>4. reset[a] = sd /\ a \in Primaries(reset)
    <2>1. put[a] = sd /\ a \in DOMAIN put
      BY DEF Put
    <2> HIDE DEF put
    <2>2. CASE Primaries(put) \ {a} = {}
      BY <1>1, <2>1, <2>2 DEF ResetOldPrimary, Primaries
    <2>3. CASE Primaries(put) \ {a} # {}
      <3> DEFINE old == CHOOSE b \in Primaries(put) \ {a} : TRUE
      <3>1. old # a
        BY <2>3
      <3>2. reset = [put EXCEPT ![old] = ToUnknown(put[old])]
        BY <2>3 DEF ResetOldPrimary
      <3> HIDE DEF old, reset
      <3> QED  BY <1>1, <2>1, <3>1, <3>2 DEF Primaries
    <2> QED  BY <2>2, <2>3
  <1> HIDE DEF reset
  <1>5. \A p \in Primaries(e.sds) : p \in Primaries(reset) /\ e.sds[p] = reset[p]
    BY <1>1 DEF Keep, AddNew, Primaries, NewServer, UnknownServer
  <1> QED  BY <1>3, <1>4, <1>5 DEF SetOf

LEMMA UpdatedElections ==
    ASSUME NEW d, DescInv(d), Elected(d), NEW a \in Addresses(d), NEW sd, Reply(sd),
           sd.type = "RSPrimary" => sd.wire17 = "yes"
    PROVE  LET e == updated_topology_description(d, a, sd)
           IN  /\ Elected(e)
               /\ ~Before(<<e.maxElectionId, e.maxSetVersion>>, <<d.maxElectionId, d.maxSetVersion>>)
  <1> DEFINE e == updated_topology_description(d, a, sd)
  <1>1. /\ WellFormed(d) /\ d.type # "LoadBalanced" /\ a \in DOMAIN d.sds /\ sd \in ServerDescriptions
        /\ d.maxElectionId \in Nat /\ d.maxSetVersion \in Nat
    BY DEF DescInv, WellFormed, Quiet, Addresses, Reply
  <1>2. SameElection(d, e) =>
          ~Before(<<e.maxElectionId, e.maxSetVersion>>, <<d.maxElectionId, d.maxSetVersion>>)
    BY <1>1 DEF SameElection, Before
  <1>3. SingleCase(d, a, sd, e) \/ PrimaryCase(d, a, sd, e) \/ OtherCase(d, a, sd, e)
    BY <1>1, UpdatedCases
  <1> HIDE DEF e
  <1>4. CASE SingleCase(d, a, sd, e)
    BY <1>2, <1>4 DEF SingleCase, Elected, ReplicaSet, e
  <1>5. CASE PrimaryCase(d, a, sd, e)
    <2>1. /\ sd.type = "RSPrimary" /\ sd.wire17 = "yes" /\ ~StalePrimary(d, sd)
          /\ e.maxElectionId = MaxElectionId(d, sd) /\ e.maxSetVersion = MaxSetVersion(d, sd)
      BY <1>5 DEF PrimaryCase
    <2>2. e.maxElectionId = sd.electionId /\ e.maxSetVersion = sd.setVersion
      BY <2>1 DEF MaxElectionId, MaxSetVersion
    <2>3. ~Before(<<e.maxElectionId, e.maxSetVersion>>, <<d.maxElectionId, d.maxSetVersion>>)
      BY <2>1, <2>2 DEF StalePrimary
    <2>4. Elected(e)
      BY <1>1, <1>5, <2>2, AcceptedPrimary DEF Elected
    <2> QED  BY <2>3, <2>4 DEF e
  <1>6. CASE OtherCase(d, a, sd, e)
    <2>1. SameElection(d, e) /\ (e.type \in ReplicaSet => d.type \in ReplicaSet \cup {"Unknown"})
      BY <1>6 DEF OtherCase
    <2>2. d.type = "Unknown" => Primaries(d.sds) = {}
      BY DEF DescInv, Quiet, Primaries
    <2>3. Elected(e)
      BY <1>1, <1>6, <2>1, <2>2, OtherPrimaries DEF Elected, SameElection
    <2> QED  BY <1>2, <2>1, <2>3 DEF e
  <1> QED  BY <1>3, <1>4, <1>5, <1>6

-----------------------------------------------------------------------------
(* The invariant.                                                          *)

LEMMA InvImplies ==
    ASSUME DescInv(td)
    PROVE  /\ WellFormed(td) /\ OnePrimary /\ PrimaryTyped /\ Membership
  <1>1. WellFormed(td)
    BY DEF DescInv
  <1>2. td.type \in {"Single", "ReplicaSetNoPrimary", "ReplicaSetWithPrimary", "Sharded", "Unknown"}
    BY DEF DescInv, WellFormed, Quiet, TopologyTypes
  <1>3. td.type \in {"Sharded", "Unknown"} => Primaries(td.sds) = {}
    BY DEF DescInv, Quiet, Primaries
  <1>4. td.type \in ReplicaSet => \A p, q \in Primaries(td.sds) : p = q
    BY DEF DescInv, InSet, SetOf
  <1>5. OnePrimary
    BY <1>2, <1>3, <1>4 DEF OnePrimary, ReplicaSet
  <1>6. td.type = "ReplicaSetWithPrimary" <=> Primaries(td.sds) # {} /\ td.type # "Single"
    BY <1>2, <1>3 DEF DescInv, InSet, _check_has_primary, ReplicaSet
  <1>7. td.type = "ReplicaSetWithPrimary" => td.setName # NoName
    BY DEF DescInv, InSet, ReplicaSet
  <1>8. Homogeneous
    BY DEF Homogeneous, DescInv, Quiet, InSet, SetOf, Addresses
  <1>9. SameSet
    BY DEF SameSet, DescInv, InSet, SetOf, Addresses
  <1> QED  BY <1>1, <1>5, <1>6, <1>7, <1>8, <1>9 DEF PrimaryTyped, Membership

LEMMA InitInv == Init => DescInv(td)
  <1> SUFFICES ASSUME Init PROVE DescInv(td)
    OBVIOUS
  <1>1. /\ get_topology_type \in {"Single", "Unknown", "ReplicaSetNoPrimary"}
        /\ get_topology_type = "ReplicaSetNoPrimary" => ReplicaSetName # NoName
    BY DEF get_topology_type
  <1> QED  BY <1>1, InitialInv, SdamAssumption, Zenon DEF Init, InitialDescription

LEMMA NextInv == DescInv(td) /\ [Next]_vars => DescInv(td')
  <1> SUFFICES ASSUME DescInv(td), [Next]_vars PROVE DescInv(td')
    OBVIOUS
  <1>1. ASSUME NEW a, NEW sd, Reply(sd), ProcessChange(a, sd)
        PROVE  DescInv(td')
    BY <1>1, UpdatedInv DEF ProcessChange
  <1>2. ASSUME NEW a \in Address, NEW sd \in Hellos, CheckSucceeded(a, sd)
        PROVE  DescInv(td')
    <2>1. Reply(sd)
      BY <1>2, SdamAssumption DEF HelloReply, Reply
    <2> QED  BY <1>1, <1>2, <2>1 DEF CheckSucceeded
  <1>3. ASSUME NEW a \in Address, NEW tv \in ErrorVersions, CheckFailed(a, tv)
        PROVE  DescInv(td')
    <2>1. Reply(UnknownServer(tv))
      BY UnknownServerType, SdamAssumption DEF Reply, Members
    <2> QED  BY <1>1, <1>3, <2>1 DEF CheckFailed
  <1>4. ASSUME NEW seedlist \in SUBSET Address, SrvPolled(seedlist)
        PROVE  DescInv(td')
    BY <1>4, SrvUpdatedInv DEF SrvPolled
  <1>5. CASE Closed
    BY <1>5, ResetInv DEF Closed
  <1>6. CASE Forgotten
    BY <1>6, ForgottenInv, Zenon DEF Forgotten
  <1>7. CASE UNCHANGED vars
    BY <1>7 DEF vars
  <1> QED  BY <1>2, <1>3, <1>4, <1>5, <1>6, <1>7 DEF Next

IInv == DescInv(td) /\ phase \in {"open", "closed"}

LEMMA Inductive == (Init => IInv) /\ (IInv /\ [Next]_vars => IInv')
  <1>1. Init => IInv
    BY InitInv DEF IInv, Init
  <1>2. IInv /\ [Next]_vars => phase' \in {"open", "closed"}
    BY DEF IInv, Next, vars, CheckSucceeded, CheckFailed, SrvPolled, Closed, Forgotten
  <1>3. IInv /\ [Next]_vars => IInv'
    BY <1>2, NextInv DEF IInv
  <1> QED  BY <1>1, <1>3

LEMMA Invariance == Spec => []IInv
  BY Inductive, PTL DEF Spec

\* Whatever servers reply, however late, the description stays well formed.
THEOREM TypeCorrect == Spec => []TypeOK
  <1>1. IInv => TypeOK
    BY InvImplies DEF IInv, TypeOK
  <1> QED  BY Invariance, <1>1, PTL

\* updated_topology_description never leaves two primaries, for any number of
\* hosts: the loop of _update_rs_from_primary may stop at the first it finds.
THEOREM OnePrimaryCorrect == Spec => []OnePrimary
  <1>1. IInv => OnePrimary
    BY InvImplies DEF IInv
  <1> QED  BY Invariance, <1>1, PTL

\* The topology is a ReplicaSetWithPrimary exactly when it has a primary, and
\* then its set has a name, as _update_rs_with_primary_from_member asserts.
THEOREM PrimaryTypedCorrect == Spec => []PrimaryTyped
  <1>1. IInv => PrimaryTyped
    BY InvImplies DEF IInv
  <1> QED  BY Invariance, <1>1, PTL

\* No server of another kind, and no member of another set, stays.
THEOREM MembershipCorrect == Spec => []Membership
  <1>1. IInv => Membership
    BY InvImplies DEF IInv
  <1> QED  BY Invariance, <1>1, PTL

-----------------------------------------------------------------------------
(* The number of hosts.                                                    *)

\* A reply makes no Unknown or Sharded topology of a replica set, and gives it no
\* host that it did not have.
LEMMA UpdatedHosts ==
    ASSUME NEW d, WellFormed(d), NEW a \in Addresses(d), NEW sd,
           updated_topology_description(d, a, sd).type \in SRV_POLLING_TOPOLOGIES
    PROVE  /\ d.type \in SRV_POLLING_TOPOLOGIES
           /\ Addresses(updated_topology_description(d, a, sd)) \subseteq Addresses(d)
  <1> DEFINE t == IF d.type = "Unknown" THEN Discovered(d, sd) ELSE d.type
             new == [d EXCEPT !.type = t, !.sds[a] = sd]
             sds == IF Misplaced(t, sd) THEN Pop(new.sds, a) ELSE new.sds
             e == updated_topology_description(d, a, sd)
  <1>1. /\ Shaped(d) /\ Shaped(new) /\ new.type = t /\ new.sds = [d.sds EXCEPT ![a] = sd]
        /\ new.setName = d.setName
    BY DEF WellFormed, Shaped
  <1>2. DOMAIN new.sds = DOMAIN d.sds
    BY <1>1 DEF WellFormed
  <1>3. DOMAIN sds \subseteq DOMAIN d.sds
    BY <1>2 DEF Pop
  <1> HIDE DEF new, sds
  <1>4. \A x, y : Shaped(x) => WithServers(x, y).type \in ReplicaSet
    BY DEF Shaped, WithServers, _check_has_primary, ReplicaSet
  <1>5. d.type # "Single"
    BY DEF updated_topology_description, SRV_POLLING_TOPOLOGIES, WellFormed
  <1>6. ~(t \in ReplicaSet /\ sd.type = "RSPrimary")
    <2> SUFFICES ASSUME t \in ReplicaSet, sd.type = "RSPrimary" PROVE FALSE
      OBVIOUS
    <2>1. e = _update_rs_from_primary(new, a, sd)
      BY <1>5, Zenon DEF updated_topology_description, new
    <2> DEFINE named == Named(new, sd)
               later == [named EXCEPT !.maxElectionId = MaxElectionId(new, sd),
                                      !.maxSetVersion = MaxSetVersion(new, sd)]
    <2>2. Shaped(named)
      BY <1>1 DEF Named, Shaped
    <2> HIDE DEF named
    <2>3. Shaped(later)
      BY <2>2, Zenon DEF Shaped
    <2> HIDE DEF later
    <2>4. e.type \in ReplicaSet
      BY <1>1, <1>4, <2>1, <2>2, <2>3, Zenon DEF _update_rs_from_primary, named, later
    <2> QED  BY <2>4 DEF e, ReplicaSet, SRV_POLLING_TOPOLOGIES
  <1>7. ~(t = "ReplicaSetNoPrimary" /\ sd.type \in Members)
    <2> SUFFICES ASSUME t = "ReplicaSetNoPrimary", sd.type \in Members PROVE FALSE
      OBVIOUS
    <2>1. e = _update_rs_no_primary_from_member(new, a, sd)
      BY <1>5, <1>6, Zenon DEF updated_topology_description, new, Members
    <2>2. Shaped(Named(new, sd)) /\ Named(new, sd).type = t
      BY <1>1 DEF Named, Shaped
    <2>3. PICK y : e = WithSds(new, y) \/ e = WithSds(Named(new, sd), y)
      BY <2>1 DEF _update_rs_no_primary_from_member, WithSds
    <2> HIDE DEF t, e
    <2>4. e.type = t
      BY <1>1, <2>2, <2>3, ShapedSteps
    <2> QED  BY <2>4 DEF e, t, SRV_POLLING_TOPOLOGIES
  <1>8. t # "ReplicaSetWithPrimary"
    <2> SUFFICES ASSUME t = "ReplicaSetWithPrimary" PROVE FALSE
      OBVIOUS
    <2>1. e \in {_update_rs_with_primary_from_member(new, a, sd), WithServers(new, sds)}
      BY <1>5, <1>6, <1>7, Zenon DEF updated_topology_description, new, sds, ReplicaSet
    <2>2. e.type \in ReplicaSet
      BY <1>1, <1>4, <2>1, Zenon DEF _update_rs_with_primary_from_member
    <2> QED  BY <2>2 DEF e, ReplicaSet, SRV_POLLING_TOPOLOGIES
  <1>9. e = [new EXCEPT !.sds = sds]
    BY <1>5, <1>6, <1>7, <1>8, Zenon DEF updated_topology_description, new, sds
  <1>10. e.type = t /\ e.sds = sds
    BY <1>1, <1>9 DEF Shaped
  <1>11. d.type \in SRV_POLLING_TOPOLOGIES
    BY <1>10 DEF SRV_POLLING_TOPOLOGIES, e
  <1> QED  BY <1>3, <1>10, <1>11 DEF Addresses, e

\* An SRV poll adds no more hosts than there is room for.
LEMMA SrvUpdatedHosts ==
    ASSUME NEW d, WellFormed(d), NEW seedlist \in SUBSET Address, NEW r \in SrvUpdated(d, seedlist),
           SrvMaxHosts # 0, Cardinality(Addresses(d)) <= SrvMaxHosts
    PROVE  Cardinality(Addresses(r)) <= SrvMaxHosts
  <1>1. CASE r = d
    BY <1>1
  <1>2. CASE r # d
    <2> DEFINE kept == Keep(d.sds, seedlist)
               new == seedlist \ DOMAIN kept
               n == Min2(SrvMaxHosts - Cardinality(DOMAIN kept), Cardinality(new))
    <2>1. PICK S \in SrvAdditions(kept, seedlist) : r = WithSds(d, AddNew(kept, S))
      BY <1>2 DEF SrvUpdated, WithSds
    <2>2. DOMAIN kept \subseteq DOMAIN d.sds /\ DOMAIN d.sds \subseteq Address
      BY DEF Keep, WellFormed
    <2>3. /\ IsFiniteSet(DOMAIN d.sds) /\ IsFiniteSet(DOMAIN kept) /\ IsFiniteSet(new)
          /\ Cardinality(DOMAIN kept) <= Cardinality(DOMAIN d.sds)
      BY <2>2, FS_Subset, SdamAssumption
    <2>4. /\ Cardinality(DOMAIN kept) \in Nat /\ Cardinality(DOMAIN d.sds) \in Nat
          /\ Cardinality(new) \in Nat /\ SrvMaxHosts \in Nat
      BY <2>3, FS_CardinalityType, TDAssumption
    <2>5. SrvMaxHosts >= Cardinality(DOMAIN kept)
      BY <2>3, <2>4 DEF Addresses
    <2>6. S \subseteq new /\ Cardinality(S) = n
      BY <2>1, <2>5 DEF SrvAdditions
    <2>7. IsFiniteSet(S) /\ DOMAIN kept \cap S = {}
      BY <2>3, <2>6, FS_Subset
    <2>8. Cardinality(DOMAIN kept \cup S) = Cardinality(DOMAIN kept) + Cardinality(S)
      <3>1. Cardinality(DOMAIN kept \cap S) = 0
        BY <2>7, FS_EmptySet
      <3> HIDE DEF kept, new, n
      <3>2. Cardinality(DOMAIN kept \cup S)
              = Cardinality(DOMAIN kept) + Cardinality(S) - Cardinality(DOMAIN kept \cap S)
        BY <2>3, <2>7, FS_Union
      <3>3. Cardinality(S) \in Nat
        BY <2>7, FS_CardinalityType
      <3> QED  BY <2>4, <3>1, <3>2, <3>3
    <2>9. r.sds = AddNew(kept, S)
      BY <2>1, ShapedSteps DEF WellFormed, Shaped
    <2>10. Addresses(r) = DOMAIN kept \cup S
      BY <2>9 DEF Addresses, AddNew
    <2> HIDE DEF kept, new
    <2> QED  BY <2>4, <2>5, <2>6, <2>8, <2>10 DEF Min2
  <1> QED  BY <1>1, <1>2

LEMMA HostsStep == IInv /\ SrvHostsBound /\ [Next]_vars => SrvHostsBound'
  <1> SUFFICES ASSUME IInv, SrvHostsBound, [Next]_vars, SrvMaxHosts # 0,
                      td'.type \in SRV_POLLING_TOPOLOGIES
               PROVE  Cardinality(Addresses(td')) <= SrvMaxHosts
    BY DEF SrvHostsBound
  <1>1. WellFormed(td) /\ IsFiniteSet(Addresses(td))
    BY FS_Subset, SdamAssumption DEF IInv, DescInv, WellFormed, Addresses
  <1>2. \A S \in SUBSET Addresses(td) : td.type \in SRV_POLLING_TOPOLOGIES => Cardinality(S) <= SrvMaxHosts
    <2> TAKE S \in SUBSET Addresses(td)
    <2>1. /\ Cardinality(S) <= Cardinality(Addresses(td)) /\ Cardinality(S) \in Nat
          /\ Cardinality(Addresses(td)) \in Nat
      BY <1>1, FS_Subset, FS_CardinalityType
    <2> QED  BY <2>1, TDAssumption DEF SrvHostsBound
  <1>3. ASSUME NEW a, NEW sd, ProcessChange(a, sd)
        PROVE  Cardinality(Addresses(td')) <= SrvMaxHosts
    BY <1>1, <1>2, <1>3, UpdatedHosts DEF ProcessChange
  <1>4. ASSUME NEW seedlist \in SUBSET Address, SrvPolled(seedlist)
        PROVE  Cardinality(Addresses(td')) <= SrvMaxHosts
    BY <1>1, <1>2, <1>4, SrvUpdatedHosts DEF SrvPolled
  <1>5. CASE Closed
    <2>1. Shaped(td)
      BY <1>1 DEF WellFormed, Shaped
    <2>2. td.type \in SRV_POLLING_TOPOLOGIES /\ Addresses(td') = Addresses(td)
      BY <1>5, <2>1 DEF Closed, Reset, Shaped, Addresses, SRV_POLLING_TOPOLOGIES
    <2> QED  BY <1>2, <2>2
  <1>6. CASE Forgotten
    <2>1. Addresses(td') = {}
      BY <1>1, <1>6 DEF Forgotten, WellFormed, Addresses
    <2> QED  BY <2>1, FS_EmptySet, TDAssumption
  <1>7. CASE UNCHANGED vars
    BY <1>2, <1>7 DEF vars
  <1> QED  BY <1>3, <1>4, <1>5, <1>6, <1>7 DEF Next, CheckSucceeded, CheckFailed

\* SRV polling never takes more than srvMaxHosts mongoses, whatever the records
\* say, however often they change and whatever the hosts reply.
THEOREM SrvHostsCorrect == Spec => []SrvHostsBound
  <1>1. Init => SrvHostsBound
    BY SdamAssumption DEF Init, InitialDescription, SrvHostsBound, Addresses
  <1> QED  BY Invariance, <1>1, HostsStep, PTL DEF Spec

-----------------------------------------------------------------------------
(* What a step may never do.                                               *)

\* SRV polls and close change neither the elections nor a version.
LEMMA QuietSteps ==
    ASSUME DescInv(td),
           Closed \/ Forgotten \/ \E seedlist \in SUBSET Address : SrvPolled(seedlist)
    PROVE  /\ SameElection(td, td') /\ Elected(td')
           /\ \A a \in Addresses(td) \cap Addresses(td') :
                td'.sds[a].tv = td.sds[a].tv \/ td'.sds[a].tv = NoTopologyVersion
  <1>1. Shaped(td)
    BY DEF DescInv, WellFormed, Shaped
  <1>2. CASE Closed
    <2> DEFINE sds == [a \in Addresses(td) |-> NewServer]
               t == IF td.type = "ReplicaSetWithPrimary" THEN "ReplicaSetNoPrimary" ELSE td.type
    <2>1. td' = [td EXCEPT !.type = t, !.sds = sds]
      BY <1>2 DEF Closed, Reset
    <2>2. DOMAIN sds = Addresses(td) /\ \A a \in DOMAIN sds : sds[a] = NewServer
      OBVIOUS
    <2> HIDE DEF sds, t
    <2>3. td'.sds = sds /\ SameElection(td, td')
      BY <1>1, <2>1 DEF Shaped, SameElection
    <2>4. Primaries(sds) = {}
      BY <2>2 DEF Primaries, NewServer, UnknownServer
    <2> QED  BY <2>2, <2>3, <2>4 DEF Elected, Addresses, NewServer, UnknownServer
  <1>3. CASE Forgotten
    <2> DEFINE none == [a \in {} |-> NewServer]
    <2>1. td' = [td EXCEPT !.type = "Unknown", !.sds = none]
      BY <1>3 DEF Forgotten
    <2>2. DOMAIN none = {}
      OBVIOUS
    <2> HIDE DEF none
    <2>3. td'.sds = none /\ td'.type = "Unknown" /\ SameElection(td, td')
      BY <1>1, <2>1 DEF Shaped, SameElection
    <2> QED  BY <2>2, <2>3 DEF Elected, ReplicaSet, Addresses
  <1>4. ASSUME NEW seedlist \in SUBSET Address, SrvPolled(seedlist)
        PROVE  /\ SameElection(td, td') /\ Elected(td')
               /\ \A a \in Addresses(td) \cap Addresses(td') : td'.sds[a] = td.sds[a]
    <2>1. td.type \notin ReplicaSet
      BY <1>4 DEF SrvPolled, SRV_POLLING_TOPOLOGIES, ReplicaSet
    <2>2. CASE td' = td
      BY <2>1, <2>2 DEF SameElection, Elected
    <2>3. CASE td' # td
      <3> DEFINE kept == Keep(td.sds, seedlist)
      <3>1. PICK added \in SrvAdditions(kept, seedlist) : td' = WithSds(td, AddNew(kept, added))
        BY <1>4, <2>3 DEF SrvPolled, SrvUpdated, WithSds
      <3>2. added \subseteq seedlist \ DOMAIN kept
        BY <3>1 DEF SrvAdditions
      <3>3. td'.sds = AddNew(kept, added) /\ td'.type = td.type /\ SameElection(td, td')
        BY <1>1, <3>1, ShapedSteps
      <3>4. \A a \in DOMAIN td.sds \cap DOMAIN AddNew(kept, added) : AddNew(kept, added)[a] = td.sds[a]
        BY <3>2 DEF AddNew, Keep
      <3> QED  BY <2>1, <3>3, <3>4 DEF Elected, Addresses
    <2> QED  BY <2>2, <2>3
  <1> QED  BY <1>2, <1>3, <1>4

\* Every step is one of those, or handles a reply.
LEMMA Steps ==
    ASSUME [Next]_vars
    PROVE  \/ Closed \/ Forgotten \/ (\E seedlist \in SUBSET Address : SrvPolled(seedlist))
           \/ \E a \in Address : \E sd : /\ ProcessChange(a, sd) /\ Reply(sd)
                                         /\ sd \in Hellos \/ sd.type = "Unknown"
           \/ UNCHANGED td
  <1>1. ASSUME NEW a \in Address, NEW sd \in Hellos, CheckSucceeded(a, sd)
        PROVE  ProcessChange(a, sd) /\ Reply(sd)
    BY <1>1, SdamAssumption DEF CheckSucceeded, HelloReply, Reply
  <1>2. ASSUME NEW a \in Address, NEW tv \in ErrorVersions, CheckFailed(a, tv)
        PROVE  /\ ProcessChange(a, UnknownServer(tv)) /\ Reply(UnknownServer(tv))
               /\ UnknownServer(tv).type = "Unknown"
    BY <1>2, UnknownServerType, SdamAssumption DEF CheckFailed, Reply, Members
  <1>3. CASE UNCHANGED vars
    BY <1>3 DEF vars
  <1>4. CASE Next
    BY <1>1, <1>2, <1>4 DEF Next
  <1> QED  BY <1>3, <1>4

Newer(d, e) == ~Before(<<e.maxElectionId, e.maxSetVersion>>, <<d.maxElectionId, d.maxSetVersion>>)

\* All servers have wire version 17 or later.
Wire17 == \A sd \in Hellos : sd.wire17 = "yes"
EInv == IInv /\ (Wire17 => Elected(td))

LEMMA ElectionStep == EInv /\ [Next]_vars => (Wire17 => Elected(td') /\ Newer(td, td'))
  <1> SUFFICES ASSUME EInv, [Next]_vars, Wire17 PROVE Elected(td') /\ Newer(td, td')
    OBVIOUS
  <1>1. DescInv(td) /\ Elected(td) /\ td.maxElectionId \in Nat /\ td.maxSetVersion \in Nat
    BY DEF EInv, IInv, DescInv, WellFormed
  <1>2. SameElection(td, td') => Newer(td, td')
    BY <1>1 DEF SameElection, Newer, Before
  <1>3. CASE Closed \/ Forgotten \/ \E seedlist \in SUBSET Address : SrvPolled(seedlist)
    BY <1>1, <1>2, <1>3, QuietSteps
  <1>4. ASSUME NEW a \in Address, NEW sd, ProcessChange(a, sd), Reply(sd), sd \in Hellos \/ sd.type = "Unknown"
        PROVE  Elected(td') /\ Newer(td, td')
    <2>1. a \in Addresses(td) /\ td' = updated_topology_description(td, a, sd)
      BY <1>4 DEF ProcessChange
    <2>2. sd.type = "RSPrimary" => sd.wire17 = "yes"
      BY <1>4 DEF Wire17
    <2> QED  BY <1>1, <1>4, <2>1, <2>2, UpdatedElections DEF Newer
  <1>5. CASE UNCHANGED td
    BY <1>1, <1>2, <1>5 DEF SameElection
  <1> QED  BY <1>3, <1>4, <1>5, Steps

\* (electionId, setVersion) never goes back and the primary in the description
\* is the newest heard of, for any number of hosts, primaries and elections: no
\* late reply of a deposed primary displaces its successor.
THEOREM ElectionsCorrect == Spec => ElectionsForward
  <1>1. Init => EInv
    <2> SUFFICES ASSUME Init PROVE IInv /\ Elected(td)
      BY DEF EInv
    <2>1. IInv
      BY Inductive
    <2>2. td.sds = [a \in Seeds |-> NewServer]
      BY DEF Init, InitialDescription
    <2>3. Primaries(td.sds) = {}
      BY <2>2 DEF Primaries, NewServer, UnknownServer
    <2> QED  BY <2>1, <2>3 DEF Elected
  <1>2. EInv /\ [Next]_vars => EInv'
    <2>1. Wire17' = Wire17
      BY DEF Wire17
    <2> QED  BY <2>1, Inductive, ElectionStep DEF EInv
  <1>3. EInv /\ [Next]_vars =>
          [Wire17 =>
             /\ ~Before(<<td'.maxElectionId, td'.maxSetVersion>>, <<td.maxElectionId, td.maxSetVersion>>)
             /\ td'.type \in ReplicaSet => \A a \in Primaries(td'.sds) :
                  <<td'.sds[a].electionId, td'.sds[a].setVersion>> = <<td'.maxElectionId, td'.maxSetVersion>>]_td
    BY ElectionStep DEF Elected, Newer
  <1> QED  BY <1>1, <1>2, <1>3, PTL DEF Spec, ElectionsForward, Wire17

\* What is known of one server process never gets older, whichever replies and
\* errors overtake each other.
THEOREM VersionsCorrect == Spec => TopologyVersionsForward
  <1> DEFINE Forward(old, new) == old.process # None /\ old.process = new.process => new.counter >= old.counter
  <1>1. IInv /\ [Next]_vars =>
          [\A a \in Addresses(td) \cap Addresses(td') : Forward(td.sds[a].tv, td'.sds[a].tv)]_td
    <2> SUFFICES ASSUME IInv, [Next]_vars, NEW b \in Addresses(td) \cap Addresses(td')
                 PROVE  Forward(td.sds[b].tv, td'.sds[b].tv)
      OBVIOUS
    <2>1. DescInv(td) /\ \A c \in Addresses(td) : td.sds[c].tv \in [process : Nat, counter : Nat]
      BY DEF IInv, DescInv, WellFormed, Addresses, ServerDescriptions
    <2>2. \A tv \in [process : Nat, counter : Nat] : Forward(tv, tv) /\ Forward(tv, NoTopologyVersion)
      BY DEF NoTopologyVersion, None
    <2>3. CASE Closed \/ Forgotten \/ \E seedlist \in SUBSET Address : SrvPolled(seedlist)
      <3>1. td'.sds[b].tv = td.sds[b].tv \/ td'.sds[b].tv = NoTopologyVersion
        BY <2>1, <2>3, QuietSteps
      <3> QED  BY <2>1, <2>2, <3>1
    <2>4. ASSUME NEW a \in Address, NEW sd, ProcessChange(a, sd), Reply(sd)
          PROVE  Forward(td.sds[b].tv, td'.sds[b].tv)
      <3>1. /\ a \in Addresses(td) /\ td' = updated_topology_description(td, a, sd)
            /\ ~_is_stale_server_description(td.sds[a], sd)
        BY <2>4 DEF ProcessChange
      <3>2. td'.sds[b].tv = IF b = a THEN sd.tv ELSE td.sds[b].tv
        BY <2>1, <3>1, UpdatedVersions
      <3>3. sd.tv \in [process : Nat, counter : Nat]
        BY <2>4 DEF Reply, ServerDescriptions
      <3>4. Forward(td.sds[a].tv, sd.tv)
        BY <2>1, <3>1, <3>3 DEF _is_stale_server_description, NoTopologyVersion, None
      <3> QED  BY <2>1, <2>2, <3>2, <3>4
    <2>5. CASE UNCHANGED td
      BY <2>1, <2>2, <2>5
    <2> QED  BY <2>3, <2>4, <2>5, Steps
  <1> QED  BY Invariance, <1>1, PTL DEF Spec, TopologyVersionsForward
=============================================================================
