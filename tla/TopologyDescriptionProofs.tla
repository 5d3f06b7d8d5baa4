--------------------- MODULE TopologyDescriptionProofs ----------------------
(***************************************************************************)
(* Lemmas about topology descriptions as values: every operation of        *)
(* topology_description.py keeps DescInv, for any hosts, any set names and *)
(* any reply.  SdamProofs and TopologyProofs rest on them.                 *)
(***************************************************************************)
EXTENDS TopologyDescription, TLAPS

-----------------------------------------------------------------------------
(* The dict operations.                                                    *)

Sds(sds) == DOMAIN sds \subseteq Address /\ sds \in [DOMAIN sds -> ServerDescriptions]

\* Facts about the servers of a replica set called name.
SetOf(sds, name) ==
    /\ \A p, q \in Primaries(sds) : p = q
    /\ \A a \in DOMAIN sds :
         /\ sds[a].type \notin {"Mongos", "Standalone"}
         /\ sds[a].type \in Members \cup {"RSPrimary"} => sds[a].setName = name

LEMMA UnknownServerType ==
    ASSUME NEW tv \in [process : Nat, counter : Nat]
    PROVE  UnknownServer(tv) \in ServerDescriptions /\ UnknownServer(tv).type = "Unknown"
  BY DEF UnknownServer, ServerDescriptions, ServerTypes, None

LEMMA NewServerType == NewServer \in ServerDescriptions /\ NewServer.type = "Unknown"
  BY UnknownServerType DEF NewServer, NoTopologyVersion, None

LEMMA ToUnknownType ==
    ASSUME NEW sd \in ServerDescriptions
    PROVE  ToUnknown(sd) \in ServerDescriptions /\ ToUnknown(sd).type = "Unknown"
  BY UnknownServerType DEF ToUnknown, ServerDescriptions

LEMMA PopSds ==
    ASSUME NEW sds, Sds(sds), NEW a
    PROVE  /\ Sds(Pop(sds, a))
           /\ \A name : SetOf(sds, name) => SetOf(Pop(sds, a), name)
  BY DEF Sds, Pop, SetOf, Primaries

LEMMA KeepSds ==
    ASSUME NEW sds, Sds(sds), NEW S
    PROVE  /\ Sds(Keep(sds, S))
           /\ \A name : SetOf(sds, name) => SetOf(Keep(sds, S), name)
  BY DEF Sds, Keep, SetOf, Primaries

LEMMA AddNewSds ==
    ASSUME NEW sds, Sds(sds), NEW S \in SUBSET Address
    PROVE  /\ Sds(AddNew(sds, S))
           /\ \A name : SetOf(sds, name) => SetOf(AddNew(sds, S), name)
           /\ Primaries(AddNew(sds, S)) = Primaries(sds)
  BY NewServerType DEF Sds, AddNew, SetOf, Primaries, Members

LEMMA ReplaceSds ==
    ASSUME NEW sds, Sds(sds), NEW a \in DOMAIN sds, NEW sd \in ServerDescriptions
    PROVE  /\ Sds([sds EXCEPT ![a] = sd])
           /\ DOMAIN [sds EXCEPT ![a] = sd] = DOMAIN sds
           /\ sd.type # "RSPrimary" =>
                Primaries([sds EXCEPT ![a] = sd]) = Primaries(sds) \ {a}
           /\ sd.type = "RSPrimary" =>
                Primaries([sds EXCEPT ![a] = sd]) = Primaries(sds) \cup {a}
  BY DEF Sds, Primaries

LEMMA ReplaceMember ==
    ASSUME NEW sds, Sds(sds), NEW a \in DOMAIN sds, NEW sd \in ServerDescriptions,
           NEW name, SetOf(sds, name), sd.type \notin {"RSPrimary", "Mongos", "Standalone"},
           sd.type \in Members => sd.setName = name
    PROVE  SetOf([sds EXCEPT ![a] = sd], name)
  BY DEF Sds, SetOf, Primaries, Members

LEMMA PopReplaced ==
    ASSUME NEW sds, NEW a \in DOMAIN sds, NEW sd
    PROVE  Pop([sds EXCEPT ![a] = sd], a) = Pop(sds, a)
  BY DEF Pop

-----------------------------------------------------------------------------
(* A new primary: whoever was primary before is reset, so that one is left. *)

LEMMA ResetOldPrimarySet ==
    ASSUME NEW sds, Sds(sds), NEW name, SetOf(sds, name), NEW a \in DOMAIN sds,
           NEW sd \in ServerDescriptions, sd.type = "RSPrimary", sd.setName = name
    PROVE  LET new == ResetOldPrimary([sds EXCEPT ![a] = sd], a)
           IN  Sds(new) /\ SetOf(new, name)
  <1> DEFINE put == [sds EXCEPT ![a] = sd]
             old == CHOOSE b \in Primaries(put) \ {a} : TRUE
  <1>1. Sds(put) /\ DOMAIN put = DOMAIN sds /\ Primaries(put) = Primaries(sds) \cup {a}
    BY ReplaceSds, Zenon
  <1>2. \A b \in DOMAIN sds :
          /\ put[b].type \notin {"Mongos", "Standalone"}
          /\ put[b].type \in Members \cup {"RSPrimary"} => put[b].setName = name
    BY DEF SetOf, Sds
  <1>3. \A p, q \in Primaries(sds) : p = q
    BY DEF SetOf
  <1>4. CASE Primaries(put) \ {a} = {}
    <2>1. ResetOldPrimary(put, a) = put
      BY <1>4 DEF ResetOldPrimary
    <2>2. SetOf(put, name)
      BY <1>1, <1>2, <1>4, Zenon DEF SetOf
    <2> QED  BY <1>1, <2>1, <2>2
  <1>5. CASE Primaries(put) \ {a} # {}
    <2>1. old \in Primaries(put) \ {a}
      BY <1>5, Zenon
    <2>2. old \in DOMAIN put /\ put[old] \in ServerDescriptions
      BY <1>1, <2>1 DEF Primaries, Sds
    <2>3. ToUnknown(put[old]) \in ServerDescriptions /\ ToUnknown(put[old]).type = "Unknown"
      BY <2>2, ToUnknownType, Zenon
    <2> DEFINE new == [put EXCEPT ![old] = ToUnknown(put[old])]
    <2>4. ResetOldPrimary(put, a) = new
      BY <1>5, Zenon DEF ResetOldPrimary
    <2>5. Sds(new) /\ DOMAIN new = DOMAIN put /\ Primaries(new) = Primaries(put) \ {old}
      BY <1>1, <2>2, <2>3, ReplaceSds, ZenonT(30)
    <2>6. \A p, q \in Primaries(new) : p = q
      BY <1>1, <1>3, <2>1, <2>5, Zenon
    <2>7. \A b \in DOMAIN new :
            /\ new[b].type \notin {"Mongos", "Standalone"}
            /\ new[b].type \in Members \cup {"RSPrimary"} => new[b].setName = name
      BY <1>1, <1>2, <2>2, <2>3, <2>5, Zenon DEF Members
    <2>8. SetOf(new, name)
      BY <2>6, <2>7, Zenon DEF SetOf
    <2> QED  BY <2>4, <2>5, <2>8
  <1> QED  BY <1>4, <1>5, Zenon

-----------------------------------------------------------------------------
(* The invariant, as a predicate on descriptions.                          *)

Quiet(d) ==
    /\ d.type # "LoadBalanced"
    /\ d.type = "Sharded" =>
         \A a \in DOMAIN d.sds : d.sds[a].type \in {"Mongos", "Unknown", "RSGhost"}
    /\ d.type = "Unknown" =>
         \A a \in DOMAIN d.sds : d.sds[a].type \in {"Unknown", "RSGhost"}

InSet(d) ==
    d.type \in ReplicaSet =>
       /\ SetOf(d.sds, d.setName)
       /\ d.setName # NoName
       /\ d.type = _check_has_primary(d.sds)

DescInv(d) == WellFormed(d) /\ Quiet(d) /\ InSet(d)

LEMMA WithServersInv ==
    ASSUME NEW d, WellFormed(d), NEW sds, Sds(sds), SetOf(sds, d.setName), d.setName # NoName
    PROVE  DescInv(WithServers(d, sds))
  <1>1. _check_has_primary(sds) \in ReplicaSet
    BY DEF _check_has_primary, ReplicaSet
  <1>2. WellFormed(WithServers(d, sds))
    BY <1>1, Zenon DEF WellFormed, WithServers, Sds, TopologyTypes, ReplicaSet
  <1>3. /\ WithServers(d, sds).sds = sds /\ WithServers(d, sds).setName = d.setName
        /\ WithServers(d, sds).type = _check_has_primary(sds)
    BY DEF WithServers, WellFormed
  <1> QED  BY <1>1, <1>2, <1>3 DEF DescInv, Quiet, InSet, ReplicaSet

-----------------------------------------------------------------------------
(* One lemma for each way a reply is handled.  The servers that the new    *)
(* reply is put among already form one set, called name.                   *)

LEMMA FromPrimaryInv ==
    ASSUME NEW d, WellFormed(d), NEW sds, Sds(sds), NEW a \in DOMAIN sds,
           NEW sd \in ServerDescriptions, d.sds = [sds EXCEPT ![a] = sd],
           sd.type = "RSPrimary", sd.setName \in SetName,
           SetOf(sds, IF d.setName = NoName THEN sd.setName ELSE d.setName)
    PROVE  DescInv(_update_rs_from_primary(d, a, sd))
  <1> DEFINE named == Named(d, sd)
             maxed == [named EXCEPT !.maxElectionId = MaxElectionId(d, sd),
                                    !.maxSetVersion = MaxSetVersion(d, sd)]
             kept == Keep(AddNew(ResetOldPrimary(d.sds, a), sd.hosts), sd.hosts)
  <1>0. sd.setName # NoName
    BY TDAssumption
  <1>1. CASE d.setName \notin {NoName, sd.setName}
    <2>1. Sds(Pop(d.sds, a)) /\ SetOf(Pop(d.sds, a), d.setName)
      BY <1>1, PopReplaced, PopSds
    <2>2. DescInv(WithServers(d, Pop(d.sds, a)))
      BY <1>1, <2>1, WithServersInv
    <2> QED  BY <1>1, <2>2 DEF _update_rs_from_primary
  <1>2. CASE d.setName \in {NoName, sd.setName} /\ StalePrimary(d, sd)
    <2>1. ToUnknown(sd) \in ServerDescriptions /\ ToUnknown(sd).type = "Unknown"
      BY ToUnknownType, SMTT(30)
    <2>2. [d.sds EXCEPT ![a] = ToUnknown(sd)] = [sds EXCEPT ![a] = ToUnknown(sd)]
      BY Zenon
    <2>3. SetOf(sds, sd.setName)
      BY <1>2, SMTT(30)
    <2>4. /\ Sds([d.sds EXCEPT ![a] = ToUnknown(sd)])
          /\ SetOf([d.sds EXCEPT ![a] = ToUnknown(sd)], sd.setName)
      BY <2>1, <2>2, <2>3, ReplaceSds, ReplaceMember, ZenonT(30) DEF Members
    <2>5. WellFormed(named) /\ named.setName = sd.setName
      BY DEF WellFormed, Named
    <2>6. DescInv(WithServers(named, [d.sds EXCEPT ![a] = ToUnknown(sd)]))
      BY <1>0, <2>4, <2>5, WithServersInv, Zenon
    <2> QED  BY <1>2, <2>6, Zenon DEF _update_rs_from_primary
  <1>3. CASE d.setName \in {NoName, sd.setName} /\ ~StalePrimary(d, sd)
    <2>1. SetOf(sds, sd.setName)
      BY <1>3
    <2>2. Sds(ResetOldPrimary(d.sds, a)) /\ SetOf(ResetOldPrimary(d.sds, a), sd.setName)
      BY <2>1, ResetOldPrimarySet
    <2>3. sd.hosts \in SUBSET Address
      BY DEF ServerDescriptions
    <2>4. /\ Sds(AddNew(ResetOldPrimary(d.sds, a), sd.hosts))
          /\ SetOf(AddNew(ResetOldPrimary(d.sds, a), sd.hosts), sd.setName)
      BY <2>2, <2>3, AddNewSds
    <2>5. Sds(kept) /\ SetOf(kept, sd.setName)
      BY <2>4, KeepSds
    <2>6. MaxElectionId(d, sd) \in Nat /\ MaxSetVersion(d, sd) \in Nat
      BY DEF MaxElectionId, MaxSetVersion, WellFormed, ServerDescriptions
    <2>7. WellFormed(maxed) /\ maxed.setName = sd.setName
      BY <2>6, Zenon DEF WellFormed, Named
    <2>8. DescInv(WithServers(maxed, kept))
      BY <1>0, <2>5, <2>7, WithServersInv, Zenon
    <2> QED  BY <1>3, <2>8 DEF _update_rs_from_primary
  <1> QED  BY <1>1, <1>2, <1>3

LEMMA WithPrimaryFromMemberInv ==
    ASSUME NEW d, WellFormed(d), NEW sds, Sds(sds), NEW a \in DOMAIN sds,
           NEW sd \in ServerDescriptions, d.sds = [sds EXCEPT ![a] = sd],
           sd.type \in Members, d.setName # NoName, SetOf(sds, d.setName)
    PROVE  DescInv(_update_rs_with_primary_from_member(d, a, sd))
  <1>1. Sds(Pop(d.sds, a)) /\ SetOf(Pop(d.sds, a), d.setName)
    BY PopReplaced, PopSds
  <1>2. Sds(d.sds)
    BY ReplaceSds
  <1>3. sd.setName = d.setName => SetOf(d.sds, d.setName)
    BY ReplaceMember DEF Members
  <1>4. DescInv(WithServers(d, Pop(d.sds, a)))
    BY <1>1, WithServersInv
  <1>5. sd.setName = d.setName => DescInv(WithServers(d, d.sds))
    BY <1>2, <1>3, WithServersInv
  <1> QED  BY <1>4, <1>5 DEF _update_rs_with_primary_from_member

LEMMA NoPrimaryFromMemberInv ==
    ASSUME NEW d, WellFormed(d), NEW sds, Sds(sds), NEW a \in DOMAIN sds,
           NEW sd \in ServerDescriptions, d.sds = [sds EXCEPT ![a] = sd],
           sd.type \in Members, sd.setName \in SetName,
           d.type = "ReplicaSetNoPrimary", Primaries(sds) = {},
           SetOf(sds, IF d.setName = NoName THEN sd.setName ELSE d.setName)
    PROVE  DescInv(_update_rs_no_primary_from_member(d, a, sd))
  <1> DEFINE added == AddNew(d.sds, sd.hosts)
             name == IF d.setName = NoName THEN sd.setName ELSE d.setName
  <1>0. name # NoName /\ name \in SetName \cup {NoName}
    BY TDAssumption DEF WellFormed
  <1>1. Sds(d.sds) /\ Primaries(d.sds) = {}
    <2>1. sd.type # "RSPrimary"
      BY DEF Members
    <2>2. Sds([sds EXCEPT ![a] = sd]) /\ Primaries([sds EXCEPT ![a] = sd]) = Primaries(sds) \ {a}
      BY <2>1, ReplaceSds, Zenon
    <2> QED  BY <2>2, Zenon
  <1>2. ASSUME NEW new, Sds(new), SetOf(new, name), Primaries(new) = {}
        PROVE  DescInv([d EXCEPT !.setName = name, !.sds = new])
    <2> DEFINE r == [d EXCEPT !.setName = name, !.sds = new]
    <2>1. r.type = "ReplicaSetNoPrimary" /\ r.sds = new /\ r.setName = name
      BY DEF WellFormed
    <2>2. WellFormed(r)
      BY <1>0, <1>2, Zenon DEF WellFormed, Sds
    <2>3. Quiet(r) /\ InSet(r)
      BY <1>0, <1>2, <2>1 DEF Quiet, InSet, _check_has_primary
    <2> QED  BY <2>2, <2>3 DEF DescInv
  <1>3. CASE d.setName \notin {NoName, sd.setName}
    <2>1. Sds(Pop(d.sds, a)) /\ SetOf(Pop(d.sds, a), name)
      BY PopReplaced, PopSds
    <2>2. Primaries(Pop(d.sds, a)) = {}
      BY <1>1 DEF Primaries, Pop
    <2>3. DescInv([d EXCEPT !.setName = name, !.sds = Pop(d.sds, a)])
      BY <1>2, <2>1, <2>2, Zenon
    <2>4. [d EXCEPT !.setName = name, !.sds = Pop(d.sds, a)] = [d EXCEPT !.sds = Pop(d.sds, a)]
      BY <1>3, Zenon DEF WellFormed
    <2> QED  BY <1>3, <2>3, <2>4 DEF _update_rs_no_primary_from_member
  <1>4. CASE d.setName \in {NoName, sd.setName}
    <2>0. name = sd.setName
      BY <1>4
    <2>1. SetOf(d.sds, name)
      BY <2>0, ReplaceMember DEF Members
    <2>2. Sds(added) /\ SetOf(added, name) /\ Primaries(added) = {}
      BY <1>1, <2>1, AddNewSds, ZenonT(30) DEF ServerDescriptions
    <2>3. Sds(Pop(added, a)) /\ SetOf(Pop(added, a), name)
      BY <2>2, PopSds
    <2>4. Primaries(Pop(added, a)) = {}
      BY <2>2, Zenon DEF Primaries, Pop
    <2>5. /\ DescInv([d EXCEPT !.setName = name, !.sds = added])
          /\ DescInv([d EXCEPT !.setName = name, !.sds = Pop(added, a)])
      BY <1>2, <2>2, <2>3, <2>4, Zenon
    <2> QED  BY <1>4, <2>0, <2>5, Zenon DEF _update_rs_no_primary_from_member, Named
  <1> QED  BY <1>3, <1>4

-----------------------------------------------------------------------------
(* Every reply, and every failed check.                                    *)

\* What ProcessChange is given.
Reply(sd) ==
    /\ sd \in ServerDescriptions
    /\ sd.type \notin {"LoadBalancer"}
    /\ sd.type \in Members \cup {"RSPrimary"} => sd.setName \in SetName

LEMMA UpdatedInv ==
    ASSUME NEW d, DescInv(d), NEW a \in Addresses(d), NEW sd, Reply(sd)
    PROVE  DescInv(updated_topology_description(d, a, sd))
  <1> DEFINE t == IF d.type = "Unknown" THEN Discovered(d, sd) ELSE d.type
             new == [d EXCEPT !.type = t, !.sds[a] = sd]
             put == [d.sds EXCEPT ![a] = sd]
             result == updated_topology_description(d, a, sd)
             sds == IF Misplaced(t, sd) THEN Pop(new.sds, a) ELSE new.sds
  <1>0. /\ WellFormed(d) /\ Sds(d.sds) /\ a \in DOMAIN d.sds /\ sd \in ServerDescriptions
        /\ Sds(put) /\ DOMAIN put = DOMAIN d.sds
    BY ReplaceSds DEF DescInv, WellFormed, Sds, Addresses, Reply
  <1>1. t \in TopologyTypes /\ t # "LoadBalanced"
    BY <1>0 DEF Discovered, WellFormed, TopologyTypes, DescInv, Quiet
  <1>2. /\ WellFormed(new) /\ new.type = t /\ new.sds = put
        /\ new.setName = d.setName
    BY <1>0, <1>1, Zenon DEF WellFormed, Sds
  <1>3. \A name : d.type = "Unknown" => SetOf(d.sds, name) /\ Primaries(d.sds) = {}
    BY DEF DescInv, Quiet, SetOf, Primaries, Members
  <1>4. t \in ReplicaSet /\ d.type # "Unknown" =>
          d.type = t /\ SetOf(d.sds, d.setName) /\ d.setName # NoName
                     /\ t = _check_has_primary(d.sds)
    BY DEF DescInv, InSet
  <1>5. CASE d.type = "Single"
    <2>1. SingleServer(d, sd) \in ServerDescriptions
      BY <1>0, ToUnknownType DEF SingleServer
    <2>2. result = [d EXCEPT !.sds[a] = SingleServer(d, sd)]
      BY <1>5 DEF updated_topology_description
    <2>3. WellFormed(result) /\ result.type = "Single"
      BY <1>0, <1>5, <2>1, <2>2 DEF WellFormed, Sds
    <2> QED  BY <2>3 DEF DescInv, Quiet, InSet, ReplicaSet
  <1>6. CASE d.type # "Single" /\ t \in ReplicaSet /\ sd.type = "RSPrimary"
    <2>1. SetOf(d.sds, IF new.setName = NoName THEN sd.setName ELSE new.setName)
      BY <1>2, <1>3, <1>4, <1>6
    <2>2. sd.setName \in SetName
      BY <1>6 DEF Reply
    <2>3. DescInv(_update_rs_from_primary(new, a, sd))
      BY <1>0, <1>2, <1>6, <2>1, <2>2, FromPrimaryInv, Zenon
    <2> QED  BY <1>6, <2>3 DEF updated_topology_description
  <1>7. CASE d.type # "Single" /\ t = "ReplicaSetNoPrimary" /\ sd.type \in Members
    <2>1. SetOf(d.sds, IF new.setName = NoName THEN sd.setName ELSE new.setName)
      BY <1>2, <1>3, <1>4, <1>7 DEF ReplicaSet
    <2>2. sd.setName \in SetName
      BY <1>7 DEF Reply
    <2>3. Primaries(d.sds) = {}
      BY <1>3, <1>4, <1>7 DEF ReplicaSet, _check_has_primary
    <2>4. DescInv(_update_rs_no_primary_from_member(new, a, sd))
      BY <1>0, <1>2, <1>7, <2>1, <2>2, <2>3, NoPrimaryFromMemberInv, Zenon
    <2>5. sd.type # "RSPrimary"
      BY <1>7 DEF Members
    <2> QED  BY <1>7, <2>4, <2>5 DEF updated_topology_description
  <1>8. CASE d.type # "Single" /\ t = "ReplicaSetWithPrimary" /\ sd.type \in Members
    <2>1. sd.type # "RSPrimary"
      BY <1>8 DEF Members
    <2>2. d.type # "Unknown"
      BY <1>8, <2>1 DEF Discovered, Members
    <2>3. SetOf(d.sds, new.setName) /\ new.setName # NoName
      BY <1>2, <1>4, <1>8, <2>2 DEF ReplicaSet
    <2>4. DescInv(_update_rs_with_primary_from_member(new, a, sd))
      BY <1>0, <1>2, <1>8, <2>3, WithPrimaryFromMemberInv, Zenon
    <2> QED  BY <1>8, <2>1, <2>4 DEF updated_topology_description
  <1>9. CASE d.type # "Single" /\ t = "ReplicaSetWithPrimary" /\ sd.type \notin Members \cup {"RSPrimary"}
    <2>1. d.type # "Unknown"
      BY <1>9 DEF Discovered
    <2>2. SetOf(d.sds, new.setName) /\ new.setName # NoName
      BY <1>2, <1>4, <1>9, <2>1 DEF ReplicaSet
    <2>3. Sds(Pop(put, a)) /\ SetOf(Pop(put, a), new.setName)
      BY <1>0, <2>2, PopReplaced, PopSds
    <2>4. ~Misplaced(t, sd) => SetOf(put, new.setName)
      <3>1. ~Misplaced(t, sd) => sd.type \notin {"RSPrimary", "Mongos", "Standalone"}
        BY <1>9 DEF Misplaced, ReplicaSet
      <3> QED  BY <1>0, <1>9, <2>2, <3>1, ReplaceMember
    <2>5. Sds(sds) /\ SetOf(sds, new.setName)
      BY <1>0, <1>2, <2>3, <2>4
    <2>6. DescInv(WithServers(new, sds))
      <3> HIDE DEF sds, new
      <3> QED  BY <1>2, <2>2, <2>5, WithServersInv
    <2> QED  BY <1>9, <2>6 DEF updated_topology_description, ReplicaSet
  <1>10. CASE d.type # "Single" /\ t = "ReplicaSetNoPrimary" /\ sd.type \notin Members \cup {"RSPrimary"}
    <2>1. d.type # "Unknown"
      BY <1>10 DEF Discovered
    <2>2. SetOf(d.sds, d.setName) /\ d.setName # NoName /\ Primaries(d.sds) = {}
      BY <1>4, <1>10, <2>1 DEF ReplicaSet, _check_has_primary
    <2>3. Sds(Pop(put, a)) /\ SetOf(Pop(put, a), d.setName)
      BY <1>0, <2>2, PopReplaced, PopSds
    <2>4. ~Misplaced(t, sd) => SetOf(put, d.setName)
      <3>1. ~Misplaced(t, sd) => sd.type \notin {"RSPrimary", "Mongos", "Standalone"}
        BY <1>10 DEF Misplaced, ReplicaSet
      <3> QED  BY <1>0, <1>10, <2>2, <3>1, ReplaceMember
    <2>5. Primaries(put) = {}
      BY <1>0, <1>10, <2>2, ReplaceSds
    <2>6. Primaries(Pop(put, a)) = {}
      BY <2>5 DEF Primaries, Pop
    <2>7. Sds(sds) /\ SetOf(sds, d.setName) /\ Primaries(sds) = {}
      BY <1>0, <1>2, <2>3, <2>4, <2>5, <2>6
    <2>8. result = [new EXCEPT !.sds = sds]
      BY <1>10 DEF updated_topology_description
    <2> HIDE DEF sds, new, t
    <2>9. WellFormed(result) /\ result.type = "ReplicaSetNoPrimary"
          /\ result.sds = sds /\ result.setName = d.setName
      BY <1>2, <1>10, <2>7, <2>8 DEF WellFormed, Sds
    <2> QED  BY <2>2, <2>7, <2>9 DEF DescInv, Quiet, InSet, _check_has_primary
  <1>11. CASE d.type # "Single" /\ t \notin ReplicaSet
    <2>1. result = [new EXCEPT !.sds = sds]
      BY <1>11 DEF updated_topology_description, ReplicaSet
    <2>2. Sds(Pop(put, a))
      BY <1>0, PopSds
    <2>3. Sds(sds)
      BY <1>0, <1>2, <2>2
    <2>4. \A b \in DOMAIN sds : b \in DOMAIN d.sds /\ sds[b] = IF b = a THEN sd ELSE d.sds[b]
      BY <1>0, <1>2 DEF Pop
    <2>5. Misplaced(t, sd) => a \notin DOMAIN sds
      BY <1>2 DEF Pop
    <2>6. t = "Sharded" => \A b \in DOMAIN sds : sds[b].type \in {"Mongos", "Unknown", "RSGhost"}
      <3>1. t = "Sharded" => d.type \in {"Sharded", "Unknown"}
        BY DEF Discovered
      <3>2. t = "Sharded" /\ ~Misplaced(t, sd) => sd.type \in {"Mongos", "Unknown"}
        BY DEF Misplaced
      <3> QED  BY <2>4, <2>5, <3>1, <3>2 DEF DescInv, Quiet
    <2>7. t = "Unknown" => \A b \in DOMAIN sds : sds[b].type \in {"Unknown", "RSGhost"}
      <3>1. t = "Unknown" => d.type = "Unknown"
        OBVIOUS
      <3>2. t = "Unknown" /\ ~Misplaced(t, sd) => sd.type \in {"Unknown", "RSGhost"}
        BY <1>0, <3>1 DEF Misplaced, Discovered, Reply, ServerDescriptions, ServerTypes, Members
      <3> QED  BY <2>4, <2>5, <3>1, <3>2 DEF DescInv, Quiet
    <2> HIDE DEF sds, new, t
    <2>8. WellFormed(result) /\ result.type = t /\ result.sds = sds
      BY <1>2, <2>1, <2>3 DEF WellFormed, Sds
    <2> QED  BY <1>1, <1>11, <2>6, <2>7, <2>8 DEF DescInv, Quiet, InSet
  <1> QED  BY <1>5, <1>6, <1>7, <1>8, <1>9, <1>10, <1>11 DEF ReplicaSet

-----------------------------------------------------------------------------
(* The other steps, and the theorems.                                      *)

LEMMA SrvUpdatedInv ==
    ASSUME NEW d, DescInv(d), d.type \in SRV_POLLING_TOPOLOGIES,
           NEW seedlist \in SUBSET Address, NEW r \in SrvUpdated(d, seedlist)
    PROVE  DescInv(r)
  <1>1. CASE r = d
    BY <1>1
  <1>2. CASE r # d
    <2> DEFINE kept == Keep(d.sds, seedlist)
    <2>1. PICK S \in SrvAdditions(kept, seedlist) : r = [d EXCEPT !.sds = AddNew(kept, S)]
      BY <1>2 DEF SrvUpdated
    <2>2. S \in SUBSET Address
      BY <2>1 DEF SrvAdditions
    <2>3. WellFormed(d) /\ Sds(d.sds)
      BY DEF DescInv, WellFormed, Sds
    <2>4. Sds(kept)
      BY <2>3, KeepSds
    <2>5. Sds(AddNew(kept, S))
      BY <2>2, <2>4, AddNewSds
    <2>6. \A b \in DOMAIN AddNew(kept, S) :
            \/ AddNew(kept, S)[b].type = "Unknown"
            \/ b \in DOMAIN d.sds /\ AddNew(kept, S)[b] = d.sds[b]
      BY NewServerType DEF AddNew, Keep
    <2> HIDE DEF kept
    <2>7. WellFormed(r) /\ r.type = d.type /\ r.sds = AddNew(kept, S)
      BY <2>1, <2>3, <2>5 DEF WellFormed, Sds
    <2>8. Quiet(r)
      BY <2>6, <2>7 DEF DescInv, Quiet
    <2>9. r.type \notin ReplicaSet
      BY <2>7 DEF SRV_POLLING_TOPOLOGIES, ReplicaSet
    <2> QED  BY <2>7, <2>8, <2>9 DEF DescInv, InSet
  <1> QED  BY <1>1, <1>2

LEMMA ResetInv ==
    ASSUME NEW d, DescInv(d)
    PROVE  DescInv(Reset(d))
  <1> DEFINE sds == [a \in Addresses(d) |-> NewServer]
             t == IF d.type = "ReplicaSetWithPrimary" THEN "ReplicaSetNoPrimary" ELSE d.type
  <1>1. WellFormed(d) /\ DOMAIN d.sds \subseteq Address
    BY DEF DescInv, WellFormed
  <1>2. Sds(sds) /\ \A b \in DOMAIN sds : sds[b].type = "Unknown"
    BY <1>1, NewServerType DEF Sds, Addresses
  <1>3. Primaries(sds) = {} /\ \A name : SetOf(sds, name)
    BY <1>2 DEF Primaries, SetOf, Members
  <1>4. t \in TopologyTypes
    BY <1>1 DEF WellFormed, TopologyTypes
  <1>5. Reset(d) = [d EXCEPT !.type = t, !.sds = sds]
    BY DEF Reset
  <1> HIDE DEF sds
  <1>6. WellFormed(Reset(d)) /\ Reset(d).type = t /\ Reset(d).sds = sds /\ Reset(d).setName = d.setName
    BY <1>1, <1>2, <1>4, <1>5, Zenon DEF WellFormed, Sds
  <1>7. Quiet(Reset(d))
    BY <1>2, <1>6 DEF DescInv, Quiet
  <1>8. InSet(Reset(d))
    BY <1>3, <1>6 DEF DescInv, InSet, ReplicaSet, _check_has_primary
  <1> QED  BY <1>6, <1>7, <1>8 DEF DescInv

\* The description that close leaves when topology events are published.
LEMMA ForgottenInv ==
    ASSUME NEW d, DescInv(d)
    PROVE  DescInv([d EXCEPT !.type = "Unknown", !.sds = [a \in {} |-> NewServer]])
  <1> DEFINE none == [a \in {} |-> NewServer]
             new == [d EXCEPT !.type = "Unknown", !.sds = none]
  <1>1. DOMAIN none = {} /\ none \in [{} -> ServerDescriptions]
    OBVIOUS
  <1> HIDE DEF none
  <1>2. WellFormed(new) /\ new.type = "Unknown" /\ new.sds = none
    BY <1>1, Zenon DEF DescInv, WellFormed, TopologyTypes
  <1>3. DescInv(new)
    BY <1>1, <1>2 DEF DescInv, Quiet, InSet, ReplicaSet
  <1> QED  BY <1>3 DEF none

\* The description a client starts with.
LEMMA InitialInv ==
    ASSUME NEW hosts \in SUBSET Address, NEW name \in SetName \cup {NoName},
           NEW t \in {"Single", "Unknown", "ReplicaSetNoPrimary"},
           t = "ReplicaSetNoPrimary" => name # NoName
    PROVE  DescInv([type |-> t, setName |-> name, sds |-> [a \in hosts |-> NewServer],
                    maxSetVersion |-> None, maxElectionId |-> None])
  <1> DEFINE sds == [a \in hosts |-> NewServer]
             d == [type |-> t, setName |-> name, sds |-> sds,
                   maxSetVersion |-> None, maxElectionId |-> None]
  <1>1. Sds(sds) /\ \A b \in DOMAIN sds : sds[b].type = "Unknown"
    BY NewServerType DEF Sds
  <1>2. Primaries(sds) = {} /\ SetOf(sds, name)
    BY <1>1 DEF Primaries, SetOf, Members
  <1> HIDE DEF sds
  <1>3. d.type = t /\ d.setName = name /\ d.sds = sds
    OBVIOUS
  <1>4. WellFormed(d)
    BY <1>1 DEF WellFormed, Sds, TopologyTypes, None
  <1>5. Quiet(d)
    BY <1>1 DEF Quiet
  <1>6. InSet(d)
    BY <1>2 DEF InSet, ReplicaSet, _check_has_primary
  <1>7. DescInv(d)
    BY <1>4, <1>5, <1>6 DEF DescInv
  <1> QED  BY <1>7 DEF sds

\* A failed check removes no host and adds none.
LEMMA UnknownKeeps ==
    ASSUME NEW d, DescInv(d), NEW a \in Addresses(d),
           NEW sd \in ServerDescriptions, sd.type = "Unknown"
    PROVE  Addresses(updated_topology_description(d, a, sd)) = Addresses(d)
  <1> DEFINE t == IF d.type = "Unknown" THEN Discovered(d, sd) ELSE d.type
             new == [d EXCEPT !.type = t, !.sds[a] = sd]
             result == updated_topology_description(d, a, sd)
  <1>1. WellFormed(d) /\ a \in DOMAIN d.sds
    BY DEF DescInv, Addresses
  <1>2. DOMAIN new.sds = DOMAIN d.sds
    BY <1>1 DEF WellFormed
  <1>3. ~Misplaced(t, sd)
    BY DEF Misplaced
  <1>4. CASE d.type = "Single"
    <2>1. result = [d EXCEPT !.sds[a] = SingleServer(d, sd)]
      BY <1>4 DEF updated_topology_description
    <2> QED  BY <1>1, <2>1 DEF WellFormed, Addresses
  <1>5. CASE d.type # "Single"
    <2>1. result \in {WithServers(new, new.sds), [new EXCEPT !.sds = new.sds]}
      BY <1>3, <1>5 DEF updated_topology_description, Members
    <2>2. new \in [type : {t}, setName : {d.setName}, sds : {new.sds},
                   maxSetVersion : {d.maxSetVersion}, maxElectionId : {d.maxElectionId}]
      BY <1>1, Zenon DEF WellFormed
    <2> HIDE DEF new
    <2>3. result.sds = new.sds
      BY <2>1, <2>2, Zenon DEF WithServers
    <2> QED  BY <1>2, <2>3 DEF Addresses
  <1> QED  BY <1>4, <1>5
=============================================================================
