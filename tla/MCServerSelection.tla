------------------------- MODULE MCServerSelection -------------------------
(* Instances of ServerSelection for TLC.                                   *)
EXTENDS ServerSelection, TLC

Sd(kind, tags, rtt, write) == [kind |-> kind, tags |-> tags, rtt |-> rtt, write |-> write, update |-> 3]
Unknown == Sd("Unknown", {}, 0, 0)

\* What is known of each server when it is known: where it is, how far, how fresh.
Tags == [a |-> {"east"}, b |-> {"west"}, c |-> {"east"}]
Primary(x) == Sd("RSPrimary", Tags[x], 1, 3)
NearFresh(x) == Sd("RSSecondary", Tags[x], 0, 3)
FarStale(x) == Sd("RSSecondary", Tags[x], 2, 0)
Member == [a |-> {Unknown, Primary("a"), NearFresh("a"), FarStale("a")},
           b |-> {Primary("b"), NearFresh("b"), FarStale("b")},
           c |-> {NearFresh("c"), Sd("RSArbiter", Tags["c"], 0, 3)}]

Description(type, sds) == [type |-> type, sds |-> sds, candidates |-> DOMAIN sds]

AtMostOne(f) == \A x, y \in DOMAIN f : f[x].kind = "RSPrimary" /\ f[y].kind = "RSPrimary" => x = y
Sets == {[a |-> x, b |-> y, c |-> z] : x \in Member.a, y \in Member.b, z \in Member.c}
          \cup {[b |-> y, c |-> z] : y \in Member.b, z \in Member.c}
ReplicaSets ==
    {Description(IF \E x \in DOMAIN f : f[x].kind = "RSPrimary" THEN "ReplicaSetWithPrimary"
                 ELSE "ReplicaSetNoPrimary", f) : f \in {g \in Sets : AtMostOne(g)}}

Clusters ==
    {Description("Sharded", f) : f \in [{"a", "b"} -> {Unknown, Sd("Mongos", {}, 0, 0), Sd("Mongos", {}, 2, 0)}]}
      \cup {Description("Single", [x \in {"a"} |-> Sd("Standalone", {}, 0, 0)])}
      \cup {Description("Unknown", [x \in {"a", "b"} |-> Unknown])}

AllDescriptions == ReplicaSets \cup Clusters

Pref(mode, sets, max) == [mode |-> mode, tag_sets |-> sets, max_staleness |-> max]

AllPreferences ==
    {Pref(mode, <<{}>>, -1) : mode \in {"Primary", "SecondaryPreferred"}}
      \cup {Pref(mode, <<{"east"}, {}>>, 2) : mode \in {"Secondary", "Nearest"}}
      \cup {Pref("PrimaryPreferred", <<{"west"}>>, 2)}
      \cup {Pref("Address", <<{}>>, -1) @@ [address |-> "a"]}
=============================================================================
