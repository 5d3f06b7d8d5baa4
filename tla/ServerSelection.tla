-------------------------- MODULE ServerSelection --------------------------
(***************************************************************************)
(* How a read finds a server: the read preferences and selectors            *)
(* (read_preferences.py, server_selectors.py, max_staleness_selectors.py),  *)
(* apply_selector of TopologyDescription, the waiting loop of              *)
(* Topology.select_servers, and the read half of                           *)
(* _ClientConnectionRetryable, which deprioritizes the servers that failed. *)
(*                                                                         *)
(* The topology changes as Sdam allows: a replica set has at most one       *)
(* primary.  A description is immutable except for its list of candidates,  *)
(* which every selection leaves as it filtered it.                         *)
(***************************************************************************)
EXTENDS Integers, Sequences, FiniteSets, SequencesExt

CONSTANTS
    Threads,
    Descriptions,      \* the descriptions of the topology that occur, with all candidates
    Preferences,       \* the selectors that reads use
    HeartbeatFrequency, LocalThreshold,
    MaxAdaptive,       \* max_adaptive_retries
    Retargeting,       \* enable_overload_retargeting
    MaxChanges         \* bound: changes of the topology

VARIABLES
    td,                \* the topology's current description
    gone,              \* per address: the kinds its removed Servers were left with, in order
    th,                \* per thread: its _ClientConnectionRetryable
    changes

vars == <<td, gone, th, changes>>

ASSUME SelectionAssumption ==
    /\ HeartbeatFrequency \in Nat /\ LocalThreshold \in Nat /\ MaxAdaptive \in Nat
    /\ Retargeting \in BOOLEAN /\ MaxChanges \in Nat

-----------------------------------------------------------------------------
(* Descriptions.  A server's: kind, tags, rtt, and the times of its last    *)
(* write and of the last update.                                           *)

Members(d) == DOMAIN d.sds
Kind(d, a) == d.sds[a].kind
known_servers(d) == {a \in Members(d) : Kind(d, a) # "Unknown"}
IsWritable(d, a) == Kind(d, a) \in {"RSPrimary", "Standalone", "Mongos"}
IsReadable(d, a) == Kind(d, a) = "RSSecondary" \/ IsWritable(d, a)

\* Selection: the servers, and the primary among the candidates.
FromTopology(d) == [servers |-> d.candidates, primary |-> {a \in d.candidates : Kind(d, a) = "RSPrimary"}]
With(sel, S) == [sel EXCEPT !.servers = S]

Secondaries(d, sel) == With(sel, {a \in sel.servers : Kind(d, a) = "RSSecondary"})
Readable(d, sel) == With(sel, {a \in sel.servers : IsReadable(d, a)})
Writable(d, sel) == With(sel, {a \in sel.servers : IsWritable(d, a)})

\* apply_tag_sets: the first tag set that some server matches.
apply_tag_sets_Any(d, sets, sel) ==
    With(sel, {a \in sel.servers : \E i \in DOMAIN sets : sets[i] \subseteq d.sds[a].tags})
apply_tag_sets(d, sets, sel) ==
    LET match(i) == {a \in sel.servers : sets[i] \subseteq d.sds[a].tags}
        hits == {i \in DOMAIN sets : match(i) # {}}
    IN  With(sel, IF hits = {} THEN {} ELSE match(CHOOSE i \in hits : \A j \in hits : i <= j))

\* max_staleness_selectors: a secondary's staleness against the primary's, or
\* against the secondary that has the latest write.
WithPrimary(d, max, sel) ==
    LET p == d.sds[CHOOSE a \in sel.primary : TRUE]
        staleness(s) == (s.update - s.write) - (p.update - p.write) + HeartbeatFrequency
    IN  With(sel, {a \in sel.servers : Kind(d, a) = "RSSecondary" => staleness(d.sds[a]) <= max})
NoPrimary(d, max, sel) ==
    LET secondaries == Secondaries(d, sel).servers
        latest == CHOOSE w \in {d.sds[a].write : a \in secondaries} :
                     \A a \in secondaries : d.sds[a].write <= w
    IN  With(sel, IF secondaries = {} THEN {}
                  ELSE {a \in sel.servers : Kind(d, a) = "RSSecondary" =>
                          latest - d.sds[a].write + HeartbeatFrequency <= max})
Fresh(d, max, sel) ==
    IF max = -1 THEN sel
    ELSE IF sel.primary # {} THEN WithPrimary(d, max, sel) ELSE NoPrimary(d, max, sel)

PrimarySelection(sel) == With(sel, sel.primary)

\* The read preferences.
SecondaryTagged(d, pref, sel) ==
    apply_tag_sets(d, pref.tag_sets, Secondaries(d, Fresh(d, pref.max_staleness, sel)))
PrimaryPreferred(d, pref, sel) ==
    IF sel.primary # {} THEN PrimarySelection(sel) ELSE SecondaryTagged(d, pref, sel)
SecondaryPreferred(d, pref, sel) ==
    LET secondaries == SecondaryTagged(d, pref, sel)
    IN  IF secondaries.servers # {} THEN secondaries ELSE PrimarySelection(sel)
Nearest(d, pref, sel) ==
    apply_tag_sets(d, pref.tag_sets, Readable(d, Fresh(d, pref.max_staleness, sel)))
Preferred(d, pref, sel) ==
    CASE pref.mode = "Primary" -> PrimarySelection(sel)
      [] pref.mode = "PrimaryPreferred" -> PrimaryPreferred(d, pref, sel)
      [] pref.mode = "Secondary" -> SecondaryTagged(d, pref, sel)
      [] pref.mode = "SecondaryPreferred" -> SecondaryPreferred(d, pref, sel)
      [] pref.mode = "Nearest" -> Nearest(d, pref, sel)

\* _apply_local_threshold
Near(d, S) ==
    {a \in S : \A b \in S : d.sds[a].rtt - d.sds[b].rtt <= LocalThreshold}

\* _filter_servers, with addresses that are deprioritized.
Filtered_Ignored(d, deprio) == known_servers(d)
Filtered(d, deprio) ==
    LET kept == known_servers(d) \ deprio
    IN  IF kept = {} THEN known_servers(d) ELSE kept

-----------------------------------------------------------------------------
(* apply_selector.  deprio is a sequence of [address, kind]: the servers     *)
(* that failed, each as its Server object describes it now.  The result has *)
(* the addresses selected and the candidates that are left behind.         *)

Addresses(deprio) == {deprio[i].address : i \in DOMAIN deprio}
Result(S, candidates) == [servers |-> S, candidates |-> candidates]

\* The fast path for Primary.
FastPath(d, deprio) ==
    LET c == Filtered(d, Addresses(deprio))
        primaries == {a \in c : Kind(d, a) = "RSPrimary"}
        old == SelectSeq(deprio, LAMBDA s : s.kind = "RSPrimary")
    IN  Result(IF primaries # {} THEN primaries
               ELSE IF old # <<>> THEN {old[1].address} ELSE {}, c)

\* "apply preference again but include deprioritized servers"
SlowPath_Once(d, pref, deprio) ==
    LET c == Filtered(d, Addresses(deprio))
    IN  Result(Near(d, Preferred(d, pref, FromTopology([d EXCEPT !.candidates = c])).servers), c)
SlowPath(d, pref, deprio) ==
    LET c == Filtered(d, Addresses(deprio))
        first == Preferred(d, pref, FromTopology([d EXCEPT !.candidates = c])).servers
        all == Filtered(d, {})
        second == Preferred(d, pref, FromTopology([d EXCEPT !.candidates = all])).servers
    IN  IF first = {} /\ deprio # <<>> THEN Result(Near(d, second), all) ELSE Result(Near(d, first), c)

apply_selector(d, pref, deprio) ==
    CASE d.type = "Unknown" -> Result({}, d.candidates)
      [] d.type = "Single"  -> Result(known_servers(d), d.candidates)
      [] d.type \notin {"Unknown", "Single"} /\ pref.mode = "Address" ->
           Result({pref.address} \cap known_servers(d), d.candidates)
      [] d.type = "Sharded" /\ pref.mode # "Address" ->
           LET c == Filtered(d, Addresses(deprio)) IN Result(Near(d, c), c)
      [] d.type = "ReplicaSetWithPrimary" /\ pref.mode = "Primary" -> FastPath(d, deprio)
      [] OTHER -> SlowPath(d, pref, deprio)

-----------------------------------------------------------------------------
(* The topology and the threads.                                           *)

AllAddresses == UNION {Members(d) : d \in Descriptions}
NoServer == <<>>      \* None

\* Servers are told apart by a count: an address that comes back gets a new one.
Current(s) == s[1] \in Members(td) /\ s[2] = Len(gone[s[1]]) + 1
ServerAt(a) == IF a \in Members(td) THEN <<a, Len(gone[a]) + 1>> ELSE NoServer

Idle == [pc |-> "idle"]

Init ==
    /\ td \in {d \in Descriptions : known_servers(d) = {}}
    /\ gone = [a \in AllAddresses |-> <<>>]
    /\ th = [t \in Threads |-> Idle]
    /\ changes = 0

\* TopologyDescription.__init__: all its servers are candidates.
NewDescription(d) == [d EXCEPT !.candidates = Members(d)]

\* External: Sdam.  A new description; Servers come and go with the members, and
\* all waiting threads are notified.
ReplicaSet == {"ReplicaSetNoPrimary", "ReplicaSetWithPrimary"}
Change(d) ==
    /\ changes < MaxChanges /\ changes' = changes + 1
    /\ td.type = "Unknown" \/ td.type = d.type \/ {td.type, d.type} \subseteq ReplicaSet
    /\ td' = NewDescription(d)
    /\ gone' = [a \in AllAddresses |->
                  IF a \in Members(td) \ Members(d) THEN Append(gone[a], Kind(td, a)) ELSE gone[a]]
    /\ th' = [t \in Threads |-> IF th[t].pc = "waiting" THEN [th[t] EXCEPT !.woken = TRUE] ELSE th[t]]

\* _ClientConnectionRetryable.__init__ of a read.
Read(t, pref) ==
    /\ th[t] = Idle
    /\ th' = [th EXCEPT ![t] = [pc |-> "select", pref |-> pref, deprio |-> <<>>, retrying |-> FALSE,
                                attempts |-> 0, max |-> 1, woken |-> FALSE,
                                srv |-> NoServer]]
    /\ UNCHANGED <<td, gone, changes>>

\* The Server objects that failed, with their descriptions.
Described(t) ==
    [i \in DOMAIN th[t].deprio |->
       LET s == th[t].deprio[i]
       IN  [address |-> s[1], kind |-> IF Current(s) THEN Kind(td, s[1]) ELSE gone[s[1]][s[2]]]]

\* get_server_by_address of what apply_selector gives, one of them taken at random.
Take(t, r) ==
    \E a \in r.servers :
       th' = [th EXCEPT ![t].pc = "have", ![t].srv = ServerAt(a), ![t].woken = FALSE]
Unchanged == UNCHANGED <<gone, changes>>

\* select_servers up to the wait.
Select(t) ==
    /\ th[t].pc = "select" /\ Unchanged
    /\ \E r \in {apply_selector(td, th[t].pref, Described(t))} :
         /\ td' = [td EXCEPT !.candidates = r.candidates]
         /\ IF r.servers # {} THEN Take(t, r)
            ELSE th' = [th EXCEPT ![t].pc = "waiting", ![t].woken = FALSE]

\* The rest of the loop, each time the thread wakes up: the deprioritized
\* servers are forgotten.  It gives up when it is late.
Wake(t, late) ==
    /\ th[t].pc = "waiting" /\ Unchanged
    /\ \E r \in {apply_selector(td, th[t].pref, <<>>)} :
         /\ td' = [td EXCEPT !.candidates = r.candidates]
         /\ IF r.servers # {} THEN Take(t, r)
            ELSE th' = [th EXCEPT ![t] = IF late THEN Idle ELSE [@ EXCEPT !.woken = FALSE]]

\* The command ends the read, or AttributeError does: None has no pool.
Ends(t) ==
    /\ th[t].pc = "have"
    /\ th' = [th EXCEPT ![t] = Idle]
    /\ UNCHANGED <<td, gone, changes>>

\* The read branch of run.  over: SystemOverloadedError; always: RetryableError
\* with it; again: a connection failure or a retryable code.
\* A getMore, and a read of a pinned session, is not retryable.
NotEligible(o, max) == o.pref.mode = "Address" \/ (o.retrying /\ o.attempts >= max)
Deprioritized(o, over) ==
    IF td.type = "Sharded" \/ (over /\ Retargeting) THEN Append(o.deprio, o.srv) ELSE o.deprio
Fails(t, over, always, again) ==
    LET o == th[t]
        max == IF over THEN MaxAdaptive ELSE o.max
        retry == /\ always \/ (again /\ ~NotEligible(o, max))
                 /\ over => o.attempts + 1 <= MaxAdaptive
    IN  /\ o.pc = "have" /\ o.srv # NoServer /\ (always => over)
        /\ th' = [th EXCEPT ![t] =
                    IF ~retry THEN Idle
                    ELSE [o EXCEPT !.pc = "select", !.retrying = TRUE, !.attempts = @ + 1, !.max = max,
                                   !.srv = NoServer, !.deprio = Deprioritized(o, over)]]
        /\ UNCHANGED <<td, gone, changes>>

Step(t) ==
    \/ Select(t)
    \/ \E late \in BOOLEAN : Wake(t, late)
    \/ Ends(t)
    \/ \E over, always, again \in BOOLEAN : Fails(t, over, always, again)

Next ==
    \/ \E d \in Descriptions : Change(d)
    \/ \E t \in Threads : Step(t) \/ \E pref \in Preferences : Read(t, pref)

Spec == Init /\ [][Next]_vars

-----------------------------------------------------------------------------
Modes == {"Primary", "PrimaryPreferred", "Secondary", "SecondaryPreferred", "Nearest", "Address"}

\* Every variable has its type; the candidates are members; nobody deprioritizes
\* a server that never was.
TypeOK ==
    /\ td.candidates \subseteq Members(td)
    /\ \A t \in Threads :
         th[t] # Idle =>
            /\ th[t].pc \in {"select", "waiting", "have"} /\ th[t].pref.mode \in Modes
            /\ \A i \in DOMAIN th[t].deprio :
                  Current(th[t].deprio[i]) \/ th[t].deprio[i][2] \in DOMAIN gone[th[t].deprio[i][1]]

\* What a server must be for a selector, whatever the others are.
RightKind(d, pref, a) ==
    CASE pref.mode = "Address" -> a = pref.address /\ a \in known_servers(d)
      [] d.type \in {"Sharded", "Single"} /\ pref.mode # "Address" -> a \in known_servers(d)
      [] OTHER ->
           CASE pref.mode = "Primary" -> Kind(d, a) = "RSPrimary"
             [] pref.mode = "Secondary" -> Kind(d, a) = "RSSecondary"
             [] OTHER -> Kind(d, a) \in {"RSPrimary", "RSSecondary"}
Tagged(d, pref, a) ==
    \/ d.type \in {"Sharded", "Single"} \/ pref.mode \in {"Primary", "Address"}
    \/ Kind(d, a) = "RSPrimary" /\ pref.mode # "Nearest"
    \/ \E i \in DOMAIN pref.tag_sets : pref.tag_sets[i] \subseteq d.sds[a].tags
Timely(d, pref, a) ==
    \/ Kind(d, a) # "RSSecondary" \/ pref.max_staleness = -1
    \/ a \in Fresh(d, pref.max_staleness, FromTopology([d EXCEPT !.candidates = known_servers(d)])).servers
Suits(d, pref, a) == RightKind(d, pref, a) /\ Tagged(d, pref, a)

Selects(t) == th[t].pc \in {"select", "waiting"} /\ th'[t].pc = "have"

\* The Servers that a retry deprioritizes are still those of the topology.
AllCurrent(t) == \A i \in DOMAIN th[t].deprio : Current(th[t].deprio[i])

\* Without deprioritized servers: a secondary serves PrimaryPreferred only if no
\* primary is known, a primary serves SecondaryPreferred only if no secondary
\* will do, and a server that matches a later tag set is taken only if no
\* other one matches an earlier one.
FirstTagSet(pref, a) ==
    CHOOSE i \in DOMAIN pref.tag_sets :
       /\ pref.tag_sets[i] \subseteq td.sds[a].tags
       /\ \A j \in 1..(i - 1) : ~(pref.tag_sets[j] \subseteq td.sds[a].tags)
Honoured(pref, a) ==
    LET others == {b \in Members(td) : Suits(td, pref, b) /\ Timely(td, pref, b)}
    IN  /\ pref.mode = "PrimaryPreferred" /\ Kind(td, a) = "RSSecondary"
             => \A b \in Members(td) : Kind(td, b) # "RSPrimary"
        /\ pref.mode = "SecondaryPreferred" /\ Kind(td, a) = "RSPrimary"
             => \A b \in others : Kind(td, b) # "RSSecondary"
        /\ pref.mode \in {"Secondary", "Nearest"}
             => \A b \in others : FirstTagSet(pref, a) <= FirstTagSet(pref, b)

\* "Return a list of Servers matching selector, or time out.": what a selection
\* returns is a Server of the topology, of the right kind for the read
\* preference, with its tags, and in a replica set there is none that the
\* preference puts first.  So it is whatever earlier selections left behind in
\* the shared description.
SelectionSound ==
    [][\A t \in Threads :
         Selects(t) /\ AllCurrent(t) =>
           /\ th'[t].srv # NoServer /\ Suits(td, th[t].pref, th'[t].srv[1])
           /\ th[t].deprio = <<>> /\ td.type \in ReplicaSet => Honoured(th[t].pref, th'[t].srv[1])]_vars

\* A server that just failed is tried again only if no other one will do, unless
\* the thread had to wait.
DeprioritizedLast ==
    [][\A t \in Threads :
         LET deprio == {th[t].deprio[i][1] : i \in DOMAIN th[t].deprio} IN
         th[t].pc = "select" /\ Selects(t) /\ th[t].pref.mode # "Address" /\ td.type # "Single"
           /\ th'[t].srv # NoServer /\ th'[t].srv[1] \in deprio
           => ~\E a \in Members(td) \ deprio : Suits(td, th[t].pref, a) /\ Timely(td, th[t].pref, a)]_vars

\* A read of the primary deprioritizes a Server that was removed, while its address
\* has come back with a new one: the fast path knows only the old description.
Outlived(t) ==
    /\ th[t].pref.mode = "Primary"
    /\ \E i \in DOMAIN th[t].deprio :
          th[t].deprio[i][1] \in Members(td) /\ ~Current(th[t].deprio[i])

\* "We won't miss any changes that came after our most recent apply_selector
\* call": while a thread waits and was not notified, no server would do.
NoMissedServer ==
    \A t \in Threads :
       th[t].pc = "waiting" /\ ~th[t].woken /\ td.type # "Unknown" /\ ~Outlived(t) =>
          ~\E a \in Members(td) : Suits(td, th[t].pref, a) /\ Timely(td, th[t].pref, a)
=============================================================================
