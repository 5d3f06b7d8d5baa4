----------------------------- MODULE PoolProofs -----------------------------
(***************************************************************************)
(* Proofs about Pool: the counters are exact, maxPoolSize and maxConnecting*)
(* bound the connections, what waits in the idle list can be handed out,   *)
(* and no notify is lost, whatever the number of threads, the options and  *)
(* the bounds of the model.                                                *)
(***************************************************************************)
EXTENDS Pool, FiniteSetTheorems, TLAPS

-----------------------------------------------------------------------------
(* Types.                                                                  *)

\* Where the code goes on to use the connection it has just got: there is one.
HoldingPcs == {"check", "socket", "hello", "append", "m_add"}
Holding == \A a \in Actors : pc[a] \in HoldingPcs => conn[a] \in Connection

TypeInv == TypeOK /\ Holding

\* The part of TypeOK that does not depend on where the actors are.
Scalars ==
    /\ state \in {"PAUSED", "READY", "CLOSED"}
    /\ conns \in Seq(Connection)
    /\ gens \in [AllServices -> Nat]
    /\ requests \in Int /\ active_sockets \in Int /\ pending \in Int
    /\ operation_count \in Int /\ ntxns \in Int /\ ncursors \in Int
    /\ active_contexts \subseteq Actors
    /\ conn \in [Actors -> Connection \cup {NoConn}]
    /\ pin \in [Threads -> {"none", "txn", "cursor"}]
    /\ reference \in Nat /\ mloop \in {"again", "leave"}
    /\ deaths \in Nat

\* The action A keeps the types.
Keeps(A) == TypeInv /\ A => TypeInv'

\* What a step of one actor a does to the rest: it moves a to label l.
Moved(a, l) ==
    /\ pc' = [pc EXCEPT ![a] = l]
    /\ IF a \in Threads THEN l \in ThreadPcs ELSE l \in MaintPcs
    /\ sizeWait' \subseteq sizeWait \cup {a}
    /\ a \in sizeWait' => l \in {"size_wait", "size_timeout"}
    /\ connWait' \subseteq connWait \cup {a}
    /\ a \in connWait' => l \in {"conn_wait", "conn_timeout"}
    /\ \A b \in Actors \ {a} : conn'[b] = conn[b]
    /\ l \in HoldingPcs => conn'[a] \in Connection

LEMMA DropConnsType ==
    ASSUME conns \in Seq(Connection), NEW svc, DropConns(svc)
    PROVE  conns' \in Seq(Connection) /\ Len(conns') <= Len(conns)
<1>1. CASE svc = NoService
  BY <1>1 DEF DropConns
<1>2. CASE svc # NoService
  <2>1. PICK n \in 0..Len(conns) : \E keep \in [1..n -> 1..Len(conns)] :
                                      conns' = [i \in 1..n |-> conns[keep[i]]]
    BY <1>2, Zenon DEF DropConns
  <2>2. PICK keep \in [1..n -> 1..Len(conns)] : conns' = [i \in 1..n |-> conns[keep[i]]]
    BY <2>1, Zenon
  <2>3. n \in Nat /\ n <= Len(conns)
    OBVIOUS
  <2>4. \A i \in 1..n : conns[keep[i]] \in Connection
    OBVIOUS
  <2> QED
    BY <2>2, <2>3, <2>4
<1> QED
  BY <1>1, <1>2

-----------------------------------------------------------------------------
(* Counting the actors that are at given labels.                           *)

Unit(l, S) == IF l \in S THEN 1 ELSE 0

\* Moving one actor changes the number of actors at the labels S by what the
\* actor's old and new labels say, and not at all if the actor is not counted.
LEMMA CountMove ==
    ASSUME NEW A, IsFiniteSet(A), NEW D, A \subseteq D, NEW a \in D,
           NEW f, NEW g, NEW l, NEW S,
           DOMAIN f = D, g = [f EXCEPT ![a] = l]
    PROVE  /\ a \in A => Cardinality({x \in A : g[x] \in S}) =
                  Cardinality({x \in A : f[x] \in S}) + Unit(l, S) - Unit(f[a], S)
           /\ a \notin A => {x \in A : g[x] \in S} = {x \in A : f[x] \in S}
<1> DEFINE F == {x \in A : f[x] \in S}
<1> DEFINE G == {x \in A : g[x] \in S}
<1>1. IsFiniteSet(F) /\ IsFiniteSet(G)
  BY FS_Subset
<1>2. Cardinality(F) \in Nat /\ Cardinality(G) \in Nat
  BY <1>1, FS_CardinalityType
<1>3. F \ {a} = G \ {a}
  OBVIOUS
<1>4. a \in A => (a \in F <=> f[a] \in S) /\ (a \in G <=> l \in S)
  OBVIOUS
<1>5. a \notin A => F = G
  OBVIOUS
<1> HIDE DEF F, G
<1>6. Cardinality(F \ {a}) = IF a \in F THEN Cardinality(F) - 1 ELSE Cardinality(F)
  BY <1>1, FS_RemoveElement, Zenon
<1>7. Cardinality(G \ {a}) = IF a \in G THEN Cardinality(G) - 1 ELSE Cardinality(G)
  BY <1>1, FS_RemoveElement, Zenon
<1>8. a \in A => Cardinality(G) = Cardinality(F) + Unit(l, S) - Unit(f[a], S)
  <2> SUFFICES ASSUME a \in A
               PROVE  Cardinality(G) = Cardinality(F) + Unit(l, S) - Unit(f[a], S)
    OBVIOUS
  <2>1. CASE l \in S /\ f[a] \in S
    BY <2>1, <1>2, <1>3, <1>4, <1>6, <1>7 DEF Unit
  <2>2. CASE l \in S /\ f[a] \notin S
    <3>1. a \in G /\ a \notin F /\ Unit(l, S) = 1 /\ Unit(f[a], S) = 0
      BY <2>2, <1>4 DEF Unit
    <3> QED
      BY <3>1, <1>2, <1>3, <1>6, <1>7
  <2>3. CASE l \notin S /\ f[a] \in S
    <3>1. a \notin G /\ a \in F /\ Unit(l, S) = 0 /\ Unit(f[a], S) = 1
      BY <2>3, <1>4 DEF Unit
    <3> QED
      BY <3>1, <1>2, <1>3, <1>6, <1>7
  <2>4. CASE l \notin S /\ f[a] \notin S
    BY <2>4, <1>2, <1>3, <1>4, <1>6, <1>7 DEF Unit
  <2> QED
    BY <2>1, <2>2, <2>3, <2>4, Zenon
<1> QED
  BY <1>5, <1>8 DEF F, G

-----------------------------------------------------------------------------
(* The inductive invariant.                                                *)

\* Where an actor may own a connection, and where it owns at least the right
\* to a new one.
OpenPcs == {"check", "socket", "hello", "unpend", "got", "use", "pinned",
            "checkin", "append", "m_add"}
HolderPcs == {"check", "socket", "hello", "unpend", "got", "use", "pinned",
              "checkin", "append", "m_add", "m_pend"}

\* PoolSizeBound is not inductive: a new connection is bounded by the slots
\* (requests) when a checkout creates it, and by active_sockets when the
\* background thread does.
SizeInv ==
    /\ CountersExact
    /\ requests <= MaxPoolSize /\ pending <= MaxConnecting
    /\ \A a \in Actors : conn[a] # NoConn => pc[a] \in OpenPcs
    /\ Len(conns) + Cardinality(At(HolderPcs)) <= MaxPoolSize

\* Actor a moves to label l and the counters follow.
Accounted(a, l) ==
    /\ pc' = [pc EXCEPT ![a] = l]
    /\ requests' = requests + Unit(l, SlotPcs) - Unit(pc[a], SlotPcs)
    /\ active_sockets' =
          IF a \in Threads
          THEN active_sockets + Unit(l, ActivePcs) - Unit(pc[a], ActivePcs)
          ELSE active_sockets
    /\ pending' = pending + Unit(l, PendingPcs) - Unit(pc[a], PendingPcs)

\* Such a step also respects the limits: it does not use more of maxPoolSize,
\* or it leaves no idle connection.
Sized(a, l) ==
    /\ Accounted(a, l)
    /\ requests' <= MaxPoolSize /\ pending' <= MaxConnecting
    /\ \A b \in Actors \ {a} : conn'[b] = conn[b]
    /\ conn'[a] # NoConn => l \in OpenPcs
    /\ \/ Len(conns') + Unit(l, HolderPcs) <= Len(conns) + Unit(pc[a], HolderPcs)
       \/ conns' = <<>>

LEMMA ActorsFinite == IsFiniteSet(Actors) /\ IsFiniteSet(Threads)
  BY PoolAssumption, FS_AddElement DEF Actors

LEMMA AtFinite ==
    ASSUME NEW S
    PROVE  IsFiniteSet(At(S)) /\ Cardinality(At(S)) \in Nat
<1>1. IsFiniteSet(At(S))
  BY ActorsFinite, FS_Subset DEF At
<1> QED
  BY <1>1, FS_CardinalityType

LEMMA AtMove ==
    ASSUME TypeInv, NEW a \in Actors, NEW l, pc' = [pc EXCEPT ![a] = l], NEW S
    PROVE  Cardinality(At(S)') = Cardinality(At(S)) + Unit(l, S) - Unit(pc[a], S)
<1>1. DOMAIN pc = Actors /\ pc' = [pc EXCEPT ![a] = l] /\ Actors \subseteq Actors
  BY DEF TypeInv, TypeOK
<1>2. Cardinality({x \in Actors : pc'[x] \in S}) =
        Cardinality({x \in Actors : pc[x] \in S}) + Unit(l, S) - Unit(pc[a], S)
  BY <1>1, CountMove, ActorsFinite
<1> QED
  BY <1>2 DEF At

LEMMA CountersMove ==
    ASSUME TypeInv, CountersExact, NEW a \in Actors, NEW l, Accounted(a, l)
    PROVE  CountersExact'
<1> DEFINE Active == {t \in Threads : pc[t] \in ActivePcs}
<1>1. DOMAIN pc = Actors /\ pc' = [pc EXCEPT ![a] = l] /\ Threads \subseteq Actors
  BY Zenon DEF TypeInv, TypeOK, Accounted, Actors
<1>2. a \in Threads =>
        Cardinality(Active') = Cardinality(Active) + Unit(l, ActivePcs) - Unit(pc[a], ActivePcs)
  <2>1. IsFiniteSet(Threads)
    BY ActorsFinite
  <2> QED
    BY <1>1, <2>1, CountMove, SMTT(30)
<1>3. a \notin Threads => Active' = Active
  BY <1>1, CountMove, ActorsFinite, Zenon
<1> HIDE DEF Active
<1>4. requests' = Cardinality(At(SlotPcs)')
  BY <1>1, AtMove, Zenon DEF CountersExact, Accounted
<1>5. pending' = Cardinality(At(PendingPcs)')
  BY <1>1, AtMove, Zenon DEF CountersExact, Accounted
<1>6. active_sockets' = Cardinality(Active')
  BY <1>2, <1>3, Zenon DEF CountersExact, Accounted, Active
<1> QED
  BY <1>4, <1>5, <1>6 DEF CountersExact, Active

\* A step within the limits preserves the invariant.
LEMMA SizedStep ==
    ASSUME TypeInv, TypeInv', SizeInv, NEW a \in Actors, NEW l, Sized(a, l)
    PROVE  SizeInv'
<1>1. CountersExact'
  BY CountersMove DEF SizeInv, Sized
<1>2. \A b \in Actors : conn'[b] # NoConn => pc'[b] \in OpenPcs
  BY Zenon DEF TypeInv, TypeOK, SizeInv, Sized, Accounted
<1>3. Cardinality(At(HolderPcs)) \in Nat /\ Cardinality(At(HolderPcs)') \in Nat
  <2>1. IsFiniteSet(At(HolderPcs)')
    BY ActorsFinite, FS_Subset DEF At
  <2> QED
    BY <2>1, AtFinite, FS_CardinalityType
<1>4. Len(conns') + Cardinality(At(HolderPcs)') <= MaxPoolSize
  <2>1. CASE Len(conns') + Unit(l, HolderPcs) <= Len(conns) + Unit(pc[a], HolderPcs)
    <3>1. Cardinality(At(HolderPcs)') =
             Cardinality(At(HolderPcs)) + Unit(l, HolderPcs) - Unit(pc[a], HolderPcs)
      BY AtMove, Zenon DEF Sized, Accounted
    <3>2. Len(conns) \in Nat /\ Len(conns') \in Nat
      <4>1. conns \in Seq(Connection) /\ conns' \in Seq(Connection)
        BY Zenon DEF TypeInv, TypeOK
      <4> QED
        BY <4>1
    <3>3. Unit(l, HolderPcs) \in Nat /\ Unit(pc[a], HolderPcs) \in Nat
      BY DEF Unit
    <3> QED
      BY <2>1, <3>1, <3>2, <3>3, <1>3, PoolAssumption, SMTT(30) DEF SizeInv
  <2>2. CASE conns' = <<>>
    <3>1. At(HolderPcs)' \subseteq At(SlotPcs)'
      BY DEF At, HolderPcs, OpenPcs, SlotPcs, ThreadPcs, MaintPcs, NoSlotPcs
    <3>2. IsFiniteSet(At(SlotPcs)')
      BY ActorsFinite, FS_Subset DEF At
    <3>3. Cardinality(At(HolderPcs)') <= Cardinality(At(SlotPcs)')
      BY <3>1, <3>2, FS_Subset
    <3>4. Cardinality(At(SlotPcs)') <= MaxPoolSize /\ Cardinality(At(SlotPcs)') \in Nat
      BY <1>1, <3>2, FS_CardinalityType, Zenon DEF CountersExact, Sized
    <3>5. Len(conns') = 0
      BY <2>2
    <3> QED
      BY <3>3, <3>4, <3>5, <1>3, PoolAssumption
  <2> QED
    BY <2>1, <2>2 DEF Sized
<1> QED
  BY <1>1, <1>2, <1>4, Zenon DEF SizeInv, Sized
-----------------------------------------------------------------------------
(* One fact per action: it keeps the accounts and the limits.              *)

\* What label l owns: s slots, n units of active_sockets (if it is a thread's),
\* p units of _pending, and h connections or rights to one.
Owns(l, s, n, p, h) ==
    /\ Unit(l, SlotPcs) = s /\ Unit(l, ActivePcs) = n
    /\ Unit(l, PendingPcs) = p /\ Unit(l, HolderPcs) = h

LEMMA OwnsNothing ==
    \A l \in {"idle", "enter", "size_wait", "size_timeout", "m_state", "m_idle", "m_size"} :
        Owns(l, 0, 0, 0, 0)
  BY DEF Owns, Unit, SlotPcs, NoSlotPcs, ActivePcs, PendingPcs, HolderPcs, ThreadPcs, MaintPcs

LEMMA OwnsSlot == Owns("slot", 1, 0, 0, 0)
  BY DEF Owns, Unit, SlotPcs, NoSlotPcs, ActivePcs, PendingPcs, HolderPcs, ThreadPcs, MaintPcs

LEMMA OwnsActive ==
    \A l \in {"acquire", "conn_wait", "conn_timeout", "release", "fail"} : Owns(l, 1, 1, 0, 0)
  BY DEF Owns, Unit, SlotPcs, NoSlotPcs, ActivePcs, PendingPcs, HolderPcs, ThreadPcs, MaintPcs

LEMMA OwnsConn ==
    \A l \in {"check", "got", "use", "pinned", "checkin", "append"} : Owns(l, 1, 1, 0, 1)
  BY DEF Owns, Unit, SlotPcs, NoSlotPcs, ActivePcs, PendingPcs, HolderPcs, ThreadPcs, MaintPcs

LEMMA OwnsPending == \A l \in {"socket", "hello", "unpend"} : Owns(l, 1, 1, 1, 1)
  BY DEF Owns, Unit, SlotPcs, NoSlotPcs, ActivePcs, PendingPcs, HolderPcs, ThreadPcs, MaintPcs

LEMMA OwnsMaint ==
    /\ Owns("m_pend", 1, 0, 0, 1) /\ Owns("m_add", 1, 0, 1, 1)
    /\ Owns("m_unpend", 1, 0, 1, 0) /\ Owns("m_release", 1, 0, 0, 0)
  BY DEF Owns, Unit, SlotPcs, NoSlotPcs, ActivePcs, PendingPcs, HolderPcs, ThreadPcs, MaintPcs

\* What the invariants say of one actor.
ActorFacts(a) ==
    /\ a \in Actors /\ Maint \notin Threads
    /\ conn[a] # NoConn => pc[a] \in OpenPcs
    /\ DOMAIN pc = Actors /\ DOMAIN conn = Actors
    /\ requests \in Int /\ active_sockets \in Int /\ pending \in Int
    /\ conns \in Seq(Connection) /\ Len(conns) \in Nat
    /\ requests <= MaxPoolSize /\ pending <= MaxConnecting
    /\ MaxPoolSize \in Nat /\ MaxConnecting \in Nat

LEMMA Facts ==
    ASSUME TypeInv, SizeInv, NEW a \in Actors
    PROVE  ActorFacts(a)
  BY PoolAssumption DEF TypeInv, TypeOK, SizeInv, ActorFacts

LEMMA SizeThread ==
    ASSUME TypeInv, TypeInv', SizeInv, NEW t \in Threads,
           ThreadStep(t), ~ConnectStep(t)
    PROVE  SizeInv'
<1>0. ActorFacts(t) /\ pc = [pc EXCEPT ![t] = pc[t]]
  BY Facts, Zenon DEF Actors, TypeInv, TypeOK
<1>1. ASSUME \/ StartCheckout(t) \/ EnterSize(t) \/ WakeSize(t) \/ SizeTimeout(t) \/ GiveUpSize(t)
             \/ InterruptedSlot(t)
      PROVE  \E l \in {"enter", "idle", "size_wait", "slot", "size_timeout"} : Sized(t, l)
  BY <1>0, <1>1, OwnsNothing, OwnsSlot DEF StartCheckout, EnterSize, WakeSize, TakeSlotOrWait,
     SlotFree, SizeTimeout, GiveUpSize, InterruptedSlot, ActorFacts, Goto, Sized, Accounted, Owns,
     OpenPcs, slots
<1>2. ASSUME \/ TakeActive(t) \/ ConnTimeout(t) \/ GiveUpConn(t) \/ FailCheckout(t)
             \/ ReleaseSlot(t)
      PROVE  \E l \in {"acquire", "conn_timeout", "fail", "idle"} : Sized(t, l)
  BY <1>0, <1>2, OwnsNothing, OwnsSlot, OwnsActive DEF TakeActive, ConnTimeout, GiveUpConn,
     FailCheckout, ReleaseSlot, ActorFacts, Goto, Sized, Accounted, Owns, OpenPcs, slots
<1>3. ASSUME \/ NotPerished(t) \/ RegisterContext(t) \/ (\E kind \in Pins : PinConn(t, kind))
             \/ BreakConn(t) \/ FinishUse(t) \/ RaiseInUse(t) \/ Unpin(t)
      PROVE  \E l \in {"got", "use", "pinned", "checkin"} : Sized(t, l)
  BY <1>0, <1>3, OwnsConn DEF NotPerished, RegisterContext, PinConn, BreakConn, FinishUse,
     RaiseInUse, Unpin, ActorFacts, Goto, Hold, Sized, Accounted, Owns, OpenPcs, slots
<1>4. ASSUME Perished(t) \/ StartCheckin(t) \/ AppendConn(t)
      PROVE  \E l \in {"acquire", "release", "append"} : Sized(t, l)
  <2>1. CASE AppendConn(t)
    BY <1>0, <2>1, OwnsConn, OwnsActive DEF AppendConn, ActorFacts, Goto, Hold, Sized, Accounted,
       Owns, OpenPcs, slots
  <2>2. CASE Perished(t) \/ StartCheckin(t)
    BY <1>0, <2>2, OwnsConn, OwnsActive DEF Perished, StartCheckin, ActorFacts, Goto, Hold, Sized,
       Accounted, Owns, OpenPcs, slots
  <2> QED
    BY <1>4, <2>1, <2>2
<1>5. ASSUME Acquire(t) \/ WakeConn(t)
      PROVE  \E l \in {"fail", "conn_wait", "check", "socket"} : Sized(t, l)
  BY <1>0, <1>5, OwnsActive, OwnsConn, OwnsPending DEF Acquire, WakeConn, PopOrConnectOrWait,
     CanConnect, ActorFacts, Goto, Hold, Sized, Accounted, Owns, OpenPcs, slots
<1>6. ASSUME Unpend(t) PROVE \E l \in {"fail", "got"} : Sized(t, l)
  <2>1. CASE conn[t] = NoConn
    BY <1>0, <1>6, <2>1, OwnsPending, OwnsActive DEF Unpend, ActorFacts, Goto, Sized, Accounted,
       Owns, OpenPcs, slots
  <2>2. CASE conn[t] # NoConn
    BY <1>0, <1>6, <2>2, OwnsPending, OwnsConn DEF Unpend, ActorFacts, Goto, Sized, Accounted,
       Owns, OpenPcs, slots
  <2> QED
    BY <2>1, <2>2
<1>7. ASSUME InterruptedAcquire(t) \/ InterruptedWait(t)
      PROVE  \E l \in {"fail", "idle"} : Sized(t, l)
  <2>1. CASE InterruptedAcquire(t)
    BY <1>0, <2>1, OwnsConn, OwnsActive DEF InterruptedAcquire, ActorFacts, Goto, Hold, Sized,
       Accounted, Owns, OpenPcs, slots
  <2>2. CASE InterruptedWait(t)
    BY <1>0, <2>2, OwnsNothing, OwnsActive DEF InterruptedWait, ActorFacts, Goto, Sized, Accounted,
       Owns, OpenPcs, slots
  <2> QED
    BY <1>7, <2>1, <2>2
<1>8. \E l : Sized(t, l)
  BY <1>1, <1>2, <1>3, <1>4, <1>5, <1>6, <1>7, Zenon
     DEF ThreadStep, CheckoutStep, UseStep, Interrupted
<1> QED
  BY <1>8, SizedStep DEF Actors

-----------------------------------------------------------------------------
(* The steps that connect, the background thread's and the monitor's.      *)


LEMMA SizeConnect ==
    ASSUME TypeInv, TypeInv', SizeInv, NEW a \in Actors, ConnectStep(a)
    PROVE  SizeInv'
<1>0. ActorFacts(a) /\ (a \in Threads \/ a = Maint)
  BY Facts DEF Actors
<1>1. ASSUME ConnectFailed(a), pc[a] \in {"socket", "hello"}
      PROVE  Sized(a, "unpend") \/ Sized(a, "m_unpend")
  <2>1. Hold(a, NoConn) /\ UNCHANGED <<conns, slots>>
    BY <1>1 DEF ConnectFailed
  <2>2. CASE a \in Threads
    <3>1. Goto(a, "unpend")
      BY <1>1, <2>2 DEF ConnectFailed, Goto
    <3> QED
      BY <1>0, <1>1, <2>1, <2>2, <3>1, OwnsPending
      DEF ActorFacts, Goto, Hold, Sized, Accounted, Owns, OpenPcs, slots
  <2>3. CASE a = Maint
    <3>1. Goto(a, "m_unpend")
      BY <1>0, <1>1, <2>3 DEF ConnectFailed, Goto, ActorFacts
    <3> QED
      BY <1>0, <1>1, <2>1, <2>3, <3>1, OwnsPending, OwnsMaint
      DEF ActorFacts, Goto, Hold, Sized, Accounted, Owns, OpenPcs, slots
  <2> QED
    BY <1>0, <2>2, <2>3
<1>2. ASSUME SocketOpened(a) PROVE Sized(a, "hello")
  <2>1. /\ pc[a] = "socket" /\ Goto(a, "hello")
        /\ UNCHANGED <<conns, slots>>
    BY <1>2 DEF SocketOpened
  <2>2. \A b \in Actors \ {a} : conn'[b] = conn[b]
    BY <1>0, <1>2 DEF SocketOpened, Hold, ActorFacts
  <2> QED
    BY <1>0, <2>1, <2>2, OwnsPending
      DEF ActorFacts, Goto, Hold, Sized, Accounted, Owns, OpenPcs, slots
<1>3. ASSUME HelloDone(a) PROVE Sized(a, "unpend") \/ Sized(a, "m_add")
  <2>1. pc[a] = "hello" /\ UNCHANGED <<conns, slots>>
    BY <1>3, Zenon DEF HelloDone
  <2>2. \A b \in Actors \ {a} : conn'[b] = conn[b]
    BY <1>0, <1>3, Zenon DEF HelloDone, Hold, ActorFacts
  <2>3. CASE a \in Threads
    <3>1. Goto(a, "unpend")
      BY <1>3, <2>3, Zenon DEF HelloDone, Goto
    <3> QED
      BY <1>0, <2>1, <2>2, <2>3, <3>1, OwnsPending
      DEF ActorFacts, Goto, Hold, Sized, Accounted, Owns, OpenPcs, slots
  <2>4. CASE a = Maint
    <3>1. Goto(a, "m_add")
      BY <1>0, <1>3, <2>4, Zenon DEF HelloDone, Goto, ActorFacts
    <3> QED
      BY <1>0, <2>1, <2>2, <2>4, <3>1, OwnsPending, OwnsMaint
      DEF ActorFacts, Goto, Hold, Sized, Accounted, Owns, OpenPcs, slots
  <2> QED
    BY <1>0, <2>3, <2>4, SMTT(30)
<1>4. \E l : Sized(a, l)
  BY <1>1, <1>2, <1>3 DEF ConnectStep, SocketFailed, HelloFailed
<1> QED
  BY <1>4, SizedStep

\* The background thread reserves a connection only while idle and active
\* ones are below minPoolSize; every thread that holds one is active.
LEMMA SizeMaintSize ==
    ASSUME TypeInv, TypeInv', SizeInv, MaintSize
    PROVE  SizeInv'
<1>1. Maint \in Actors /\ ActorFacts(Maint)
  BY Facts DEF Actors
<1>2. CASE EnoughConns
  <2>1. Sized(Maint, "idle")
    BY <1>1, <1>2, OwnsNothing DEF MaintSize, ActorFacts, Goto, Sized, Accounted, Owns, OpenPcs
  <2> QED
    BY <1>1, <2>1, SizedStep
<1>3. CASE ~EnoughConns
  <2>1. Accounted(Maint, "m_pend")
    BY <1>1, <1>3, OwnsNothing, OwnsMaint DEF MaintSize, ActorFacts, Goto, Accounted, Owns
  <2>2. CountersExact'
    BY <1>1, <2>1, CountersMove DEF SizeInv
  <2> DEFINE Active == {t \in Threads : pc[t] \in ActivePcs}
  <2>3. At(HolderPcs) \subseteq Active
    BY <1>3 DEF MaintSize, TypeInv, TypeOK, At, Actors, HolderPcs, ActivePcs,
       ThreadPcs, NoSlotPcs
  <2>4. IsFiniteSet(Active)
    BY ActorsFinite, FS_Subset
  <2>5. Cardinality(At(HolderPcs)) <= Cardinality(Active)
    BY <2>3, <2>4, FS_Subset
  <2>6. Cardinality(Active) = active_sockets
    BY DEF SizeInv, CountersExact
  <2> HIDE DEF Active
  <2>7. Cardinality(At(HolderPcs)') = Cardinality(At(HolderPcs)) + 1
    <3>1. Unit("m_pend", HolderPcs) = 1 /\ Unit(pc[Maint], HolderPcs) = 0
      BY OwnsNothing, OwnsMaint, Zenon DEF MaintSize, Owns
    <3>2. pc' = [pc EXCEPT ![Maint] = "m_pend"]
      BY <2>1 DEF Accounted
    <3>3. Cardinality(At(HolderPcs)') =
            Cardinality(At(HolderPcs)) + Unit("m_pend", HolderPcs) - Unit(pc[Maint], HolderPcs)
      BY <1>1, <3>2, AtMove, Zenon
    <3>4. Cardinality(At(HolderPcs)) \in Nat
      BY AtFinite
    <3> QED
      BY <3>1, <3>3, <3>4
  <2>8. Len(conns) + active_sockets < MinPoolSize /\ requests < MinPoolSize
    BY <1>1, <1>3, PoolAssumption DEF EnoughConns, ActorFacts
  <2>9. Len(conns') + Cardinality(At(HolderPcs)') <= MaxPoolSize
    <3>1. conns' = conns /\ Cardinality(At(HolderPcs)) \in Nat
      BY AtFinite DEF MaintSize
    <3> QED
      BY <1>1, <2>5, <2>6, <2>7, <2>8, <3>1, PoolAssumption DEF ActorFacts
  <2>10. requests' <= MaxPoolSize /\ pending' <= MaxConnecting
    BY <1>1, <1>3, <2>8, PoolAssumption DEF MaintSize, ActorFacts
  <2>11. \A a \in Actors : conn'[a] # NoConn => pc'[a] \in OpenPcs
    <3>1. conn'[Maint] = NoConn
      BY <1>1 DEF MaintSize, ActorFacts, OpenPcs
    <3> QED
      BY <1>1, <1>3, <3>1, Zenon DEF MaintSize, Goto, SizeInv, ActorFacts
  <2> QED
    BY <2>2, <2>9, <2>10, <2>11 DEF SizeInv
<1> QED
  BY <1>2, <1>3

LEMMA SizeMaint ==
    ASSUME TypeInv, TypeInv', SizeInv,
           StartMaint \/ MaintState \/ MaintIdle \/ MaintPend \/ MaintAdd
           \/ MaintUnpend \/ MaintRelease
    PROVE  SizeInv'
<1>0. Maint \in Actors /\ ActorFacts(Maint)
  BY Facts DEF Actors
<1>1. ASSUME StartMaint \/ MaintState \/ MaintIdle
      PROVE  \E l \in {"idle", "m_state", "m_idle", "m_size"} : Sized(Maint, l)
  BY <1>0, <1>1, OwnsNothing DEF StartMaint, MaintState, MaintIdle, ActorFacts, Goto, Sized,
     Accounted, Owns, OpenPcs, slots
<1>2. ASSUME MaintPend PROVE \E l \in {"m_release", "socket"} : Sized(Maint, l)
  BY <1>0, <1>2, OwnsMaint, OwnsPending DEF MaintPend, ActorFacts, Goto, Hold, Sized, Accounted,
     Owns, OpenPcs, slots
<1>3. ASSUME MaintAdd \/ MaintUnpend \/ MaintRelease
      PROVE  \E l \in {"m_unpend", "m_release", "idle", "m_size"} : Sized(Maint, l)
  BY <1>0, <1>3, OwnsMaint, OwnsNothing DEF MaintAdd, MaintUnpend, MaintRelease, ActorFacts, Goto,
     Hold, Sized, Accounted, Owns, OpenPcs, slots
<1>4. \E l : Sized(Maint, l)
  BY <1>1, <1>2, <1>3, Zenon
<1> QED
  BY <1>0, <1>4, SizedStep

\* ready and reset move no one and open nothing.
LEMMA SizeSdam ==
    ASSUME TypeInv, TypeInv', SizeInv, SdamStep
    PROVE  SizeInv'
<1>1. pc' = pc /\ UNCHANGED slots
  BY Zenon DEF SdamStep, Ready, Reset, ResetInterrupt, Close, ResetService, ResetPool
<1>2. Len(conns') <= Len(conns)
  <2>1. conns' = conns \/ \E svc : DropConns(svc)
    BY Zenon DEF SdamStep, Ready, Reset, ResetInterrupt, Close, ResetService, ResetPool
  <2>2. conns \in Seq(Connection)
    BY Zenon DEF TypeInv, TypeOK
  <2> QED
    BY <2>1, <2>2, DropConnsType
<1>3. \A a \in Actors : conn'[a] # NoConn => conn[a] # NoConn
  BY Zenon DEF SdamStep, Ready, Reset, ResetInterrupt, Close, ResetService, ResetPool
<1>4. At(HolderPcs)' = At(HolderPcs) /\ CountersExact'
  BY <1>1 DEF At, SizeInv, CountersExact, slots
<1>5. Len(conns') + Cardinality(At(HolderPcs)') <= MaxPoolSize
  <2>1. Cardinality(At(HolderPcs)) \in Nat /\ Len(conns) \in Nat /\ Len(conns') \in Nat
    <3>1. conns \in Seq(Connection) /\ conns' \in Seq(Connection)
      BY Zenon DEF TypeInv, TypeOK
    <3> QED
      BY <3>1, AtFinite
  <2> QED
    BY <2>1, <1>2, <1>4, PoolAssumption DEF SizeInv
<1> QED
  BY <1>1, <1>3, <1>4, <1>5 DEF SizeInv, slots

LEMMA SizeInit == Init => SizeInv
<1> SUFFICES ASSUME Init PROVE SizeInv
  OBVIOUS
<1>1. At(SlotPcs) = {} /\ At(PendingPcs) = {} /\ At(HolderPcs) = {}
  BY DEF Init, At, SlotPcs, NoSlotPcs, PendingPcs, HolderPcs, OpenPcs
<1>2. {t \in Threads : pc[t] \in ActivePcs} = {}
  BY DEF Init, Actors, ActivePcs, NoSlotPcs
<1>3. Cardinality({}) = 0
  BY FS_EmptySet
<1>4. CountersExact
  BY <1>1, <1>2, <1>3, Zenon DEF CountersExact, Init
<1> QED
  BY <1>1, <1>3, <1>4, PoolAssumption DEF Init, SizeInv

LEMMA SizeNext == TypeInv /\ TypeInv' /\ SizeInv /\ [Next]_vars => SizeInv'
<1> SUFFICES ASSUME TypeInv, TypeInv', SizeInv, [Next]_vars PROVE SizeInv'
  OBVIOUS
<1>1. ASSUME NEW t \in Threads, ThreadStep(t) PROVE SizeInv'
  BY <1>1, SizeThread, SizeConnect DEF Actors
<1>2. CASE StartMaint \/ MaintStep
  BY <1>2, SizeMaint, SizeMaintSize, SizeConnect DEF MaintStep, Actors
<1>3. CASE SdamStep
  BY <1>3, SizeSdam
<1>4. CASE UNCHANGED vars
  BY <1>4, Zenon DEF vars, slots, SizeInv, CountersExact, At
<1> QED
  BY <1>1, <1>2, <1>3, <1>4 DEF Next

-----------------------------------------------------------------------------
(* Every action keeps the types.                                           *)

LEMMA MovedType ==
    ASSUME TypeInv, NEW a \in Threads \cup {Maint}, NEW l, Moved(a, l), Scalars'
    PROVE  TypeInv'
<1> a \in Actors
  BY DEF Actors
<1>1. pc' \in [Actors -> ThreadPcs \cup MaintPcs]
  BY PoolAssumption, Zenon DEF TypeInv, TypeOK, Moved, Actors
<1>2. pc'[a] = l /\ \A b \in Actors \ {a} : pc'[b] = pc[b]
  BY Zenon DEF TypeInv, TypeOK, Moved
<1>3. \A t \in Threads : pc'[t] \in ThreadPcs
  BY <1>2 DEF TypeInv, TypeOK, Moved, Actors
<1>4. pc'[Maint] \in MaintPcs
  BY <1>2, PoolAssumption DEF TypeInv, TypeOK, Moved, Actors
<1>5. sizeWait' \subseteq At({"size_wait", "size_timeout"})'
  BY <1>2, Zenon DEF TypeInv, TypeOK, Moved, At
<1>6. connWait' \subseteq At({"conn_wait", "conn_timeout"})'
  BY <1>2 DEF TypeInv, TypeOK, Moved, At
<1>7. Holding'
  BY <1>2 DEF TypeInv, Holding, Moved
<1> QED
  BY <1>1, <1>3, <1>4, <1>5, <1>6, <1>7, Zenon DEF TypeInv, TypeOK, Scalars

\* notify removes at most one waiter.
LEMMA NotifyType ==
    ASSUME NEW W, NEW V \in AfterNotify(W)
    PROVE  V \subseteq W
  BY DEF AfterNotify

LEMMA TimeoutType ==
    ASSUME NEW W, NEW t, NEW c, NEW V \in AfterTimeout(W, t, c)
    PROVE  V \subseteq W \ {t}
  BY NotifyType DEF AfterTimeout

\* The pool starts well typed.
LEMMA TypeInit == Init => TypeInv
<1> SUFFICES ASSUME Init PROVE TypeInv
  OBVIOUS
<1>1. pc \in [Actors -> ThreadPcs \cup MaintPcs] /\ \A a \in Actors : pc[a] = "idle"
  BY DEF Init, ThreadPcs
<1>2. "idle" \in ThreadPcs /\ "idle" \in MaintPcs /\ "idle" \notin HoldingPcs
  BY DEF ThreadPcs, MaintPcs, HoldingPcs
<1>3. gens \in [AllServices -> Nat] /\ conn \in [Actors -> Connection \cup {NoConn}]
  BY DEF Init
<1>4. pin \in [Threads -> {"none", "txn", "cursor"}] /\ conns \in Seq(Connection)
  BY DEF Init
<1>5. Holding
  BY <1>1, <1>2 DEF Holding
<1>6. /\ state \in {"PAUSED", "READY", "CLOSED"}
      /\ sizeWait = {} /\ connWait = {} /\ active_contexts = {}
      /\ reference \in Nat /\ mloop \in {"again", "leave"} /\ deaths \in Nat
      /\ requests \in Int /\ active_sockets \in Int /\ pending \in Int
      /\ operation_count \in Int /\ ntxns \in Int /\ ncursors \in Int
  BY DEF Init
<1>7. \A t \in Threads : pc[t] \in ThreadPcs
  BY <1>1, <1>2 DEF Actors
<1>8. pc[Maint] \in MaintPcs
  BY <1>1, <1>2 DEF Actors
<1> QED
  BY <1>1, <1>3, <1>4, <1>5, <1>6, <1>7, <1>8 DEF TypeInv, TypeOK

-----------------------------------------------------------------------------
\* What the types say of one actor, as a step of it uses them.
TypeFacts(a) ==
    /\ a \in Actors /\ DOMAIN pc = Actors /\ DOMAIN conn = Actors
    /\ pc = [pc EXCEPT ![a] = pc[a]]
    /\ pc[a] \in HoldingPcs => conn[a] \in Connection
    /\ a \in sizeWait => pc[a] \in {"size_wait", "size_timeout"}
    /\ a \in connWait => pc[a] \in {"conn_wait", "conn_timeout"}

\* The counters stay numbers.
LEMMA Counting == (\A i \in Int : i + 1 \in Int /\ i - 1 \in Int) /\ \A i \in Nat : i + 1 \in Nat
  OBVIOUS

LEMMA TypedFacts ==
    ASSUME TypeInv, NEW a \in Actors
    PROVE  TypeFacts(a) /\ Scalars /\ TmpContext \in Connection
<1>1. TmpContext \in Connection
  BY DEF TmpContext, Connection, AllServices, NoGen
<1>2. Scalars
  BY Zenon DEF TypeInv, TypeOK, Scalars
<1>3. pc = [pc EXCEPT ![a] = pc[a]]
  BY Zenon DEF TypeInv, TypeOK
<1>4. TypeFacts(a)
  BY <1>3, Zenon DEF TypeInv, TypeOK, Holding, At, TypeFacts
<1> QED
  BY <1>1, <1>2, <1>4

LEMMA TypeThread ==
    ASSUME TypeInv, NEW t \in Threads, ThreadStep(t), ~ConnectStep(t)
    PROVE  TypeInv'
<1> DEFINE Typed == Scalars' /\ \E l : Moved(t, l)
<1>0. TypeFacts(t) /\ Scalars /\ TmpContext \in Connection
  BY TypedFacts DEF Actors
<1> HIDE DEF Typed
\* The steps that leave the queues and the idle list alone.
<1>1. ASSUME \/ StartCheckout(t) \/ SizeTimeout(t) \/ TakeActive(t) \/ ConnTimeout(t)
             \/ NotPerished(t) \/ RegisterContext(t)
      PROVE  Typed
  <2>1. \E l \in {"enter", "size_timeout", "acquire", "conn_timeout", "got", "use"} : Moved(t, l)
    BY <1>0, <1>1, SMTT(30) DEF TypeFacts, StartCheckout, SizeTimeout, TakeActive, ConnTimeout,
       NotPerished, RegisterContext, Goto, Moved, ThreadPcs, HoldingPcs
  <2>2. Scalars'
    BY <1>0, <1>1, Counting, Zenon DEF StartCheckout, SizeTimeout, TakeActive, ConnTimeout, NotPerished,
       RegisterContext, Scalars, Actors, slots, pins, maint
  <2> QED
    BY <2>1, <2>2 DEF Typed
<1>2. ASSUME Perished(t) \/ InterruptedAcquire(t) \/ BreakConn(t) \/ StartCheckin(t) PROVE Typed
  <2>0. /\ conn' \in [Actors -> Connection \cup {NoConn}]
        /\ \A b \in Actors \ {t} : conn'[b] = conn[b]
    BY <1>0, <1>2, Zenon DEF TypeFacts, Perished, InterruptedAcquire, BreakConn, StartCheckin, Hold, Scalars
  <2>1. \E l \in {"acquire", "fail", "use", "pinned", "release", "append"} : Moved(t, l)
    BY <1>0, <1>2, <2>0, SMTT(30) DEF TypeFacts, Perished, InterruptedAcquire, BreakConn, StartCheckin, Goto, Moved, Scalars,
       ThreadPcs, HoldingPcs
  <2>2. Scalars'
    BY <1>0, <1>2, <2>0, Counting, Zenon DEF Perished, InterruptedAcquire, BreakConn, StartCheckin, Scalars,
       Actors, slots, pins, maint
  <2> QED
    BY <2>1, <2>2 DEF Typed
<1>3. ASSUME \/ (\E kind \in Pins : PinConn(t, kind)) \/ FinishUse(t) \/ RaiseInUse(t) \/ Unpin(t)
      PROVE  Typed
  <2>1. \E l \in {"use", "pinned", "checkin"} : Moved(t, l)
    BY <1>0, <1>3, SMTT(30) DEF TypeFacts, PinConn, FinishUse, RaiseInUse, Unpin, Goto, Moved, ThreadPcs,
       HoldingPcs
  <2>2. Scalars'
    <3>1. pin' \in [Threads -> {"none", "txn", "cursor"}]
      BY <1>0, <1>3, PoolAssumption, Zenon DEF PinConn, FinishUse, RaiseInUse, Unpin, Scalars, pins
    <3> QED
      BY <1>0, <1>3, <3>1, Counting, Zenon DEF PinConn, FinishUse, RaiseInUse, Unpin, Scalars, slots,
         pins, maint
  <2> QED
    BY <2>1, <2>2 DEF Typed
\* The steps that wait for a slot or give one back.
<1>4. ASSUME \/ EnterSize(t) \/ WakeSize(t) \/ GiveUpSize(t) \/ GiveUpConn(t)
             \/ InterruptedSlot(t) \/ FailCheckout(t) \/ ReleaseSlot(t) \/ Unpend(t)
      PROVE  Typed
  <2>1. \E l \in {"idle", "size_wait", "slot", "fail", "got"} : Moved(t, l)
    BY <1>0, <1>4, NotifyType, TimeoutType DEF TypeFacts, EnterSize, WakeSize, TakeSlotOrWait, GiveUpSize, GiveUpConn,
       InterruptedSlot, FailCheckout, ReleaseSlot, Unpend, NotifySize, NotifyConn, Goto, Moved,
       ThreadPcs, HoldingPcs
  <2>2. Scalars'
    BY <1>0, <1>4, Counting, Zenon DEF EnterSize, WakeSize, TakeSlotOrWait, GiveUpSize, GiveUpConn,
       InterruptedSlot, FailCheckout, ReleaseSlot, Unpend, Scalars, Actors, slots, pins, maint
  <2> QED
    BY <2>1, <2>2 DEF Typed
\* The steps that take from the idle list or add to it.
<1>5. ASSUME Acquire(t) \/ WakeConn(t) PROVE Typed
  <2>1. conns # <<>> => Head(conns) \in Connection /\ Tail(conns) \in Seq(Connection)
    BY <1>0 DEF Scalars
  <2>2. PopOrConnectOrWait(t) /\ pc[t] \in {"acquire", "conn_wait"} /\ t \notin connWait
    BY <1>0, <1>5 DEF Acquire, WakeConn, TypeFacts
  <2>3. \E l \in {"fail", "conn_wait", "check", "socket"} : Moved(t, l)
    BY <1>0, <2>1, <2>2, Zenon DEF TypeFacts, PopOrConnectOrWait, Goto, Hold, Moved, ThreadPcs, HoldingPcs
  <2>4. conn' \in [Actors -> Connection \cup {NoConn}] /\ conns' \in Seq(Connection)
    BY <1>0, <2>1, <2>2, Zenon DEF PopOrConnectOrWait, Hold, Scalars
  <2>5. Scalars'
    BY <1>0, <2>2, <2>4 DEF PopOrConnectOrWait, Scalars, Actors, slots, pins, maint
  <2> QED
    BY <2>3, <2>5 DEF Typed
<1>6. ASSUME AppendConn(t) PROVE Typed
  <2>1. <<conn[t]>> \o conns \in Seq(Connection)
    BY <1>0, <1>6 DEF AppendConn, TypeFacts, Scalars, HoldingPcs
  <2>2. Moved(t, "release")
    BY <1>0, <1>6, NotifyType DEF AppendConn, NotifyConn, Goto, Hold, Moved, TypeFacts,
       ThreadPcs, HoldingPcs
  <2>3. Scalars'
    BY <1>0, <1>6, <2>1, Zenon DEF AppendConn, Hold, Scalars, Actors, slots, pins, maint
  <2> QED
    BY <2>2, <2>3 DEF Typed
<1>7. ASSUME InterruptedWait(t) PROVE Typed
  <2>1. \E l \in {"idle", "fail"} : Moved(t, l)
    BY <1>0, <1>7 DEF TypeFacts, InterruptedWait, Goto, Moved, ThreadPcs, HoldingPcs
  <2>2. Scalars'
    BY <1>0, <1>7, Zenon DEF InterruptedWait, Scalars, Actors, slots, pins, maint
  <2> QED
    BY <2>1, <2>2 DEF Typed
<1>8. Typed
  BY <1>1, <1>2, <1>3, <1>4, <1>5, <1>6, <1>7, Zenon
     DEF ThreadStep, CheckoutStep, UseStep, Interrupted
<1> QED
  BY <1>8, MovedType DEF Typed

LEMMA TypeMaint ==
    ASSUME TypeInv, StartMaint \/ MaintStep, ~ConnectStep(Maint)
    PROVE  TypeInv'
<1> DEFINE Typed == Scalars' /\ \E l : Moved(Maint, l)
<1>0. TypeFacts(Maint) /\ Scalars /\ TmpContext \in Connection /\ Maint \notin Threads
  BY TypedFacts, PoolAssumption DEF Actors
<1> HIDE DEF Typed
<1>1. ASSUME StartMaint \/ MaintState \/ MaintIdle \/ MaintSize PROVE Typed
  <2>1. \E l \in {"idle", "m_state", "m_idle", "m_size", "m_pend"} : Moved(Maint, l)
    BY <1>0, <1>1, SMTT(30) DEF TypeFacts, StartMaint, MaintState, MaintIdle, MaintSize, Goto, Moved,
       MaintPcs, HoldingPcs
  <2>2. CASE ~MaintIdle
    <3>1. gens[NoService] \in Nat
      BY <1>0 DEF Scalars, AllServices
    <3>2. Scalars'
      BY <1>0, <1>1, <2>2, <3>1, Counting, Zenon DEF StartMaint, MaintState, MaintSize, Scalars,
         slots, pins, maint
    <3> QED
      BY <2>1, <3>2 DEF Typed
  <2>3. CASE MaintIdle
    <3>1. conns' \in Seq(Connection) /\ deaths' \in Nat
      BY <1>0, <2>3 DEF MaintIdle, Scalars
    <3>2. Scalars'
      BY <1>0, <2>3, <3>1, Zenon DEF MaintIdle, Scalars, slots, pins, maint
    <3> QED
      BY <2>1, <3>2 DEF Typed
  <2> QED
    BY <2>2, <2>3
<1>2. ASSUME MaintPend \/ MaintUnpend \/ MaintRelease PROVE Typed
  <2>1. \E l \in {"idle", "m_release", "socket", "m_size"} : Moved(Maint, l)
    BY <1>0, <1>2, NotifyType DEF TypeFacts, MaintPend, MaintUnpend, MaintRelease, NotifyConn,
       NotifySize, Goto, Hold, Moved, MaintPcs, HoldingPcs
  <2>2. Scalars'
    BY <1>0, <1>2, Counting, Zenon DEF MaintPend, MaintUnpend, MaintRelease, Hold, Scalars, Actors, slots,
       pins, maint
  <2> QED
    BY <2>1, <2>2 DEF Typed
<1>3. ASSUME MaintAdd PROVE Typed
  <2>1. <<conn[Maint]>> \o conns \in Seq(Connection)
    BY <1>0, <1>3 DEF MaintAdd, TypeFacts, Scalars, HoldingPcs
  <2>2. Moved(Maint, "m_unpend")
    BY <1>0, <1>3, Zenon DEF MaintAdd, Goto, Hold, Moved, TypeFacts, MaintPcs, HoldingPcs
  <2>3. Scalars'
    BY <1>0, <1>3, <2>1, Zenon DEF MaintAdd, Hold, Scalars, Actors, slots, pins, maint
  <2> QED
    BY <2>2, <2>3 DEF Typed
<1>4. Typed
  BY <1>1, <1>2, <1>3 DEF MaintStep
<1> QED
  BY <1>4, MovedType DEF Typed

LEMMA TypeConnectFailed ==
    ASSUME NEW a \in Actors
    PROVE  Keeps(pc[a] \in {"socket", "hello"} /\ ConnectFailed(a))
<1> SUFFICES ASSUME TypeInv, pc[a] \in {"socket", "hello"}, ConnectFailed(a) PROVE TypeInv'
  BY DEF Keeps
<1>1. Moved(a, "unpend") \/ Moved(a, "m_unpend")
  BY PoolAssumption, Zenon DEF ConnectFailed, Goto, Hold, Moved, TypeInv, TypeOK, At, Actors,
     ThreadPcs, MaintPcs, HoldingPcs
<1>2. Scalars'
  BY DEF ConnectFailed, Hold, TypeInv, TypeOK, Scalars, Actors,
     slots, pins, maint
<1> QED
  BY <1>1, <1>2, MovedType DEF Actors

LEMMA TypeSocketOpened == ASSUME NEW a \in Actors PROVE Keeps(SocketOpened(a))
<1> SUFFICES ASSUME TypeInv, SocketOpened(a) PROVE TypeInv'
  BY DEF Keeps
<1>a. [conn[a] EXCEPT !.gen = gens[NoService]] \in Connection
  BY Zenon DEF SocketOpened, TypeInv, TypeOK, Holding, HoldingPcs, Connection, AllServices
<1>b. conn'[a] \in Connection /\ \A b \in Actors \ {a} : conn'[b] = conn[b]
  BY <1>a DEF SocketOpened, Hold, TypeInv, TypeOK
<1>c. a \notin sizeWait /\ a \notin connWait
  BY Zenon DEF SocketOpened, TypeInv, TypeOK, At
<1>1. Moved(a, "hello")
  BY <1>b, <1>c DEF SocketOpened, Goto, Moved, ThreadPcs, MaintPcs, HoldingPcs
<1>2. Scalars'
  BY <1>a DEF SocketOpened, Hold, TypeInv, TypeOK, Scalars, Actors,
     slots, pins, maint
<1> QED
  BY <1>1, <1>2, MovedType DEF Actors

LEMMA TypeHelloDone == ASSUME NEW a \in Actors PROVE Keeps(HelloDone(a))
<1> SUFFICES ASSUME TypeInv, HelloDone(a) PROVE TypeInv'
  BY DEF Keeps
<1>a. /\ conn[a] \in Connection
      /\ \A s \in Services : [conn[a] EXCEPT !.svc = s, !.gen = gens[s]] \in Connection
  BY ZenonT(30) DEF HelloDone, TypeInv, TypeOK, Holding, HoldingPcs, Connection, AllServices
<1>b. conn'[a] \in Connection
  BY <1>a, ZenonT(30) DEF HelloDone, Hold, TypeInv, TypeOK
<1>c. a \notin sizeWait /\ a \notin connWait
  BY ZenonT(30) DEF HelloDone, TypeInv, TypeOK, At
<1>d. \A b \in Actors \ {a} : conn'[b] = conn[b]
  BY ZenonT(30) DEF HelloDone, Hold, TypeInv, TypeOK
<1>1. Moved(a, "unpend") \/ Moved(a, "m_add")
  BY <1>b, <1>c, <1>d, ZenonT(30) DEF HelloDone, Goto, Moved, ThreadPcs, MaintPcs
<1>2. Scalars'
  BY <1>a, Zenon DEF HelloDone, Hold, TypeInv, TypeOK, Scalars, Actors,
     slots, pins, maint
<1> QED
  BY <1>1, <1>2, MovedType, SMTT(30) DEF Actors

LEMMA TypeReset ==
    ASSUME NEW s \in {"PAUSED", "READY", "CLOSED"}, NEW svc, NEW interrupt \in BOOLEAN
    PROVE  Keeps(ResetPool(s, svc, interrupt))
<1> SUFFICES ASSUME TypeInv, ResetPool(s, svc, interrupt) PROVE TypeInv'
  BY DEF Keeps
<1>1. conns' \in Seq(Connection)
  BY DropConnsType DEF ResetPool, TypeInv, TypeOK
<1>2. gens' \in [AllServices -> Nat]
  BY DEF ResetPool, IncGen, TypeInv, TypeOK
<1>3. \A c \in Connection : [c EXCEPT !.ctx = "cancelled"] \in Connection
  BY DEF Connection
<1>4. conn' \in [Actors -> Connection \cup {NoConn}]
  BY <1>3, Zenon DEF ResetPool, TypeInv, TypeOK
<1>5. Holding'
  BY <1>3, Zenon DEF ResetPool, TypeInv, TypeOK, Holding
<1>6. TypeOK'
  BY <1>1, <1>2, <1>4, Zenon DEF ResetPool, TypeInv, TypeOK, At, slots, pins, maint
<1> QED
  BY <1>5, <1>6 DEF TypeInv

LEMMA TypeReady == Keeps(Ready)
  BY DEF Keeps, Ready, TypeInv, TypeOK, Holding, At, slots, pins, maint

\* A step of connect(), by a thread or by the background thread.
LEMMA TypeConnectStep == ASSUME NEW a \in Actors PROVE Keeps(ConnectStep(a))
  BY TypeConnectFailed, TypeSocketOpened, TypeHelloDone
  DEF Keeps, ConnectStep, SocketFailed, HelloFailed

LEMMA TypeNext == TypeInv /\ [Next]_vars => TypeInv'
<1> SUFFICES ASSUME TypeInv, [Next]_vars PROVE TypeInv'
  OBVIOUS
<1>1. ASSUME NEW t \in Threads, ThreadStep(t) PROVE TypeInv'
  BY <1>1, TypeThread, TypeConnectStep DEF Keeps, Actors
<1>2. CASE StartMaint \/ MaintStep
  BY <1>2, TypeMaint, TypeConnectStep DEF Keeps, Actors
<1>3. CASE SdamStep
  <2>1. state \in {"PAUSED", "READY", "CLOSED"}
    BY DEF TypeInv, TypeOK
  <2> QED
    BY <1>3, <2>1, TypeReady, TypeReset, Zenon
    DEF Keeps, SdamStep, Reset, ResetInterrupt, Close, ResetService
<1>4. CASE UNCHANGED vars
  BY <1>4, Zenon DEF vars, slots, pins, maint, TypeInv, TypeOK, Holding, At
<1> QED
  BY <1>1, <1>2, <1>3, <1>4 DEF Next

-----------------------------------------------------------------------------
(* The theorems.                                                           *)

\* Every behaviour of the pool is well typed: no path of checkout, checkin or
\* remove_stale_sockets goes on with a connection it does not have.
THEOREM TypeCorrect == Spec => []TypeOK
<1>1. Spec => []TypeInv
  BY TypeInit, TypeNext, PTL DEF Spec
<1>2. TypeInv => TypeOK
  BY DEF TypeInv
<1> QED
  BY <1>1, <1>2, PTL

LEMMA SizeInvariant == Spec => []SizeInv
  BY TypeInit, TypeNext, SizeInit, SizeNext, PTL DEF Spec

\* In every reachable state requests, active_sockets and _pending count the
\* threads that own a unit of them: no path of _get_conn, checkin or
\* remove_stale_sockets, errors included, leaks or doubly releases one.
THEOREM CountersCorrect == Spec => []CountersExact
<1>1. SizeInv => CountersExact
  BY DEF SizeInv
<1> QED
  BY <1>1, SizeInvariant, PTL

\* The connections of a pool, idle, in use and being created, never exceed
\* maxPoolSize.
THEOREM PoolSizeCorrect == Spec => []PoolSizeBound
<1>1. TypeInv /\ SizeInv => PoolSizeBound
  <2> SUFFICES ASSUME TypeInv, SizeInv PROVE PoolSizeBound
    OBVIOUS
  <2>1. OutsideConns \subseteq At(HolderPcs)
    BY DEF SizeInv, OutsideConns, At, HolderPcs, OpenPcs
  <2>2. Cardinality(OutsideConns) <= Cardinality(At(HolderPcs)) /\ IsFiniteSet(OutsideConns)
    BY <2>1, AtFinite, FS_Subset
  <2>3. Cardinality(OutsideConns) \in Nat
    BY <2>2, FS_CardinalityType
  <2> QED
    BY <2>2, <2>3, AtFinite, PoolAssumption, SMTT(30) DEF SizeInv, PoolSizeBound, TypeInv, TypeOK
<1> QED
  BY <1>1, TypeInit, TypeNext, SizeInvariant, PTL, SMTT(30) DEF Spec

\* At most maxConnecting connections of a pool are being created at once.
THEOREM ConnectingCorrect == Spec => []ConnectingBound
<1>1. SizeInv => ConnectingBound
  <2> SUFFICES ASSUME SizeInv PROVE ConnectingBound
    OBVIOUS
  <2>1. At({"socket", "hello"}) \subseteq At(PendingPcs)
    BY DEF At, PendingPcs
  <2>2. Cardinality(At({"socket", "hello"})) <= Cardinality(At(PendingPcs))
    BY <2>1, AtFinite, FS_Subset
  <2> QED
    BY <2>2, AtFinite, PoolAssumption DEF SizeInv, CountersExact, ConnectingBound
<1> QED
  BY <1>1, SizeInvariant, PTL

-----------------------------------------------------------------------------
(* What waits in the idle list can be used.                                *)

\* While connect() runs, the connection is not known to be of any service.
NewPcs == {"socket", "hello"}

\* An idle connection c is of the generation that g records for its service.
Pooled(c, g) ==
    /\ c.gen = g[c.svc] /\ c.ctx = "live"
    /\ LoadBalanced => c.svc # NoService

\* A connection c that an actor at label p holds: no generation comes from the
\* future, and once connect() is over a cancelled connection is stale.
Carried(p, c, g) ==
    c # NoConn =>
        /\ c.gen <= g[c.svc]
        /\ p \in NewPcs => c.svc = NoService
        /\ p \notin NewPcs => /\ LoadBalanced => c.svc # NoService
                              /\ c.ctx = "cancelled" => c.gen # g[c.svc]

\* The background thread at label p with connection c and reference r: nothing
\* it adds to the pool is stale, and it adds nothing to a closed pool.
Background(p, c, r, s, g) ==
    /\ r <= g[NoService]
    /\ s = "CLOSED" /\ p \notin {"idle", "m_state"} => r # g[NoService]
    /\ p \in {"hello", "m_add"} /\ r = g[NoService] => c.gen = g[c.svc]

\* A thread at label p that has read `closed` as false holds a stale connection
\* if the pool has been closed since.
Late(p, c, s, g) == s = "CLOSED" /\ p = "append" => c.gen # g[c.svc]

UsableInv ==
    /\ \A i \in DOMAIN conns : Pooled(conns[i], gens)
    /\ state = "CLOSED" => conns = <<>>
    /\ \A a \in Actors : Carried(pc[a], conn[a], gens)
    /\ \A t \in Threads : Late(pc[t], conn[t], state, gens)
    /\ Background(pc[Maint], conn[Maint], reference, state, gens)

\* Actor a moves to label l, and what it carries and pools is in order.
Handled(a, l) ==
    /\ UNCHANGED <<gens, state>>
    /\ pc' = [pc EXCEPT ![a] = l]
    /\ \A b \in Actors \ {a} : conn'[b] = conn[b]
    /\ \A i \in DOMAIN conns' : Pooled(conns'[i], gens)
    /\ state = "CLOSED" => conns' = <<>>
    /\ Carried(l, conn'[a], gens)
    /\ a \in Threads => reference' = reference /\ Late(l, conn'[a], state, gens)
    /\ a = Maint => Background(l, conn'[a], reference', state, gens)

LEMMA HandledStep ==
    ASSUME TypeInv, UsableInv, NEW a \in Actors, NEW l, Handled(a, l)
    PROVE  UsableInv'
<1>1. DOMAIN pc = Actors /\ Maint \in Actors /\ Threads \subseteq Actors /\ Maint \notin Threads
  BY PoolAssumption, Zenon DEF TypeInv, TypeOK, Actors
<1>2. gens' = gens /\ state' = state /\ pc' = [pc EXCEPT ![a] = l]
  BY Zenon DEF Handled
<1>3. \A b \in Actors : b # a => pc'[b] = pc[b] /\ conn'[b] = conn[b]
  BY <1>1, <1>2, Zenon DEF Handled
<1>4. pc'[a] = l
  BY <1>1, <1>2, Zenon
<1>5. \A b \in Actors : Carried(pc'[b], conn'[b], gens)
  BY <1>3, <1>4, Zenon DEF UsableInv, Handled
<1>6. \A t \in Threads : Late(pc'[t], conn'[t], state, gens)
  BY <1>1, <1>3, <1>4, Zenon DEF UsableInv, Handled
<1>7. Background(pc'[Maint], conn'[Maint], reference', state, gens)
  <2>1. CASE a = Maint
    BY <2>1, <1>4, Zenon DEF Handled
  <2>2. CASE a # Maint
    BY <2>2, <1>1, <1>3, Zenon DEF UsableInv, Handled, Actors
  <2> QED
    BY <2>1, <2>2
<1>8. /\ \A i \in DOMAIN conns' : Pooled(conns'[i], gens')
      /\ state' = "CLOSED" => conns' = <<>>
  BY <1>2, Zenon DEF Handled
<1> QED
  BY <1>2, <1>5, <1>6, <1>7, <1>8, Zenon DEF UsableInv

\* A thread moves on with what it has, outside connect() and checkin.
Onward(t, l) ==
    /\ UNCHANGED <<gens, state, conns, conn, reference>>
    /\ pc' = [pc EXCEPT ![t] = l]
    /\ pc[t] \notin NewPcs /\ l \notin NewPcs /\ l # "append"

LEMMA OnwardStep ==
    ASSUME TypeInv, UsableInv, NEW t \in Threads, NEW l, Onward(t, l)
    PROVE  UsableInv'
<1>1. t \in Actors /\ t # Maint
  BY PoolAssumption, Zenon DEF Actors
<1>2. Carried(l, conn[t], gens)
  BY <1>1, Zenon DEF UsableInv, Carried, Onward
<1>3. Handled(t, l)
  BY <1>1, <1>2, Zenon DEF Onward, Handled, UsableInv, Late
<1> QED
  BY <1>1, <1>3, HandledStep

\* The same for the background thread, once it has its reference.
MaintOnward(l) ==
    /\ UNCHANGED <<gens, state, conn, reference>>
    /\ \A i \in DOMAIN conns' : \E j \in DOMAIN conns : conns'[i] = conns[j]
    /\ conns = <<>> => conns' = <<>>
    /\ pc' = [pc EXCEPT ![Maint] = l]
    /\ pc[Maint] \notin NewPcs /\ l \notin NewPcs /\ l # "m_add"
    /\ l \in {"idle", "m_state"} \/ pc[Maint] \notin {"idle", "m_state"}
          \/ (pc[Maint] = "m_state" /\ state = "READY")

LEMMA MaintOnwardStep ==
    ASSUME TypeInv, UsableInv, NEW l, MaintOnward(l)
    PROVE  UsableInv'
<1>1. Maint \in Actors /\ Maint \notin Threads
  BY PoolAssumption, Zenon DEF Actors
<1>2. Carried(l, conn[Maint], gens)
  BY <1>1, Zenon DEF UsableInv, Carried, MaintOnward
<1>3. Background(l, conn[Maint], reference, state, gens)
  BY <1>1, SMT DEF UsableInv, Background, MaintOnward, NewPcs
<1>4. \A i \in DOMAIN conns' : Pooled(conns'[i], gens)
  BY Zenon DEF UsableInv, MaintOnward
<1>5. Handled(Maint, l)
  BY <1>1, <1>2, <1>3, <1>4, Zenon DEF MaintOnward, Handled, UsableInv
<1> QED
  BY <1>1, <1>5, HandledStep

\* A new connection in front of idle ones.
LEMMA Pushed ==
    ASSUME NEW c \in Connection, NEW q \in Seq(Connection), NEW i \in DOMAIN (<<c>> \o q)
    PROVE  (<<c>> \o q)[i] = c \/ \E j \in DOMAIN q : (<<c>> \o q)[i] = q[j]
<1>1. i = 1 => (<<c>> \o q)[i] = c
  OBVIOUS
<1>2. i # 1 => i - 1 \in DOMAIN q /\ (<<c>> \o q)[i] = q[i - 1]
  OBVIOUS
<1> QED
  BY <1>1, <1>2

\* One step per action of a thread, connect() excepted.
LEMMA UsableThread ==
    ASSUME TypeInv, UsableInv, NEW t \in Threads, ThreadStep(t), ~ConnectStep(t)
    PROVE  UsableInv'
<1>0. t \in Actors /\ t # Maint /\ t \in Threads
  BY PoolAssumption, Zenon DEF Actors
<1>1. ASSUME StartCheckout(t) \/ SizeTimeout(t) \/ GiveUpSize(t) \/ TakeActive(t)
      PROVE  \E l \in {"enter", "size_timeout", "idle", "acquire"} : Onward(t, l)
  BY <1>1, Zenon DEF StartCheckout, SizeTimeout, GiveUpSize, TakeActive, Onward, Goto, NewPcs, maint
<1>2. ASSUME TakeSlotOrWait(t), pc[t] \in {"enter", "size_wait"}
      PROVE  \E l \in {"idle", "size_wait", "slot"} : Onward(t, l)
  BY <1>2 DEF TakeSlotOrWait, Onward, Goto, NewPcs, maint
<1>3. ASSUME InterruptedSlot(t) \/ FailCheckout(t) \/ ReleaseSlot(t)
      PROVE  \E l \in {"idle"} : Onward(t, l)
  BY <1>3, Zenon DEF InterruptedSlot, FailCheckout, ReleaseSlot, Onward, Goto, NewPcs, maint
<1>4. ASSUME ConnTimeout(t) \/ GiveUpConn(t) \/ NotPerished(t) \/ InterruptedWait(t)
      PROVE  \E l \in {"conn_timeout", "fail", "got", "idle"} : Onward(t, l)
  BY <1>4, Zenon DEF ConnTimeout, GiveUpConn, NotPerished, InterruptedWait, Onward, Goto, NewPcs, maint
<1>5. ASSUME Unpend(t) \/ RegisterContext(t)
      PROVE  \E l \in {"fail", "got", "use"} : Onward(t, l)
  BY <1>5, Zenon DEF Unpend, RegisterContext, Onward, Goto, NewPcs, maint
<1>6. ASSUME FinishUse(t) \/ RaiseInUse(t) \/ Unpin(t)
      PROVE  \E l \in {"checkin", "pinned"} : Onward(t, l)
  BY <1>6, Zenon DEF FinishUse, RaiseInUse, Unpin, Onward, Goto, NewPcs, maint
<1>7. ASSUME \E l : Onward(t, l) PROVE UsableInv'
  BY <1>7, OnwardStep
<1>8. ASSUME PopOrConnectOrWait(t), pc[t] \in {"acquire", "conn_wait"} PROVE UsableInv'
  <2>0. UNCHANGED <<gens, state, reference>> /\ DOMAIN conn = Actors
    BY <1>8, Zenon DEF PopOrConnectOrWait, maint, TypeInv, TypeOK
  <2>1. CASE UNCHANGED <<conns, conn>> /\ (Goto(t, "fail") \/ Goto(t, "conn_wait"))
    <3>1. Onward(t, "fail") \/ Onward(t, "conn_wait")
      BY <1>8, <2>0, <2>1 DEF Onward, Goto, NewPcs
    <3> QED
      BY <3>1, <1>7, Zenon
  <2>2. CASE /\ state = "READY" /\ conns # <<>> /\ conns' = Tail(conns)
             /\ Hold(t, Head(conns)) /\ Goto(t, "check")
    <3>1. conns \in Seq(Connection)
      BY Zenon DEF TypeInv, TypeOK
    <3>2. 1 \in DOMAIN conns /\ Head(conns) = conns[1]
      BY <2>2, <3>1
    <3>3. \A i \in DOMAIN conns' : i + 1 \in DOMAIN conns /\ conns'[i] = conns[i + 1]
      BY <2>2, <3>1
    <3>4. \A i \in DOMAIN conns' : Pooled(conns'[i], gens)
      BY <3>3, Zenon DEF UsableInv
    <3>5. Pooled(conns[1], gens) /\ conns[1] \in Connection
      BY <3>1, <3>2 DEF UsableInv
    <3>6. Carried("check", conns[1], gens)
      BY <3>5, <2>0 DEF Pooled, Carried, NewPcs, Connection, TypeInv, TypeOK, NoGen
    <3>7. conn'[t] = conns[1] /\ \A b \in Actors \ {t} : conn'[b] = conn[b]
      BY <1>0, <2>0, <2>2, <3>2, Zenon DEF Hold
    <3>8. Handled(t, "check")
      BY <1>0, <2>0, <2>2, <3>4, <3>6, <3>7, Zenon DEF Handled, Goto, Late
    <3> QED
      BY <3>8, <1>0, HandledStep
  <2>3. CASE Hold(t, TmpContext) /\ Goto(t, "socket") /\ UNCHANGED conns
    <3>1. conn'[t] = TmpContext /\ \A b \in Actors \ {t} : conn'[b] = conn[b]
      BY <1>0, <2>0, <2>3, Zenon DEF Hold
    <3>2. Carried("socket", TmpContext, gens)
      BY DEF Carried, NewPcs, TmpContext, NoGen, TypeInv, TypeOK, AllServices
    <3>3. Handled(t, "socket")
      BY <1>0, <2>0, <2>3, <3>1, <3>2, Zenon DEF Handled, Goto, Late, UsableInv
    <3> QED
      BY <3>3, <1>0, HandledStep
  <2> QED
    BY <1>8, <2>1, <2>2, <2>3, Zenon DEF PopOrConnectOrWait
<1>9. ASSUME Perished(t) \/ InterruptedAcquire(t) PROVE UsableInv'
  <2>1. Handled(t, "acquire") \/ Handled(t, "fail")
    BY <1>0, <1>9, Zenon DEF Perished, InterruptedAcquire, Handled, Goto, Hold, Late, Carried, UsableInv, maint, TypeInv, TypeOK
  <2> QED
    BY <2>1, <1>0, HandledStep
<1>10. ASSUME BreakConn(t) PROVE UsableInv'
  <2>1. Handled(t, pc[t])
    BY <1>0, <1>10, Zenon DEF BreakConn, Handled, Hold, Late, Carried, UsableInv, maint, TypeInv, TypeOK
  <2> QED
    BY <2>1, <1>0, HandledStep
<1>11. ASSUME StartCheckin(t) PROVE UsableInv'
  <2>1. Carried("append", conn[t], gens)
    BY <1>0, <1>11, Zenon DEF StartCheckin, Carried, UsableInv, NewPcs
  <2>2. Handled(t, "release") \/ Handled(t, "append")
    BY <1>0, <1>11, <2>1, Zenon DEF StartCheckin, Handled, Goto, Hold, Late, Carried, UsableInv, maint, TypeInv, TypeOK
  <2> QED
    BY <2>2, <1>0, HandledStep
<1>12. ASSUME AppendConn(t) PROVE UsableInv'
  <2>1. conn[t] \in Connection /\ conn[t] # NoConn
    BY <1>0, <1>12, NoConnAssumption DEF AppendConn, TypeInv, Holding, HoldingPcs
  <2>2. \A i \in DOMAIN conns' : Pooled(conns'[i], gens)
    <3>1. CASE Stale(conn[t])
      BY <1>12, <3>1, Zenon DEF AppendConn, UsableInv
    <3>2. CASE ~Stale(conn[t])
      <4>1. Pooled(conn[t], gens)
        BY <1>0, <1>12, <2>1, <3>2, Zenon DEF AppendConn, UsableInv, Carried, Pooled, Stale, NewPcs, Connection
      <4>2. conns \in Seq(Connection) /\ conns' = <<conn[t]>> \o conns
        BY <1>12, <3>2, Zenon DEF AppendConn, TypeInv, TypeOK
      <4>3. \A i \in DOMAIN conns' : conns'[i] = conn[t] \/ \E j \in DOMAIN conns : conns'[i] = conns[j]
        BY <2>1, <4>2, Pushed
      <4> QED
        BY <4>1, <4>3, Zenon DEF UsableInv
    <3> QED
      BY <3>1, <3>2
  <2>3. state = "CLOSED" => conns' = <<>>
    BY <1>0, <1>12, Zenon DEF AppendConn, UsableInv, Late, Stale
  <2>4. Handled(t, "release")
    BY <1>0, <1>12, <2>2, <2>3, Zenon DEF AppendConn, Handled, Goto, Hold, Late, Carried, UsableInv, maint, TypeInv, TypeOK
  <2> QED
    BY <2>4, <1>0, HandledStep
<1>13. ASSUME NEW kind \in Pins, PinConn(t, kind) PROVE UsableInv'
  BY <1>13, Zenon DEF PinConn, UsableInv, maint
<1> QED
  BY <1>1, <1>2, <1>3, <1>4, <1>5, <1>6, <1>7, <1>8, <1>9, <1>10, <1>11, <1>12, <1>13, Zenon
     DEF ThreadStep, CheckoutStep, UseStep, Interrupted, EnterSize, WakeSize, Acquire, WakeConn

\* connect(), in a thread or in the background thread.
LEMMA UsableConnect ==
    ASSUME TypeInv, UsableInv, NEW a \in Actors, ConnectStep(a)
    PROVE  UsableInv'
<1>0. DOMAIN conn = Actors /\ Maint \notin Threads /\ gens \in [AllServices -> Nat]
  BY PoolAssumption, Zenon DEF TypeInv, TypeOK
<1>1. ASSUME ConnectFailed(a), pc[a] \in NewPcs PROVE UsableInv'
  <2>1. conn'[a] = NoConn /\ (\A b \in Actors \ {a} : conn'[b] = conn[b])
    BY <1>0, <1>1, Zenon DEF ConnectFailed, Hold
  <2>2. a = Maint => Background("m_unpend", NoConn, reference, state, gens)
    BY <1>1, Zenon DEF UsableInv, Background, NewPcs
  <2>3. Handled(a, IF a \in Threads THEN "unpend" ELSE "m_unpend")
    BY <1>0, <1>1, <2>1, <2>2, Zenon DEF ConnectFailed, Handled, Goto, Late, Carried, UsableInv
  <2> QED
    BY <2>3, HandledStep
<1>2. ASSUME SocketOpened(a) PROVE UsableInv'
  <2> DEFINE c == [conn[a] EXCEPT !.gen = gens[NoService]]
  <2>1. conn[a] \in Connection /\ conn[a] # NoConn
    BY <1>2, NoConnAssumption DEF SocketOpened, TypeInv, Holding, HoldingPcs
  <2>2. c.gen = gens[NoService] /\ c.svc = NoService
    BY <1>2, <2>1, Zenon DEF SocketOpened, UsableInv, Carried, NewPcs, Connection
  <2>3. conn'[a] = c /\ (\A b \in Actors \ {a} : conn'[b] = conn[b])
    BY <1>0, <1>2, Zenon DEF SocketOpened, Hold
  <2> HIDE DEF c
  <2>4. Carried("hello", c, gens)
    BY <1>0, <2>2 DEF Carried, NewPcs, AllServices
  <2>5. a = Maint => Background("hello", c, reference, state, gens)
    BY <1>2, <2>2, Zenon DEF SocketOpened, UsableInv, Background
  <2>6. Handled(a, "hello")
    BY <1>0, <1>2, <2>3, <2>4, <2>5, Zenon DEF SocketOpened, Handled, Goto, Late, UsableInv, maint
  <2> QED
    BY <2>6, HandledStep
<1>3. ASSUME HelloDone(a) PROVE UsableInv'
  <2> DEFINE l == IF a \in Threads THEN "unpend" ELSE "m_add"
  <2>1. conn[a] \in Connection /\ conn[a] # NoConn
    BY <1>3, NoConnAssumption, Zenon DEF HelloDone, TypeInv, Holding, HoldingPcs
  <2>3. /\ conn'[a].ctx = "live" /\ \A b \in Actors \ {a} : conn'[b] = conn[b]
        /\ \/ ~LoadBalanced /\ conn'[a] = conn[a]
           \/ conn'[a].svc \in Services /\ conn'[a].gen = gens[conn'[a].svc]
    <3>1. CASE ~LoadBalanced /\ UNCHANGED conn
      BY <1>3, <3>1, Zenon DEF HelloDone
    <3>2. ASSUME NEW s \in Services, Hold(a, [conn[a] EXCEPT !.svc = s, !.gen = gens[s]])
          PROVE  /\ conn'[a].ctx = "live" /\ \A b \in Actors \ {a} : conn'[b] = conn[b]
                 /\ conn'[a].svc \in Services /\ conn'[a].gen = gens[conn'[a].svc]
      <4> DEFINE c == [conn[a] EXCEPT !.svc = s, !.gen = gens[s]]
      <4>0. c.ctx = conn[a].ctx /\ c.svc = s /\ c.gen = gens[s]
        BY <2>1 DEF Connection
      <4>1. conn'[a] = c
        BY <1>0, <3>2, Zenon DEF Hold
      <4>2. \A b \in Actors \ {a} : conn'[b] = conn[b]
        BY <1>0, <3>2, Zenon DEF Hold
      <4> HIDE DEF c
      <4> QED
        BY <1>3, <4>0, <4>1, <4>2, Zenon DEF HelloDone
    <3> QED
      BY <1>3, <3>1, <3>2, Zenon DEF HelloDone
  <2>4. Carried(l, conn'[a], gens)
    <3>1. l \notin NewPcs
      BY DEF NewPcs
    <3> HIDE DEF l
    <3>2. CASE ~LoadBalanced /\ conn'[a] = conn[a]
      BY <1>3, <2>1, <2>3, <3>1, <3>2, Zenon DEF HelloDone, UsableInv, Carried
    <3>3. CASE conn'[a].svc \in Services /\ conn'[a].gen = gens[conn'[a].svc]
      <4>1. conn'[a].svc # NoService /\ gens[conn'[a].svc] \in Nat
        BY <1>0, <3>3, PoolAssumption, Zenon DEF AllServices
      <4> QED
        BY <2>3, <3>1, <3>3, <4>1 DEF Carried
    <3> QED
      BY <2>3, <3>2, <3>3
  <2>5. a = Maint => Background(l, conn'[a], reference, state, gens)
    BY <1>0, <1>3, <2>3, Zenon DEF HelloDone, UsableInv, Background
  <2>6. Handled(a, l)
    BY <1>0, <1>3, <2>3, <2>4, <2>5, Zenon DEF HelloDone, Handled, Goto, Late, UsableInv, maint
  <2> QED
    BY <2>6, HandledStep
<1> QED
  BY <1>1, <1>2, <1>3 DEF ConnectStep, SocketFailed, HelloFailed, NewPcs

\* remove_stale_sockets, outside connect().
LEMMA UsableMaint ==
    ASSUME TypeInv, UsableInv, StartMaint \/ (MaintStep /\ ~ConnectStep(Maint))
    PROVE  UsableInv'
<1>0. DOMAIN conn = Actors /\ Maint \in Actors /\ Maint \notin Threads /\ gens \in [AllServices -> Nat]
  BY PoolAssumption, Zenon DEF TypeInv, TypeOK, Actors
<1> DEFINE Goes == \E l : MaintOnward(l)
<1>00. ASSUME Goes PROVE UsableInv'
  BY <1>00, MaintOnwardStep
<1> HIDE DEF Goes
<1>1. ASSUME StartMaint PROVE UsableInv'
  <2>1. Background("m_state", conn[Maint], gens[NoService], state, gens)
    BY <1>0 DEF Background, AllServices
  <2>2. Carried("m_state", conn[Maint], gens)
    BY <1>0, <1>1, Zenon DEF StartMaint, UsableInv, Carried, NewPcs
  <2>3. Handled(Maint, "m_state")
    BY <1>0, <1>1, <2>1, <2>2, Zenon DEF StartMaint, Handled, Goto, UsableInv
  <2> QED
    BY <1>0, <2>3, HandledStep
<1>2. ASSUME MaintState PROVE UsableInv'
  <2>1. MaintOnward("m_idle") \/ MaintOnward("idle")
    BY <1>2, Zenon DEF MaintState, MaintOnward, Goto, NewPcs, maint
  <2> QED
    BY <2>1, <1>00 DEF Goes
<1>3. ASSUME MaintIdle PROVE UsableInv'
  <2>1. PICK n \in 0..Len(conns) : conns' = SubSeq(conns, 1, n)
    BY <1>3, Zenon DEF MaintIdle
  <2>2. conns \in Seq(Connection)
    BY Zenon DEF TypeInv, TypeOK
  <2>3. /\ \A i \in DOMAIN conns' : i \in DOMAIN conns /\ conns'[i] = conns[i]
        /\ conns = <<>> => conns' = <<>>
    BY <2>1, <2>2
  <2>4. MaintOnward("m_size")
    BY <1>3, <2>3 DEF MaintIdle, MaintOnward, Goto, NewPcs, maint
  <2> QED
    BY <2>4, <1>00 DEF Goes
<1>4. ASSUME MaintSize PROVE UsableInv'
  <2>1. MaintOnward("idle") \/ MaintOnward("m_pend")
    BY <1>4 DEF MaintSize, MaintOnward, Goto, NewPcs, maint
  <2> QED
    BY <2>1, <1>00 DEF Goes
<1>5. ASSUME MaintPend PROVE UsableInv'
  <2>1. CASE pending >= MaxConnecting
    <3>1. MaintOnward("m_release")
      BY <1>5, <2>1 DEF MaintPend, MaintOnward, Goto, NewPcs
    <3> QED
      BY <3>1, <1>00 DEF Goes
  <2>2. CASE ~(pending >= MaxConnecting)
    <3>1. conn'[Maint] = TmpContext /\ \A b \in Actors \ {Maint} : conn'[b] = conn[b]
      BY <1>0, <1>5, <2>2, Zenon DEF MaintPend, Hold
    <3>2. Carried("socket", TmpContext, gens)
      BY <1>0 DEF Carried, NewPcs, TmpContext, NoGen, AllServices
    <3>3. Background("socket", TmpContext, reference, state, gens)
      BY <1>5, Zenon DEF MaintPend, UsableInv, Background
    <3>4. Handled(Maint, "socket")
      BY <1>0, <1>5, <2>2, <3>1, <3>2, <3>3, Zenon DEF MaintPend, Handled, Goto, UsableInv
    <3> QED
      BY <1>0, <3>4, HandledStep
  <2> QED
    BY <2>1, <2>2
<1>6. ASSUME MaintAdd PROVE UsableInv'
  <2>1. conn[Maint] \in Connection /\ conn[Maint] # NoConn
    BY <1>0, <1>6, NoConnAssumption DEF MaintAdd, TypeInv, Holding, HoldingPcs
  <2>2. \A i \in DOMAIN conns' : Pooled(conns'[i], gens)
    <3>1. CASE gens[NoService] # reference
      BY <1>6, <3>1, Zenon DEF MaintAdd, UsableInv
    <3>2. CASE gens[NoService] = reference
      <4>1. Pooled(conn[Maint], gens)
        BY <1>0, <1>6, <2>1, <3>2, Zenon DEF MaintAdd, UsableInv, Background, Carried, Pooled, NewPcs, Connection
      <4>2. conns \in Seq(Connection) /\ conns' = <<conn[Maint]>> \o conns
        BY <1>6, <3>2, Zenon DEF MaintAdd, TypeInv, TypeOK
      <4>3. \A i \in DOMAIN conns' : conns'[i] = conn[Maint] \/ \E j \in DOMAIN conns : conns'[i] = conns[j]
        BY <2>1, <4>2, Pushed
      <4> QED
        BY <4>1, <4>3, Zenon DEF UsableInv
    <3> QED
      BY <3>1, <3>2
  <2>3. state = "CLOSED" => conns' = <<>>
    BY <1>6, Zenon DEF MaintAdd, UsableInv, Background
  <2>4. Background("m_unpend", NoConn, reference, state, gens)
    BY <1>6, Zenon DEF MaintAdd, UsableInv, Background
  <2>5. conn'[Maint] = NoConn /\ \A b \in Actors \ {Maint} : conn'[b] = conn[b]
    BY <1>0, <1>6, Zenon DEF MaintAdd, Hold
  <2>6. Handled(Maint, "m_unpend")
    BY <1>0, <1>6, <2>2, <2>3, <2>4, <2>5, Zenon DEF MaintAdd, Handled, Goto, Carried
  <2> QED
    BY <1>0, <2>6, HandledStep, SMTT(30)
<1>7. ASSUME MaintUnpend PROVE UsableInv'
  <2>1. MaintOnward("m_release")
    BY <1>7 DEF MaintUnpend, MaintOnward, Goto, NewPcs, maint
  <2> QED
    BY <2>1, <1>00 DEF Goes
<1>8. ASSUME MaintRelease PROVE UsableInv'
  <2>1. MaintOnward("idle") \/ MaintOnward("m_size")
    BY <1>8, Zenon DEF MaintRelease, MaintOnward, Goto, NewPcs, maint
  <2> QED
    BY <2>1, <1>00 DEF Goes
<1> QED
  BY <1>1, <1>2, <1>3, <1>4, <1>5, <1>6, <1>7, <1>8 DEF MaintStep

\* _PoolGeneration.inc: no generation goes back, and that of svc (of every
\* service, if svc is None) and the overall one move on.
LEMMA IncGenFacts ==
    ASSUME gens \in [AllServices -> Nat], NEW svc \in AllServices, IncGen(svc),
           NEW s \in AllServices
    PROVE  /\ gens[s] \in Nat /\ gens'[s] \in Nat /\ gens[s] <= gens'[s]
           /\ svc = NoService \/ s \in {svc, NoService} => gens[s] < gens'[s]
           /\ svc # NoService /\ s \notin {svc, NoService} => gens'[s] = gens[s]
  BY DEF IncGen

\* _reset keeps connections of other services only.
LEMMA DropConnsKeeps ==
    ASSUME conns \in Seq(Connection), NEW svc, DropConns(svc), NEW i \in DOMAIN conns'
    PROVE  svc # NoService /\ \E j \in DOMAIN conns : conns'[i] = conns[j] /\ conns[j].svc # svc
<1>1. svc # NoService
  BY DEF DropConns
<1>2. PICK n \in 0..Len(conns) : \E keep \in [1..n -> 1..Len(conns)] :
            /\ {keep[k] : k \in 1..n} = {k \in 1..Len(conns) : conns[k].svc # svc}
            /\ conns' = [k \in 1..n |-> conns[keep[k]]]
  BY <1>1, Zenon DEF DropConns
<1>3. PICK keep \in [1..n -> 1..Len(conns)] :
            /\ {keep[k] : k \in 1..n} = {k \in 1..Len(conns) : conns[k].svc # svc}
            /\ conns' = [k \in 1..n |-> conns[keep[k]]]
  BY <1>2, Zenon
<1>4. i \in 1..n /\ conns'[i] = conns[keep[i]]
  BY <1>3
<1>5. keep[i] \in {k \in 1..Len(conns) : conns[k].svc # svc}
  BY <1>3, <1>4
<1> QED
  BY <1>1, <1>4, <1>5

\* ready(), reset() and close(): whatever was carried or referenced is stale.
LEMMA UsableSdam ==
    ASSUME TypeInv, UsableInv, SdamStep
    PROVE  UsableInv'
<1>0. /\ DOMAIN conn = Actors /\ Maint \in Actors /\ Maint \notin Threads
      /\ gens \in [AllServices -> Nat] /\ NoService \in AllServices
      /\ conns \in Seq(Connection) /\ conn \in [Actors -> Connection \cup {NoConn}]
  BY PoolAssumption, Zenon DEF TypeInv, TypeOK, Actors, AllServices
<1>1. CASE Ready
  <2>1. state = "PAUSED" /\ state' = "READY" /\ UNCHANGED <<conns, gens, pc, conn, reference>>
    BY <1>1 DEF Ready, maint
  <2> QED
    BY <2>1, Zenon DEF UsableInv, Background, Late
<1>2. ASSUME NEW newState, NEW svc \in AllServices, NEW interrupt \in BOOLEAN,
             ResetPool(newState, svc, interrupt),
             svc # NoService => newState # "CLOSED" /\ LoadBalanced,
             interrupt => svc = NoService
      PROVE  UsableInv'
  <2>0. /\ state # "CLOSED" /\ state' = newState /\ UNCHANGED <<pc, reference>>
        /\ IncGen(svc) /\ DropConns(svc)
    BY <1>2, Zenon DEF ResetPool, maint
  <2>1. ASSUME NEW s \in AllServices
        PROVE  /\ gens[s] \in Nat /\ gens'[s] \in Nat /\ gens[s] <= gens'[s]
               /\ svc = NoService \/ s \in {svc, NoService} => gens[s] < gens'[s]
               /\ svc # NoService /\ s \notin {svc, NoService} => gens'[s] = gens[s]
    BY <1>0, <2>0, IncGenFacts, Zenon
  <2>2. ASSUME NEW a \in Actors
        PROVE  \/ conn'[a] = conn[a]
               \/ /\ interrupt /\ conn[a] # NoConn /\ conn'[a] # NoConn
                  /\ conn'[a].gen = conn[a].gen /\ conn'[a].svc = conn[a].svc
    <3>1. CASE interrupt /\ a \in active_contexts /\ conn[a] # NoConn
      <4> DEFINE c == [conn[a] EXCEPT !.ctx = "cancelled"]
      <4>1. conn[a] \in Connection
        BY <1>0, <3>1
      <4>2. c \in Connection /\ c.gen = conn[a].gen /\ c.svc = conn[a].svc
        BY <4>1 DEF Connection
      <4>3. conn'[a] = c
        BY <1>2, <3>1, Zenon DEF ResetPool
      <4> HIDE DEF c
      <4> QED
        BY <3>1, <4>2, <4>3, NoConnAssumption
    <3>2. CASE ~(interrupt /\ a \in active_contexts /\ conn[a] # NoConn)
      BY <1>2, <3>2, Zenon DEF ResetPool
    <3> QED
      BY <3>1, <3>2, Zenon
  <2>3. ASSUME NEW a \in Actors, conn[a] # NoConn
        PROVE  /\ conn[a].svc \in AllServices /\ conn[a].gen \in Int
               /\ conn[a].gen <= gens[conn[a].svc]
               /\ conn'[a].svc = conn[a].svc /\ conn'[a].gen = conn[a].gen
               /\ conn'[a].gen <= gens'[conn'[a].svc]
               /\ svc = NoService => conn'[a].gen # gens'[conn'[a].svc]
    <3>1. conn[a] \in Connection
      BY <1>0, <2>3
    <3>2. conn[a].svc \in AllServices /\ conn[a].gen \in Int
      BY <3>1 DEF Connection, NoGen
    <3>3. conn[a].gen <= gens[conn[a].svc]
      BY <2>3, Zenon DEF UsableInv, Carried
    <3>4. conn'[a].svc = conn[a].svc /\ conn'[a].gen = conn[a].gen
      BY <2>2
    <3> QED
      BY <2>1, <3>2, <3>3, <3>4
  <2>4. ASSUME NEW a \in Actors PROVE Carried(pc[a], conn'[a], gens')
    <3>1. CASE conn'[a] = NoConn
      BY <3>1 DEF Carried
    <3>2. CASE conn'[a] # NoConn
      <4>1. conn[a] # NoConn /\ Carried(pc[a], conn[a], gens)
        BY <2>2, <3>2, Zenon DEF UsableInv
      <4>2. conn'[a] = conn[a] /\ conn[a].gen # gens[conn[a].svc] => conn'[a].gen # gens'[conn'[a].svc]
        BY <2>1, <2>3, <4>1, SMTT(30)
      <4>3. conn'[a] # conn[a] => conn'[a].gen # gens'[conn'[a].svc]
        BY <1>2, <2>2, <2>3, <4>1, Zenon
      <4> QED
        BY <2>3, <4>1, <4>2, <4>3, Zenon DEF Carried
    <3> QED
      BY <3>1, <3>2
  <2>5. ASSUME NEW t \in Threads PROVE Late(pc[t], conn'[t], newState, gens')
    <3>1. t \in Actors
      BY DEF Actors
    <3>2. pc[t] = "append" => conn[t] # NoConn
      BY <3>1, NoConnAssumption DEF TypeInv, Holding, HoldingPcs
    <3> QED
      BY <1>2, <2>3, <3>1, <3>2, Zenon DEF Late
  <2>6. Background(pc[Maint], conn'[Maint], reference, newState, gens')
    <3>1. reference \in Nat /\ reference <= gens[NoService]
      BY Zenon DEF UsableInv, Background, TypeInv, TypeOK
    <3>2. gens[NoService] \in Nat /\ gens'[NoService] \in Nat /\ gens[NoService] < gens'[NoService]
      BY <1>0, <2>1
    <3>3. reference <= gens'[NoService] /\ reference # gens'[NoService]
      BY <3>1, <3>2
    <3> QED
      BY <3>3, Zenon DEF Background
  <2>8. ASSUME NEW i \in DOMAIN conns' PROVE Pooled(conns'[i], gens')
    <3>1. PICK j \in DOMAIN conns : conns'[i] = conns[j] /\ conns[j].svc # svc /\ svc # NoService
      BY <1>0, <2>0, DropConnsKeeps
    <3>2. Pooled(conns[j], gens)
      BY Zenon DEF UsableInv
    <3>3. conns[j].svc \in AllServices /\ conns[j].svc # NoService
      <4>1. conns[j] \in Connection
        BY <1>0
      <4>2. conns[j].svc \in AllServices
        BY <4>1 DEF Connection
      <4> QED
        BY <1>2, <3>1, <3>2, <4>2, Zenon DEF Pooled
    <3>4. gens'[conns[j].svc] = gens[conns[j].svc]
      BY <2>1, <3>1, <3>3
    <3> QED
      BY <3>1, <3>2, <3>4 DEF Pooled
  <2>7. newState = "CLOSED" => conns' = <<>>
    BY <1>2, <2>0 DEF DropConns
  <2> QED
    BY <2>0, <2>4, <2>5, <2>6, <2>7, <2>8, Zenon DEF UsableInv
<1>3. CASE Reset
  BY <1>0, <1>2, <1>3, Zenon DEF Reset
<1>4. CASE ResetInterrupt
  BY <1>0, <1>2, <1>4, Zenon DEF ResetInterrupt
<1>5. CASE Close
  BY <1>0, <1>2, <1>5, Zenon DEF Close
<1>6. ASSUME NEW svc \in Services, ResetService(svc) PROVE UsableInv'
  <2>1. svc \in AllServices /\ LoadBalanced /\ state # "CLOSED" /\ ResetPool(state, svc, FALSE)
    BY <1>6, Zenon DEF ResetService, ResetPool, AllServices, LoadBalanced
  <2> QED
    BY <1>2, <2>1, Zenon
<1> QED
  BY <1>1, <1>3, <1>4, <1>5, <1>6, Zenon DEF SdamStep

LEMMA UsableInit == Init => UsableInv
<1> SUFFICES ASSUME Init PROVE UsableInv
  OBVIOUS
<1>1. Maint \in Actors /\ NoService \in AllServices /\ Threads \subseteq Actors
  BY Zenon DEF Actors, AllServices
<1> QED
  BY <1>1 DEF Init, UsableInv, Carried, Late, Background

LEMMA UsableNext == TypeInv /\ UsableInv /\ [Next]_vars => UsableInv'
<1> SUFFICES ASSUME TypeInv, UsableInv, [Next]_vars PROVE UsableInv'
  OBVIOUS
<1>1. ASSUME NEW t \in Threads, ThreadStep(t) PROVE UsableInv'
  <2>1. t \in Actors
    BY Zenon DEF Actors
  <2> QED
    BY <1>1, <2>1, UsableThread, UsableConnect
<1>2. CASE StartMaint \/ MaintStep
  <2>1. Maint \in Actors
    BY Zenon DEF Actors
  <2> QED
    BY <1>2, <2>1, UsableMaint, UsableConnect
<1>3. CASE SdamStep
  BY <1>3, UsableSdam
<1>4. CASE UNCHANGED vars
  BY <1>4, Zenon DEF vars, maint, UsableInv
<1> QED
  BY <1>1, <1>2, <1>3, <1>4, Zenon DEF Next

\* What waits in the idle list belongs to the current generation, is not
\* cancelled, and a closed pool keeps nothing: checkin (which reads `closed`
\* without the lock) and remove_stale_sockets (which connects without it) race
\* with reset() and close() in vain.
THEOREM PooledUsableCorrect == Spec => []PooledUsable
<1>1. TypeInv /\ UsableInv => PooledUsable
  BY DEF UsableInv, PooledUsable, Pooled, Stale
<1> QED
  BY <1>1, TypeInit, TypeNext, UsableInit, UsableNext, PTL DEF Spec

-----------------------------------------------------------------------------
(* No notify is lost.                                                      *)

\* Of the threads W in a queue, those that notify() can still pick are q, and
\* wait() is about to return to the others: there are enough of them for n
\* places, or nobody is left waiting.
Wakes(W, q, n) == q # {} => n <= Cardinality(W \ q)

LEMMA WokenFinite ==
    ASSUME NEW W, IsFiniteSet(W), NEW q
    PROVE  IsFiniteSet(W \ q) /\ Cardinality(W \ q) \in Nat
<1>1. IsFiniteSet(W \ q)
  BY FS_Subset, W \ q \subseteq W
<1> QED
  BY <1>1, FS_CardinalityType

LEMMA WakesFewer ==
    ASSUME NEW W, IsFiniteSet(W), NEW q, NEW n \in Int, NEW m \in Int, m <= n, Wakes(W, q, n)
    PROVE  Wakes(W, q, m)
  BY WokenFinite DEF Wakes

\* notify() makes up for one more place.
LEMMA WakesNotify ==
    ASSUME NEW W, IsFiniteSet(W), NEW q, q \subseteq W, NEW r \in AfterNotify(q),
           NEW n \in Int, Wakes(W, q, n)
    PROVE  Wakes(W, r, n + 1)
<1>1. CASE q = {}
  BY <1>1 DEF AfterNotify, Wakes
<1>2. CASE q # {}
  <2>1. PICK w \in q : r = q \ {w}
    BY <1>2, Zenon DEF AfterNotify
  <2>2. W \ r = (W \ q) \cup {w} /\ w \notin W \ q
    BY <2>1
  <2>3. Cardinality(W \ r) = Cardinality(W \ q) + 1
    BY <2>2, WokenFinite, FS_AddElement, Zenon
  <2> QED
    BY <1>2, <2>3, WokenFinite DEF Wakes
<1> QED
  BY <1>1, <1>2

\* A thread that returns from wait() takes a place.
LEMMA WakesTake ==
    ASSUME NEW W, IsFiniteSet(W), NEW q, NEW t \in W \ q, NEW n \in Int, Wakes(W, q, n)
    PROVE  Wakes(W \ {t}, q, n - 1)
<1>1. (W \ {t}) \ q = (W \ q) \ {t}
  OBVIOUS
<1>2. Cardinality((W \ q) \ {t}) = Cardinality(W \ q) - 1
  BY WokenFinite, FS_RemoveElement, Zenon
<1> QED
  BY <1>1, <1>2, WokenFinite DEF Wakes

\* A thread that times out passes the notify it may have received on, if there
\* is a place.
LEMMA WakesGiveUp ==
    ASSUME NEW W, IsFiniteSet(W), NEW q, q \subseteq W, NEW t \in W, NEW place,
           NEW r \in AfterTimeout(q, t, place), NEW n \in Int, ~place => n <= 0,
           Wakes(W, q, n)
    PROVE  Wakes(W \ {t}, r, n)
<1>0. IsFiniteSet(W \ {t})
  BY WokenFinite, Zenon
<1>1. CASE ~place
  BY <1>0, <1>1, WokenFinite DEF Wakes
<1>2. CASE place /\ q \ {t} # {}
  <2>1. Wakes(W \ {t}, q \ {t}, n - 1)
    <3>1. CASE t \in q
      <4>1. (W \ {t}) \ (q \ {t}) = W \ q
        BY <3>1
      <4> QED
        BY <3>1, <4>1, WokenFinite DEF Wakes
    <3>2. CASE t \notin q
      <4>1. q \ {t} = q
        BY <3>2
      <4> QED
        BY <3>2, <4>1, WakesTake
    <3> QED
      BY <3>1, <3>2
  <2>2. r \in AfterNotify(q \ {t}) /\ q \ {t} \subseteq W \ {t} /\ n - 1 \in Int /\ (n - 1) + 1 = n
    BY <1>2 DEF AfterTimeout
  <2>3. Wakes(W \ {t}, r, (n - 1) + 1)
    BY <1>0, <2>1, <2>2, WakesNotify, Zenon
  <2> QED
    BY <2>2, <2>3
<1>3. CASE place /\ q \ {t} = {}
  BY <1>3 DEF AfterTimeout, AfterNotify, Wakes
<1> QED
  BY <1>1, <1>2, <1>3

SizePcs == {"size_wait", "size_timeout"}
ConnPcs == {"conn_wait", "conn_timeout"}

\* Idle connections and free places to connect.
Places == Len(conns) + MaxConnecting - pending

\* With minPoolSize 0 the background thread never gets to connect().
IdleMaintPcs == {"idle", "m_state", "m_idle", "m_size"}

\* SizeWakeup and ConnWakeup look at the threads that sleep; a thread whose wait
\* has timed out and which notify() can still pick counts as well.
QueueInv ==
    /\ Wakes(At(SizePcs), sizeWait, MaxPoolSize - requests)
    /\ MinPoolSize = 0 => Wakes(At(ConnPcs), connWait, Places) /\ pc[Maint] \in IdleMaintPcs
    /\ state # "READY" => sizeWait = {} /\ connWait = {}

\* What a step of an actor outside both queues does to them.
Passes(a, l) ==
    /\ pc' = [pc EXCEPT ![a] = l] /\ UNCHANGED state
    /\ pc[a] \notin SizePcs \cup ConnPcs /\ l \notin SizePcs \cup ConnPcs
    /\ a = Maint /\ MinPoolSize = 0 => l \in IdleMaintPcs
    /\ \/ UNCHANGED sizeWait /\ requests' \in {requests, requests + 1}
       \/ NotifySize /\ requests' = requests - 1
    /\ \/ UNCHANGED <<connWait, conns, pending>>
       \/ UNCHANGED connWait /\ (MinPoolSize = 0 => Places' <= Places)
       \/ NotifyConn /\ Places' = Places + 1

\* The numbers, and the queues.
QueueFacts ==
    /\ requests \in Int /\ pending \in Int /\ Len(conns) \in Nat /\ Places \in Int
    /\ MaxPoolSize \in Int /\ MaxConnecting \in Int /\ DOMAIN pc = Actors
    /\ sizeWait \subseteq At(SizePcs) /\ connWait \subseteq At(ConnPcs)
    /\ IsFiniteSet(At(SizePcs)) /\ IsFiniteSet(At(ConnPcs))
    /\ Maint \in Actors /\ Threads \subseteq Actors /\ Maint \notin Threads

LEMMA Queues == ASSUME TypeInv PROVE QueueFacts
<1>1. /\ requests \in Int /\ pending \in Int /\ conns \in Seq(Connection) /\ DOMAIN pc = Actors
      /\ sizeWait \subseteq At(SizePcs) /\ connWait \subseteq At(ConnPcs)
  BY Zenon DEF TypeInv, TypeOK, SizePcs, ConnPcs
<1>2. Maint \in Actors /\ Threads \subseteq Actors /\ Maint \notin Threads
  BY PoolAssumption, Zenon DEF Actors
<1> QED
  BY <1>1, <1>2, AtFinite, PoolAssumption DEF QueueFacts, Places

LEMMA QueueMove ==
    ASSUME QueueFacts, NEW a \in Actors, NEW l, pc' = [pc EXCEPT ![a] = l], NEW S
    PROVE  At(S)' = IF l \in S THEN At(S) \cup {a} ELSE At(S) \ {a}
  BY DEF At, QueueFacts

LEMMA PassStep ==
    ASSUME TypeInv, TypeInv', QueueInv, NEW a \in Actors, NEW l, Passes(a, l)
    PROVE  QueueInv'
<1>0. QueueFacts /\ Places' \in Int
  <2>1. conns' \in Seq(Connection) /\ pending' \in Int
    BY Zenon DEF TypeInv, TypeOK
  <2> QED
    BY <2>1, Queues, SMTT(30) DEF Places, QueueFacts
<1>1. At(SizePcs)' = At(SizePcs) /\ At(ConnPcs)' = At(ConnPcs)
  BY <1>0, QueueMove DEF Passes, At
<1>2. Wakes(At(SizePcs), sizeWait', MaxPoolSize - requests')
  <2>1. CASE UNCHANGED sizeWait /\ requests' \in {requests, requests + 1}
    <3>0. requests \in Int /\ MaxPoolSize \in Int
      BY <1>0 DEF QueueFacts
    <3>1. /\ MaxPoolSize - requests \in Int /\ MaxPoolSize - requests' \in Int
          /\ MaxPoolSize - requests' <= MaxPoolSize - requests
      <4>1. requests' = requests \/ requests' = requests + 1
        BY <2>1, Zenon
      <4> QED
        BY <3>0, <4>1
    <3> QED
      BY <1>0, <2>1, <3>1, WakesFewer, Zenon DEF QueueInv, QueueFacts
  <2>2. CASE NotifySize /\ requests' = requests - 1
    <3>1. Wakes(At(SizePcs), sizeWait', (MaxPoolSize - requests) + 1)
      BY <1>0, <2>2, WakesNotify DEF QueueInv, QueueFacts, NotifySize
    <3>2. (MaxPoolSize - requests) + 1 = MaxPoolSize - requests'
      BY <1>0, <2>2 DEF QueueFacts
    <3> QED
      BY <3>1, <3>2
  <2> QED
    BY <2>1, <2>2, Zenon DEF Passes
<1>3. ASSUME MinPoolSize = 0 PROVE Wakes(At(ConnPcs), connWait', Places')
  <2>1. CASE UNCHANGED <<connWait, conns, pending>>
    BY <1>3, <2>1, Zenon DEF QueueInv, Places
  <2>2. CASE UNCHANGED connWait /\ (MinPoolSize = 0 => Places' <= Places)
    BY <1>0, <1>3, <2>2, WakesFewer, Zenon DEF QueueInv, QueueFacts
  <2>3. CASE NotifyConn /\ Places' = Places + 1
    BY <1>0, <1>3, <2>3, WakesNotify, Zenon DEF QueueInv, QueueFacts, NotifyConn
  <2> QED
    BY <2>1, <2>2, <2>3, Zenon DEF Passes
<1>4. MinPoolSize = 0 => pc'[Maint] \in IdleMaintPcs
  BY <1>0, Zenon DEF Passes, QueueInv, QueueFacts
<1>5. state' # "READY" => sizeWait' = {} /\ connWait' = {}
  BY Zenon DEF Passes, QueueInv, NotifySize, NotifyConn, AfterNotify
<1> QED
  BY <1>1, <1>2, <1>3, <1>4, <1>5, Zenon DEF QueueInv

LEMMA QueueSize ==
    ASSUME TypeInv, TypeInv', QueueInv, NEW t \in Threads,
           EnterSize(t) \/ WakeSize(t) \/ SizeTimeout(t) \/ GiveUpSize(t)
    PROVE  QueueInv'
<1>0. QueueFacts /\ t \in Actors /\ t # Maint
  BY Queues DEF QueueFacts
<1>1. PICK l \in {"idle", "size_wait", "size_timeout", "slot"} : pc' = [pc EXCEPT ![t] = l]
  BY Zenon DEF EnterSize, WakeSize, TakeSlotOrWait, SizeTimeout, GiveUpSize, Goto
<1>2. UNCHANGED <<state, conns, pending, connWait>> /\ pc[t] \notin ConnPcs /\ l \notin ConnPcs
  BY Zenon DEF EnterSize, WakeSize, TakeSlotOrWait, SizeTimeout, GiveUpSize, ConnPcs, slots
<1>3. At(ConnPcs)' = At(ConnPcs) /\ pc'[Maint] = pc[Maint]
  <2>1. At(ConnPcs)' = At(ConnPcs)
    BY <1>0, <1>1, <1>2, QueueMove DEF At
  <2> QED
    BY <2>1, <1>0, <1>1 DEF QueueFacts
<1>4. Wakes(At(SizePcs), sizeWait, MaxPoolSize - requests) /\ MaxPoolSize - requests \in Int
  BY <1>0 DEF QueueInv, QueueFacts
<1>5. Wakes(At(SizePcs)', sizeWait', MaxPoolSize - requests')
      /\ (state # "READY" => sizeWait' = {})
  <2>1. CASE EnterSize(t) \/ WakeSize(t)
    <3>1. TakeSlotOrWait(t)
      BY <2>1 DEF EnterSize, WakeSize
    <3>2. CASE state # "READY"
      BY <3>1, <3>2, Zenon DEF TakeSlotOrWait, QueueInv, Wakes
    <3>3. CASE state = "READY" /\ ~SlotFree
      <4>1. IsFiniteSet(At(SizePcs)')
        BY ActorsFinite, FS_Subset DEF At
      <4> QED
        <5>1. Cardinality(At(SizePcs)' \ sizeWait') \in Nat
          BY <4>1, WokenFinite, Zenon
        <5>2. MaxPoolSize - requests' <= 0 /\ MaxPoolSize - requests' \in Int
          BY <1>0, <3>1, <3>3 DEF TakeSlotOrWait, SlotFree, QueueFacts
        <5> QED
          BY <3>3, <5>1, <5>2 DEF Wakes
    <3>4. CASE state = "READY" /\ SlotFree
      <4>1. pc' = [pc EXCEPT ![t] = "slot"] /\ requests' = requests + 1 /\ sizeWait' = sizeWait
        BY <3>1, <3>4, Zenon DEF TakeSlotOrWait, Goto
      <4>2. At(SizePcs)' = At(SizePcs) \ {t}
        <5>1. "slot" \notin SizePcs
          BY DEF SizePcs
        <5> QED
          BY <1>0, <4>1, <5>1, QueueMove, Zenon
      <4>3. MaxPoolSize - requests' = (MaxPoolSize - requests) - 1
        BY <1>0, <4>1 DEF QueueFacts
      <4>4. CASE t \in At(SizePcs)
        <5>1. t \in At(SizePcs) \ sizeWait
          BY <2>1, <4>4 DEF EnterSize, WakeSize, At, SizePcs
        <5>2. IsFiniteSet(At(SizePcs))
          BY <1>0 DEF QueueFacts
        <5>3. Wakes(At(SizePcs) \ {t}, sizeWait, (MaxPoolSize - requests) - 1)
          BY <1>4, <5>1, <5>2, WakesTake
        <5> QED
          BY <3>4, <4>1, <4>2, <4>3, <5>3
      <4>5. CASE t \notin At(SizePcs)
        <5>1. At(SizePcs) \ {t} = At(SizePcs)
          BY <4>5
        <5>2. MaxPoolSize - requests' \in Int /\ MaxPoolSize - requests' <= MaxPoolSize - requests
          BY <1>4, <4>3
        <5> QED
          BY <1>0, <1>4, <3>4, <4>1, <4>2, <5>1, <5>2, WakesFewer, Zenon DEF QueueFacts
      <4> QED
        BY <4>4, <4>5
    <3> QED
      BY <3>2, <3>3, <3>4
  <2>2. CASE SizeTimeout(t)
    <3>1. At(SizePcs)' = At(SizePcs)
      BY <1>0, <2>2, QueueMove DEF SizeTimeout, Goto, At, SizePcs
    <3> QED
      BY <1>4, <2>2, <3>1, Zenon DEF SizeTimeout, slots, QueueInv
  <2>3. CASE GiveUpSize(t)
    <3>1. /\ pc' = [pc EXCEPT ![t] = "idle"] /\ requests' = requests
          /\ sizeWait' \in AfterTimeout(sizeWait, t, SlotFree) /\ t \in At(SizePcs)
      BY <1>0, <2>3, Zenon DEF GiveUpSize, Goto, slots, At, SizePcs
    <3>2. At(SizePcs)' = At(SizePcs) \ {t}
      <4>1. "idle" \notin SizePcs
        BY DEF SizePcs
      <4> QED
        BY <1>0, <3>1, <4>1, QueueMove, Zenon
    <3>3. ~SlotFree => MaxPoolSize - requests <= 0
      BY <1>0 DEF SlotFree, QueueFacts
    <3>4. Wakes(At(SizePcs) \ {t}, sizeWait', MaxPoolSize - requests)
      BY <1>0, <1>4, <3>1, <3>3, WakesGiveUp, Zenon DEF QueueFacts
    <3> QED
      BY <3>1, <3>2, <3>4 DEF QueueInv, AfterTimeout, AfterNotify
  <2> QED
    BY <2>1, <2>2, <2>3
<1> QED
  BY <1>2, <1>3, <1>5, Zenon DEF QueueInv, Places

LEMMA QueueConn ==
    ASSUME TypeInv, TypeInv', QueueInv, NEW t \in Threads,
           Acquire(t) \/ WakeConn(t) \/ ConnTimeout(t) \/ GiveUpConn(t)
    PROVE  QueueInv'
<1>0. QueueFacts /\ t \in Actors /\ t # Maint /\ conns \in Seq(Connection)
  BY Queues, Zenon DEF QueueFacts, TypeInv, TypeOK
<1>1. PICK l \in {"fail", "conn_wait", "conn_timeout", "check", "socket"} : pc' = [pc EXCEPT ![t] = l]
  BY Zenon DEF Acquire, WakeConn, PopOrConnectOrWait, ConnTimeout, GiveUpConn, Goto
<1>2. UNCHANGED <<state, requests, sizeWait>> /\ pc[t] \notin SizePcs /\ l \notin SizePcs
  BY Zenon DEF Acquire, WakeConn, PopOrConnectOrWait, ConnTimeout, GiveUpConn, SizePcs, slots
<1>3. At(SizePcs)' = At(SizePcs) /\ pc'[Maint] = pc[Maint]
  <2>1. At(SizePcs)' = At(SizePcs)
    BY <1>0, <1>1, <1>2, QueueMove DEF At
  <2> QED
    BY <2>1, <1>0, <1>1 DEF QueueFacts
<1>5. (Wakes(At(ConnPcs), connWait, Places) => Wakes(At(ConnPcs)', connWait', Places'))
      /\ (state # "READY" => connWait' = {})
  <2> SUFFICES /\ Wakes(At(ConnPcs), connWait, Places) => Wakes(At(ConnPcs)', connWait', Places')
               /\ state # "READY" => connWait' = {}
    OBVIOUS
  <2>1. CASE Acquire(t) \/ WakeConn(t)
    <3>1. PopOrConnectOrWait(t)
      BY <2>1 DEF Acquire, WakeConn
    <3>2. CASE state # "READY"
      BY <3>1, <3>2, Zenon DEF PopOrConnectOrWait, QueueInv, Wakes
    <3>3. CASE state = "READY" /\ ~CanConnect /\ UNCHANGED <<conns, pending>>
      <4>1. IsFiniteSet(At(ConnPcs)')
        BY ActorsFinite, FS_Subset DEF At
      <4>2. Places' <= 0 /\ Places' \in Int
        BY <1>0, <3>3 DEF CanConnect, Places, QueueFacts
      <4> QED
        <5>1. Cardinality(At(ConnPcs)' \ connWait') \in Nat
          BY <4>1, WokenFinite, Zenon
        <5> QED
          BY <3>3, <4>2, <5>1 DEF Wakes
    <3>4. CASE state = "READY" /\ l \in {"check", "socket"} /\ Places' = Places - 1 /\ UNCHANGED connWait
      <4>2. At(ConnPcs)' = At(ConnPcs) \ {t}
        <5>1. l \notin ConnPcs
          BY <3>4 DEF ConnPcs
        <5> QED
          BY <1>0, <1>1, <5>1, QueueMove, Zenon
      <4>4. CASE t \in At(ConnPcs)
        <5>1. t \in At(ConnPcs) \ connWait
          BY <2>1, <4>4 DEF Acquire, WakeConn, At, ConnPcs
        <5> QED
          BY <1>0, <3>4, <4>2, <5>1, WakesTake DEF QueueFacts
      <4>5. CASE t \notin At(ConnPcs)
        <5>1. At(ConnPcs) \ {t} = At(ConnPcs)
          BY <4>5
        <5>2. Places' \in Int /\ Places' <= Places
          BY <1>0, <3>4 DEF QueueFacts
        <5> QED
          BY <1>0, <3>4, <4>2, <5>1, <5>2, WakesFewer, Zenon DEF QueueFacts
      <4> QED
        BY <4>4, <4>5
    <3>5. CASE state = "READY" /\ conns # <<>> /\ conns' = Tail(conns) /\ Goto(t, "check")
               /\ UNCHANGED <<pending, connWait>>
      <4>1. Len(conns') = Len(conns) - 1
        BY <1>0, <3>5
      <4>2. Places' = Places - 1
        BY <1>0, <3>5, <4>1 DEF Places, QueueFacts
      <4>3. l = "check"
        BY <1>0, <1>1, <3>5 DEF Goto, QueueFacts
      <4> QED
        BY <3>4, <3>5, <4>2, <4>3
    <3>6. CASE state = "READY" /\ pending' = pending + 1 /\ Goto(t, "socket") /\ UNCHANGED <<conns, connWait>>
      <4>2. Places' = Places - 1
        BY <1>0, <3>6 DEF Places, QueueFacts
      <4>3. l = "socket"
        BY <1>0, <1>1, <3>6 DEF Goto, QueueFacts
      <4> QED
        BY <3>4, <3>6, <4>2, <4>3
    <3> QED
      BY <3>1, <3>2, <3>3, <3>5, <3>6, Zenon DEF PopOrConnectOrWait
  <2>2. CASE ConnTimeout(t)
    <3>1. At(ConnPcs)' = At(ConnPcs)
      BY <1>0, <2>2, QueueMove DEF ConnTimeout, Goto, At, ConnPcs
    <3> QED
      BY <2>2, <3>1, Zenon DEF ConnTimeout, slots, QueueInv, Places
  <2>3. CASE GiveUpConn(t)
    <3>1. /\ pc' = [pc EXCEPT ![t] = "fail"] /\ Places' = Places
          /\ connWait' \in AfterTimeout(connWait, t, CanConnect) /\ t \in At(ConnPcs)
      BY <1>0, <2>3, Zenon DEF GiveUpConn, Goto, slots, At, ConnPcs, Places
    <3>2. At(ConnPcs)' = At(ConnPcs) \ {t}
      <4>1. "fail" \notin ConnPcs
        BY DEF ConnPcs
      <4> QED
        BY <1>0, <3>1, <4>1, QueueMove, Zenon
    <3>3. ~CanConnect => Places <= 0
      BY <1>0 DEF CanConnect, Places, QueueFacts
    <3>4. Wakes(At(ConnPcs), connWait, Places) => Wakes(At(ConnPcs) \ {t}, connWait', Places)
      BY <1>0, <3>1, <3>3, WakesGiveUp, Zenon DEF QueueFacts
    <3> QED
      BY <3>1, <3>2, <3>4, Zenon DEF QueueInv, AfterTimeout, AfterNotify
  <2> QED
    BY <2>1, <2>2, <2>3
<1> QED
  BY <1>2, <1>3, <1>5, Zenon DEF QueueInv

\* One step per action outside the queues: every slot and every place to
\* connect that is given back comes with a notify.
LEMMA QueueThread ==
    ASSUME ~WaitInterrupts, TypeInv, TypeInv', QueueInv, NEW t \in Threads, ThreadStep(t)
    PROVE  QueueInv'
<1>0. QueueFacts /\ t \in Actors /\ t # Maint
  BY Queues DEF QueueFacts
<1>1. ASSUME StartCheckout(t) PROVE \E l \in {"enter"} : Passes(t, l)
  BY <1>0, <1>1 DEF StartCheckout, Passes, Goto, SizePcs, ConnPcs, slots
<1>2. ASSUME TakeActive(t) PROVE \E l \in {"acquire"} : Passes(t, l)
  BY <1>0, <1>2 DEF TakeActive, Passes, Goto, SizePcs, ConnPcs
<1>3. ASSUME InterruptedSlot(t) PROVE \E l \in {"idle"} : Passes(t, l)
  BY <1>0, <1>3 DEF InterruptedSlot, Passes, Goto, SizePcs, ConnPcs
<1>4. ASSUME Perished(t) \/ NotPerished(t) \/ InterruptedAcquire(t)
      PROVE  \E l \in {"acquire", "got", "fail"} : Passes(t, l)
  BY <1>0, <1>4, Zenon DEF Perished, NotPerished, InterruptedAcquire, Passes, Goto, SizePcs, ConnPcs, slots
<1>5. ASSUME SocketFailed(t) \/ HelloFailed(t) PROVE \E l \in {"unpend"} : Passes(t, l)
  BY <1>0, <1>5, Zenon DEF SocketFailed, HelloFailed, Passes, Goto, SizePcs, ConnPcs, ConnectFailed, slots
<1>6. ASSUME SocketOpened(t) PROVE \E l \in {"hello"} : Passes(t, l)
  BY <1>0, <1>6 DEF SocketOpened, Passes, Goto, SizePcs, ConnPcs, slots
<1>7. ASSUME HelloDone(t) PROVE \E l \in {"unpend"} : Passes(t, l)
  BY <1>0, <1>7, Zenon DEF HelloDone, Passes, Goto, SizePcs, ConnPcs, slots
<1>8. ASSUME FailCheckout(t) PROVE \E l \in {"idle"} : Passes(t, l)
  BY <1>0, <1>8 DEF FailCheckout, Passes, Goto, SizePcs, ConnPcs
<1>9. ASSUME RegisterContext(t) PROVE \E l \in {"use"} : Passes(t, l)
  BY <1>0, <1>9 DEF RegisterContext, Passes, Goto, SizePcs, ConnPcs, slots
<1>10. ASSUME FinishUse(t) PROVE \E l \in {"checkin", "pinned"} : Passes(t, l)
  BY <1>0, <1>10, Zenon DEF FinishUse, Passes, Goto, SizePcs, ConnPcs, slots
<1>11. ASSUME RaiseInUse(t) \/ Unpin(t) PROVE \E l \in {"checkin", "pinned"} : Passes(t, l)
  BY <1>0, <1>11, Zenon DEF RaiseInUse, Unpin, Passes, Goto, SizePcs, ConnPcs, slots
<1>12. ASSUME StartCheckin(t) PROVE \E l \in {"release", "append"} : Passes(t, l)
  BY <1>0, <1>12, Zenon DEF StartCheckin, Passes, Goto, SizePcs, ConnPcs, slots
<1>13. ASSUME ReleaseSlot(t) PROVE \E l \in {"idle"} : Passes(t, l)
  BY <1>0, <1>13, Zenon DEF ReleaseSlot, Passes, Goto, SizePcs, ConnPcs
<1>14. ASSUME Unpend(t) PROVE \E l \in {"fail", "got"} : Passes(t, l)
  <2>1. Places' = Places + 1
    BY <1>0, <1>14 DEF Unpend, Places, QueueFacts
  <2> QED
    BY <1>0, <1>14, <2>1, Zenon DEF Unpend, Passes, Goto, SizePcs, ConnPcs
<1>15. ASSUME AppendConn(t) PROVE \E l \in {"release"} : Passes(t, l)
  <2>1. CASE Stale(conn[t])
    BY <1>0, <1>15, <2>1 DEF AppendConn, Passes, Goto, SizePcs, ConnPcs, slots
  <2>2. CASE ~Stale(conn[t])
    <3>1. conn[t] \in Connection /\ conns \in Seq(Connection)
      BY <1>0, <1>15, Zenon DEF AppendConn, TypeInv, TypeOK, Holding, HoldingPcs
    <3>2. Len(<<conn[t]>> \o conns) = Len(conns) + 1
      BY <3>1
    <3>3. Places' = Places + 1
      BY <1>0, <1>15, <2>2, <3>2 DEF AppendConn, Places, QueueFacts, slots
    <3> QED
      BY <1>0, <1>15, <2>2, <3>3, Zenon DEF AppendConn, Passes, Goto, SizePcs, ConnPcs, slots
  <2> QED
    BY <2>1, <2>2
<1>16. ASSUME BreakConn(t) \/ (\E kind \in Pins : PinConn(t, kind)) PROVE QueueInv'
  <2>1. UNCHANGED <<state, conns, slots, sizeWait, connWait, pc>>
    BY <1>16, Zenon DEF BreakConn, PinConn
  <2> QED
    BY <2>1, Zenon DEF QueueInv, Wakes, At, Places, slots
<1>17. ASSUME \E l : Passes(t, l) PROVE QueueInv'
  BY <1>0, <1>17, PassStep
<1> QED
  BY <1>1, <1>2, <1>3, <1>4, <1>5, <1>6, <1>7, <1>8, <1>9, <1>10, <1>11, <1>12, <1>13,
     <1>14, <1>15, <1>16, <1>17, QueueSize, QueueConn, Zenon
     DEF ThreadStep, CheckoutStep, UseStep, ConnectStep, Interrupted, InterruptedWait

LEMMA QueueMaint ==
    ASSUME TypeInv, TypeInv', SizeInv, QueueInv, StartMaint \/ MaintStep
    PROVE  QueueInv'
<1>0. /\ QueueFacts /\ Maint \in Actors /\ conns \in Seq(Connection)
      /\ MinPoolSize = 0 => pc[Maint] \in IdleMaintPcs
  BY Queues, Zenon DEF QueueFacts, TypeInv, TypeOK, QueueInv
<1>1. ASSUME StartMaint \/ MaintState
      PROVE  \E l \in {"m_state", "m_idle", "idle"} : Passes(Maint, l)
  BY <1>1, Zenon DEF StartMaint, MaintState, Passes, Goto, SizePcs, ConnPcs, IdleMaintPcs, slots
<1>2. ASSUME MaintIdle PROVE \E l \in {"m_size"} : Passes(Maint, l)
  <2>1. PICK n \in 0..Len(conns) : conns' = SubSeq(conns, 1, n)
    BY <1>2, Zenon DEF MaintIdle
  <2>2. Len(conns') <= Len(conns) /\ Len(conns') \in Nat
    BY <1>0, <2>1
  <2>3. Places' <= Places
    BY <1>0, <1>2, <2>2 DEF MaintIdle, Places, QueueFacts, slots
  <2> QED
    BY <1>2, <2>3 DEF MaintIdle, Passes, Goto, SizePcs, ConnPcs, IdleMaintPcs, slots
<1>3. ASSUME MaintSize PROVE \E l \in {"idle", "m_pend"} : Passes(Maint, l)
  <2>1. MinPoolSize = 0 => EnoughConns
    <3>1. requests >= 0
      BY AtFinite DEF SizeInv, CountersExact
    <3> QED
      BY <3>1 DEF EnoughConns
  <2> QED
    BY <1>3, <2>1 DEF MaintSize, Passes, Goto, SizePcs, ConnPcs, IdleMaintPcs
<1>4. ASSUME MaintPend PROVE \E l \in {"m_release", "socket"} : Passes(Maint, l)
  BY <1>0, <1>4, Zenon DEF MaintPend, Passes, Goto, SizePcs, ConnPcs, IdleMaintPcs
<1>5. ASSUME ConnectStep(Maint) \/ MaintAdd
      PROVE  \E l \in {"m_unpend", "hello", "m_add"} : Passes(Maint, l)
  BY <1>0, <1>5, PoolAssumption, Zenon
     DEF ConnectStep, SocketFailed, HelloFailed, ConnectFailed, SocketOpened, HelloDone, MaintAdd,
         Passes, Goto, SizePcs, ConnPcs, IdleMaintPcs, slots
<1>6. ASSUME MaintUnpend PROVE \E l \in {"m_release"} : Passes(Maint, l)
  <2>1. Places' = Places + 1
    BY <1>0, <1>6 DEF MaintUnpend, Places, QueueFacts
  <2> QED
    BY <1>0, <1>6, <2>1 DEF MaintUnpend, Passes, Goto, SizePcs, ConnPcs, IdleMaintPcs
<1>7. ASSUME MaintRelease PROVE \E l \in {"idle", "m_size"} : Passes(Maint, l)
  BY <1>0, <1>7, Zenon DEF MaintRelease, Passes, Goto, SizePcs, ConnPcs, IdleMaintPcs
<1>8. ASSUME \E l : Passes(Maint, l) PROVE QueueInv'
  BY <1>0, <1>8, PassStep
<1> QED
  BY <1>1, <1>2, <1>3, <1>4, <1>5, <1>6, <1>7, <1>8, Zenon DEF MaintStep

LEMMA QueueInit == Init => QueueInv
  BY DEF Init, QueueInv, Wakes, IdleMaintPcs, Actors

LEMMA QueueNext ==
    ASSUME ~WaitInterrupts
    PROVE  TypeInv /\ TypeInv' /\ SizeInv /\ QueueInv /\ [Next]_vars => QueueInv'
<1> SUFFICES ASSUME TypeInv, TypeInv', SizeInv, QueueInv, [Next]_vars PROVE QueueInv'
  OBVIOUS
<1>1. CASE SdamStep
  <2>1. sizeWait' = {} /\ connWait' = {} /\ pc' = pc
    BY <1>1, Zenon DEF SdamStep, Ready, Reset, ResetInterrupt, Close, ResetService, ResetPool, QueueInv
  <2> QED
    BY <2>1, Zenon DEF QueueInv, Wakes
<1>2. CASE UNCHANGED vars
  BY <1>2, Zenon DEF vars, slots, QueueInv, Wakes, At, Places
<1> QED
  BY <1>1, <1>2, QueueThread, QueueMaint, Zenon DEF Next

\* No notify of size_cond is lost: while a thread sleeps in the first wait queue
\* of _get_conn, as many threads are on their way out of wait() as there are
\* free slots, whichever waiter notify() picks and whichever waits time out.
\* KeyboardInterrupt may strike anywhere in the try block, but not in a wait:
\* only a timeout passes its notify on.
THEOREM SizeWakeupCorrect ==
    ASSUME ~WaitInterrupts
    PROVE  Spec => []SizeWakeup
<1>1. QueueInv => SizeWakeup
  BY DEF QueueInv, Wakes, SizeWakeup, Notified, SizePcs
<1> QED
  BY <1>1, TypeInit, TypeNext, SizeInit, SizeNext, QueueInit, QueueNext, PTL DEF Spec

\* No notify of _max_connecting_cond is lost in a pool with minPoolSize 0 (the
\* default) whose waits are not interrupted: while a thread sleeps in the second wait queue of _get_conn, as
\* many threads are on their way out of wait() as there are idle connections
\* and free places to connect.
THEOREM ConnWakeupCorrect ==
    ASSUME MinPoolSize = 0, ~WaitInterrupts
    PROVE  Spec => []ConnWakeup
<1>1. TypeInv /\ QueueInv => ConnWakeup
  <2> SUFFICES ASSUME TypeInv, QueueInv, connWait # {}
               PROVE  Places <= Cardinality((At(ConnPcs) \ connWait) \cup At({"m_unpend"}))
    BY DEF ConnWakeup, Notified, ConnPcs, Places
  <2>0. IsFiniteSet(At(ConnPcs) \ connWait) /\ Cardinality(At(ConnPcs) \ connWait) \in Nat
    BY AtFinite, WokenFinite
  <2>1. IsFiniteSet((At(ConnPcs) \ connWait) \cup At({"m_unpend"}))
    BY <2>0, AtFinite, FS_Union, Zenon
  <2>2. /\ Cardinality(At(ConnPcs) \ connWait) <=
              Cardinality((At(ConnPcs) \ connWait) \cup At({"m_unpend"}))
        /\ Cardinality((At(ConnPcs) \ connWait) \cup At({"m_unpend"})) \in Nat
    BY <2>1, FS_Subset, FS_CardinalityType
  <2>3. Places \in Int /\ Places <= Cardinality(At(ConnPcs) \ connWait)
    BY Queues DEF QueueFacts, QueueInv, Wakes
  <2> QED
    BY <2>0, <2>2, <2>3
<1> QED
  BY <1>1, TypeInit, TypeNext, SizeInit, SizeNext, QueueInit, QueueNext, PTL DEF Spec
=============================================================================
