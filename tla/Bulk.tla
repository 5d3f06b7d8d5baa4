------------------------------- MODULE Bulk -------------------------------
(***************************************************************************)
(* pymongo/synchronous/bulk.py and client_bulk.py: how a bulk write is cut *)
(* into commands and where a retry picks it up.  A bulk write is a list of *)
(* operations, each an insert, an update or a delete; a run is a sequence  *)
(* of operations of one type, by their indexes; a command carries at most  *)
(* MaxBatch of them.  The flag `retrying' of the code is the argument of   *)
(* the operators here: it belongs to the retry loop that also sets it      *)
(* (Session).                                                              *)
(***************************************************************************)
EXTENDS Integers, Sequences, FiniteSets

CONSTANT MaxBatch     \* maxWriteBatchSize

ASSUME BulkAssumption == MaxBatch \in Nat \ {0}

NoRun == <<>>
OpTypes == {1, 2, 3}  \* _INSERT, _UPDATE, _DELETE

\* The numbers in S, in ascending order.
Sorted(S) ==
    [k \in 1..Cardinality(S) |-> CHOOSE i \in S : Cardinality({j \in S : j < i}) = k - 1]

\* gen_ordered: a run ends where the type changes.
gen_ordered(types) ==
    LET starts == Sorted({i \in DOMAIN types : i = 1 \/ types[i] # types[i - 1]})
        end(k) == IF k = Len(starts) THEN Len(types) ELSE starts[k + 1] - 1
    IN  [k \in DOMAIN starts |-> Sorted(starts[k]..end(k))]

\* gen_unordered: one run for each type that occurs.
gen_unordered(types) ==
    LET kinds == Sorted({types[i] : i \in DOMAIN types})
    IN  [k \in DOMAIN kinds |-> Sorted({i \in DOMAIN types : types[i] = kinds[k]})]

\* MongoClient.bulk_write: its commands mix the types.
client_runs(types) == <<Sorted(DOMAIN types)>>

\* A request r: the types of its operations, those that the server will refuse,
\* whether they are executed in order, and whether it is the client's.
NewBulk(r) ==
    [gen |-> IF r.client THEN client_runs(r.types)
             ELSE IF r.ordered THEN gen_ordered(r.types) ELSE gen_unordered(r.types),
     cur |-> NoRun, next |-> NoRun, offset |-> 0, started |-> FALSE,
     request |-> r, n |-> 0, errors |-> {}]

-----------------------------------------------------------------------------
\* The top of the loop over runs: the next run is fetched ahead, but not in a retry.
NextRun(b, retrying) ==
    IF retrying THEN b
    ELSE [b EXCEPT !.next = IF b.gen = <<>> THEN NoRun ELSE Head(b.gen),
                   !.gen = IF b.gen = <<>> THEN <<>> ELSE Tail(b.gen)]

\* _execute_command is called, for the first time or for a retry.
Entered(b, retrying) ==
    NextRun(IF b.cur = NoRun
            THEN [b EXCEPT !.cur = Head(b.gen), !.gen = Tail(b.gen), !.next = NoRun, !.offset = 0]
            ELSE b,
            retrying)

\* The operations of the next command, and their set.
Batch(b) ==
    LET left == Len(b.cur) - b.offset
    IN  SubSeq(b.cur, b.offset + 1, b.offset + IF left < MaxBatch THEN left ELSE MaxBatch)
InBatch(b) == {Batch(b)[i] : i \in DOMAIN Batch(b)}

\* External: what the server does with a command.  An ordered one stops at the
\* first operation that it refuses.
Refuses(b) ==
    LET bad == {i \in InBatch(b) : i \in b.request.bad}
    IN  IF b.request.ordered THEN {i \in bad : \A j \in bad : i <= j} ELSE bad
Writes(b) ==
    {i \in InBatch(b) :
        i \notin b.request.bad /\ (b.request.ordered => \A j \in Refuses(b) : i < j)}

\* The reply to a command: _merge_command, the flags, and the next command, if
\* any.  An ordered bulk write ends with its first error.
Merged_Overwritten(b) ==
    [b EXCEPT !.n = Cardinality(Writes(b)), !.errors = @ \cup Refuses(b), !.started = FALSE]
Merged(b) ==
    [b EXCEPT !.n = @ + Cardinality(Writes(b)), !.errors = @ \cup Refuses(b), !.started = FALSE]

Stops(b) == b.request.ordered /\ b.errors # {}

Advanced(b) ==
    LET offset == b.offset + Len(Batch(b))
    IN  IF offset < Len(b.cur) THEN [b EXCEPT !.offset = offset]
        ELSE IF b.next = NoRun THEN [b EXCEPT !.cur = NoRun]
        ELSE NextRun([b EXCEPT !.cur = b.next, !.offset = 0], FALSE)

Replied(b) == IF Stops(Merged(b)) THEN Merged(b) ELSE Advanced(Merged(b))

Completed(b) == Stops(b) \/ b.cur = NoRun
=============================================================================
