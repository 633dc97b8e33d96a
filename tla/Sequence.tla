------------------------------ MODULE Sequence ------------------------------
(***************************************************************************)
(* The sequence of packet numbers (wire/seq.go): an atomic counter that    *)
(* wraps, and a second atomic step that skips its last value.              *)
(***************************************************************************)
EXTENDS Naturals, Sequences

CONSTANTS
    Takers,  \* goroutines that call Next again and again
    Last     \* math.MaxUint32, the greatest value of the counter

ASSUME LastAssumption == Last \in Nat \ {0, 1}

VARIABLES
    num,     \* the counter
    took,    \* took[p]: what p's AddUint32 returned, or Last + 1 outside Next
    recent   \* the last Last - 1 numbers taken, in the order they were taken

sequenceVars == <<num, took, recent>>

SequenceInit == num = 1 /\ took = [p \in Takers |-> Last + 1] /\ recent = << >>

Remember(n) ==
    recent' = LET all == Append(recent, n) IN
              IF Len(all) < Last THEN all ELSE Tail(all)

\* atomic.AddUint32; a number that is not the last one is returned.
Add(p) ==
    LET next == (num + 1) % (Last + 1) IN
    /\ took[p] = Last + 1
    /\ num' = next
    /\ IF next = Last
       THEN took' = [took EXCEPT ![p] = next] /\ UNCHANGED recent
       ELSE Remember(next) /\ UNCHANGED took

\* Changed form: a plain store in place of the compare-and-swap.
WrapStore(p) ==
    /\ took[p] = Last
    /\ took' = [took EXCEPT ![p] = Last + 1]
    /\ num' = 1 /\ Remember(1)

\* CompareAndSwapUint32; where it fails Next starts again.
Wrap(p) ==
    /\ took[p] = Last
    /\ took' = [took EXCEPT ![p] = Last + 1]
    /\ IF num = Last THEN num' = 1 /\ Remember(1) ELSE UNCHANGED <<num, recent>>

SequenceNext == \E p \in Takers : Add(p) \/ Wrap(p)

SequenceSpec == SequenceInit /\ [][SequenceNext]_sequenceVars

-----------------------------------------------------------------------------
(* Properties. *)

\* A number comes again only when all others but 0 and the last one, which is
\* never returned, were taken since, however the goroutines meet at the wrap:
\* the ids of channels (services/gateway/serv/handler.go:143) rest on it.
FarApart ==
    \A i, j \in 1..Len(recent) : recent[i] # Last /\ (recent[i] = recent[j] => i = j)

=============================================================================
