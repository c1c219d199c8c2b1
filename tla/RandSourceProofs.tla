--------------------------- MODULE RandSourceProofs ---------------------------
(***************************************************************************)
(* The randSource mutex makes Int63 hand out the values of the source's    *)
(* sequence one by one, for any number of goroutines and calls.            *)
(***************************************************************************)
EXTENDS RandSource, SequenceTheorems, TLAPS

(* The variables' shapes the proof needs. *)
Shapes ==
    /\ pc \in [Procs -> Locations]
    /\ owner \in Procs \cup {NoProc}
    /\ pos \in Nat
    /\ got \in [Procs -> Nat]
    /\ draws \in Seq(Nat)

(* Only the goroutine holding rs.Mutex is past its Lock. *)
Exclusive ==
    \A p \in Procs : pc[p] \in {"int63", "int63Write", "seedCall"} => owner = p

(* The source has produced exactly the values returned so far, in order,   *)
(* and a call about to write the source back read its current state.       *)
Drawn ==
    /\ pos = Len(draws)
    /\ \A i \in 1..Len(draws) : draws[i] = i - 1
    /\ \A p \in Procs : pc[p] = "int63Write" => got[p] = pos

IInv == Shapes /\ Exclusive /\ Drawn

USE ConstantsAssumption

LEMMA InitIInv == Init => IInv
<1> SUFFICES ASSUME Init PROVE IInv
    OBVIOUS
<1>1. draws \in Seq(Nat) /\ Len(draws) = 0
    BY EmptySeq DEF Init
<1>. QED
    BY <1>1 DEF Init, IInv, Shapes, Exclusive, Drawn, Locations

(* Int63Read under the lock: the value read is the next of the sequence. *)
LEMMA ReadKeepsDrawn ==
    ASSUME IInv, NEW p \in Procs, Int63Read(p)
    PROVE  IInv'
<1> USE DEF IInv, Shapes, Exclusive, Locations
<1>1. /\ pc[p] = "int63Write" /\ got[p] = pos /\ owner = p
      /\ pos' = pos + 1 /\ draws' = Append(draws, pos)
      /\ owner' = NoProc /\ pc' = [pc EXCEPT ![p] = "idle"]
      /\ UNCHANGED got
    BY DEF Int63Read, Drawn
<1>2. /\ draws' \in Seq(Nat)
      /\ Len(draws') = Len(draws) + 1
      /\ \A i \in 1..Len(draws) : draws'[i] = draws[i]
      /\ draws'[Len(draws) + 1] = pos
    BY <1>1, AppendProperties
<1>3. \A q \in Procs \ {p} : pc[q] \notin {"int63", "int63Write", "seedCall"}
    BY <1>1
<1>4. Drawn'
    BY <1>1, <1>2, <1>3 DEF Drawn
<1>. QED
    BY <1>1, <1>2, <1>3, <1>4

LEMMA NextIInv == IInv /\ [Next]_vars => IInv'
<1> SUFFICES ASSUME IInv, [Next]_vars PROVE IInv'
    OBVIOUS
<1> USE DEF IInv, Shapes, Exclusive, Drawn, Locations
<1>1. ASSUME NEW p \in Procs, CallInt63(p) \/ CallSeed(p) \/ SeedRecurse(p)
      PROVE  IInv'
    BY <1>1 DEF CallInt63, CallSeed, SeedRecurse
<1>2. ASSUME NEW p \in Procs, Acquire(p) PROVE IInv'
    <2>1. owner = NoProc /\ \A q \in Procs : pc[q] \notin {"int63", "int63Write", "seedCall"}
        BY <1>2 DEF Acquire
    <2>2. AfterLock[pc[p]] \in {"int63", "seedCall"}
        BY <1>2 DEF Acquire, AfterLock
    <2>. QED
        BY <1>2, <2>1, <2>2 DEF Acquire
<1>3. ASSUME NEW p \in Procs, SourceRead(p) PROVE IInv'
    BY <1>3 DEF SourceRead
<1>4. ASSUME NEW p \in Procs, Int63Read(p) PROVE IInv'
    BY <1>4, ReadKeepsDrawn
<1>5. CASE UNCHANGED vars
    BY <1>5 DEF vars
<1>. QED
    BY <1>1, <1>2, <1>3, <1>4, <1>5 DEF Next

(* For every number of goroutines and of calls, no two calls of Int63      *)
(* (lines 35-41) return the same value of the source's sequence: the read  *)
(* and write-back of rs.source at line 37 happen under rs.Mutex.           *)
THEOREM DistinctIDs == Spec => []DistinctDraws
<1>1. Init => IInv
    BY InitIInv
<1>2. IInv /\ [Next]_vars => IInv'
    BY NextIInv
<1>3. IInv => DistinctDraws
    BY DEF IInv, Drawn, DistinctDraws
<1>. QED
    BY <1>1, <1>2, <1>3, PTL DEF Spec

=============================================================================
