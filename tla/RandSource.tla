------------------------------ MODULE RandSource ------------------------------
(***************************************************************************)
(* randSource (src/unnamed/part_000, lines 13-47): a math/rand Source      *)
(* shared by goroutines behind a sync.Mutex.  Int63 locks, draws from the  *)
(* source and unlocks; Seed locks and then calls rs.Seed -- itself, not    *)
(* rs.source.Seed -- which locks the same, non-reentrant mutex again.     *)
(*                                                                         *)
(* Each goroutine of Procs calls Int63 over and over; those of SeedProcs   *)
(* may call Seed instead.  A call that never returns keeps its goroutine.  *)
(*                                                                         *)
(* The source is abstracted to its position in its pseudo-random sequence: *)
(* the k-th value it produces is written k - 1.  Its Int63 reads its state *)
(* and writes the advanced state back, two steps between which an         *)
(* unsynchronised caller could interleave (math/rand sources are not safe  *)
(* for concurrent use).  MaxCalls bounds the Int63 calls.                  *)
(***************************************************************************)
EXTENDS Naturals, Sequences, FiniteSets

CONSTANTS
    Procs,      \* goroutines using the source
    SeedProcs,  \* those that may call Seed
    NoProc,     \* the mutex is free
    MaxCalls    \* Int63 calls made in all

ASSUME ConstantsAssumption ==
    /\ IsFiniteSet(Procs)
    /\ SeedProcs \subseteq Procs
    /\ NoProc \notin Procs
    /\ MaxCalls \in Nat

VARIABLES
    pc,     \* where each goroutine is
    owner,  \* the goroutine holding rs.Mutex, or NoProc
    pos,    \* the source's state: how far along its sequence it is
    got,    \* the state each goroutine's source call read
    draws,  \* the numbers Int63 returned so far, in order
    calls   \* Int63 calls made so far

vars == <<pc, owner, pos, got, draws, calls>>

(* Not in a call; waiting in rs.Lock() of Int63 (line 36); holding the lock *)
(* at rs.source.Int63() (37), before and after it read the source's state;  *)
(* waiting in rs.Lock() of Seed (44); holding the lock in Seed, at the call *)
(* rs.Seed(seed) (45).                                                       *)
Locations == {"idle", "int63Lock", "int63", "int63Write", "seedLock", "seedCall"}

(* Where a goroutine goes once its pending rs.Lock() returns. *)
AfterLock == [l \in {"int63Lock", "seedLock"} |->
                 IF l = "int63Lock" THEN "int63" ELSE "seedCall"]

(***************************************************************************)
(* Plausible faults, each a small edit of an action below.                 *)
(***************************************************************************)

(* Int63 without the rs.Lock() of line 36: it goes straight to the source, *)
(* and its rs.Unlock() releases whoever holds the mutex (a Go mutex is not *)
(* tied to a goroutine).                                                   *)
CallInt63NoLock(p) ==
    /\ pc[p] = "idle"
    /\ calls < MaxCalls
    /\ pc' = [pc EXCEPT ![p] = "int63"]
    /\ calls' = calls + 1
    /\ UNCHANGED <<owner, pos, got, draws>>

-----------------------------------------------------------------------------

(* newRandSource: the seed comes from crypto/rand or, failing that, the     *)
(* clock; either way the source starts at the head of its sequence,        *)
(* unlocked and unused.                                                     *)
Init ==
    /\ pc = [p \in Procs |-> "idle"]
    /\ owner = NoProc
    /\ pos = 0
    /\ got = [p \in Procs |-> 0]
    /\ draws = << >>
    /\ calls = 0

(* rs.Int63() is called. *)
CallInt63(p) ==
    /\ pc[p] = "idle"
    /\ calls < MaxCalls
    /\ pc' = [pc EXCEPT ![p] = "int63Lock"]
    /\ calls' = calls + 1
    /\ UNCHANGED <<owner, pos, got, draws>>

(* rs.Seed(seed) is called. *)
CallSeed(p) ==
    /\ p \in SeedProcs
    /\ pc[p] = "idle"
    /\ pc' = [pc EXCEPT ![p] = "seedLock"]
    /\ UNCHANGED <<owner, pos, got, draws, calls>>

(* rs.Lock() returns once the mutex is free. *)
Acquire(p) ==
    /\ pc[p] \in DOMAIN AfterLock
    /\ owner = NoProc
    /\ owner' = p
    /\ pc' = [pc EXCEPT ![p] = AfterLock[pc[p]]]
    /\ UNCHANGED <<pos, got, draws, calls>>

(* rs.source.Int63() reads the source's state. *)
SourceRead(p) ==
    /\ pc[p] = "int63"
    /\ got' = [got EXCEPT ![p] = pos]
    /\ pc' = [pc EXCEPT ![p] = "int63Write"]
    /\ UNCHANGED <<owner, pos, draws, calls>>

(* ... writes the advanced state back and yields n; rs.Unlock(); return n. *)
Int63Read(p) ==
    /\ pc[p] = "int63Write"
    /\ pos' = got[p] + 1
    /\ draws' = Append(draws, got[p])
    /\ owner' = NoProc
    /\ pc' = [pc EXCEPT ![p] = "idle"]
    /\ UNCHANGED <<got, calls>>

(* rs.Seed(seed) at line 45: the call re-enters Seed, whose first statement *)
(* is rs.Lock() on the mutex this goroutine already holds.  The Unlock at   *)
(* line 46 is only reached after that call returns.                         *)
SeedRecurse(p) ==
    /\ pc[p] = "seedCall"
    /\ pc' = [pc EXCEPT ![p] = "seedLock"]
    /\ UNCHANGED <<owner, pos, got, draws, calls>>

Next ==
    \E p \in Procs :
        \/ CallInt63(p)
        \/ CallSeed(p)
        \/ Acquire(p)
        \/ SourceRead(p)
        \/ Int63Read(p)
        \/ SeedRecurse(p)

(* Goroutines are scheduled fairly.  A sync.Mutex hands the lock to a       *)
(* waiter that has waited over 1ms (starvation mode), so a goroutine whose  *)
(* Lock is enabled infinitely often gets it: strong fairness.               *)
Fairness ==
    \A p \in Procs :
        /\ SF_vars(Acquire(p))
        /\ WF_vars(SourceRead(p))
        /\ WF_vars(Int63Read(p))
        /\ WF_vars(SeedRecurse(p))

Spec == Init /\ [][Next]_vars /\ Fairness

-----------------------------------------------------------------------------

(* Trace and span IDs come from this source and must be unique: no two     *)
(* Int63 calls, however many goroutines make them at once, return the same *)
(* value of the source's sequence -- which holds only if every read and    *)
(* write-back of the source (line 37) happens under rs.Mutex.              *)
DistinctDraws ==
    \A i, j \in 1..Len(draws) : i # j => draws[i] # draws[j]

(* Every call of Int63 returns: the tracer's ID generation never blocks    *)
(* for good.                                                                *)
Int63Returns ==
    \A p \in Procs : (pc[p] = "int63Lock") ~> (pc[p] = "idle")

=============================================================================
