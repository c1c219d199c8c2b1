-------------------------- MODULE GrpcWafListener --------------------------
(***************************************************************************)
(* newGRPCWAFEventListener (src/unnamed/part_003, lines 177-273): for each *)
(* gRPC handler operation it keeps a count nbEvents (atomic), a slice of   *)
(* security events (under a mutex) and registers two callbacks.  The       *)
(* receive callback runs the WAF on every received message unless          *)
(* nbEvents already equals maxWAFEventsPerRequest; a WAF hit increments    *)
(* nbEvents and appends the event.  The handler-finish callback reports    *)
(* the events, if the rate limiter allows.                                 *)
(*                                                                         *)
(* Receive callbacks are the processes of Receivers; the counter and the   *)
(* slice are shared.  A WAF event is abstracted to its count; the WAF      *)
(* verdict on a message and the limiter's answer are free choices.  The    *)
(* WAF handle can be released concurrently (the unregister function).     *)
(***************************************************************************)
EXTENDS Naturals, FiniteSets

CONSTANTS
    Receivers,  \* receive callbacks that may run at the same time
    MaxEvents,  \* maxWAFEventsPerRequest
    NMsgs       \* messages the RPC receives

ASSUME ConstantsAssumption ==
    /\ IsFiniteSet(Receivers)
    /\ Receivers # {}
    /\ MaxEvents \in Nat \ {0}
    /\ NMsgs \in Nat

VARIABLES
    pc,         \* where each receive callback is
    nbEvents,   \* the atomic counter nbEvents
    events,     \* len(events)
    msgsLeft,   \* messages still to be received
    released,   \* the WAF handle has been released (NewContext returns nil)
    finished,   \* the handler-finish callback has run
    reported    \* events passed to op.AddSecurityEvents

vars == <<pc, nbEvents, events, msgsLeft, released, finished, reported>>

(* A receive callback: not running, at the cap check (line 196), creating  *)
(* the WAF context and running the WAF (210-236), about to increment       *)
(* nbEvents (238), about to append under the mutex (239-241).              *)
Locations == {"idle", "check", "run", "count", "append"}

(***************************************************************************)
(* Plausible faults of the callbacks, each a small edit of an action below. *)
(***************************************************************************)

(* The cap check compares with maxWAFEventsPerRequest + 1 (off by one). *)
CheckCapOffByOne(r) ==
    /\ pc[r] = "check"
    /\ pc' = [pc EXCEPT ![r] = IF nbEvents = MaxEvents + 1 THEN "idle" ELSE "run"]
    /\ UNCHANGED <<nbEvents, events, msgsLeft, released, finished, reported>>

(* atomic.AddUint32(&nbEvents, 1) forgotten: the event is stored uncounted. *)
CountEventNoAdd(r) ==
    /\ pc[r] = "count"
    /\ pc' = [pc EXCEPT ![r] = "append"]
    /\ UNCHANGED <<nbEvents, events, msgsLeft, released, finished, reported>>

-----------------------------------------------------------------------------

Init ==
    /\ pc = [r \in Receivers |-> "idle"]
    /\ nbEvents = 0
    /\ events = 0
    /\ msgsLeft = NMsgs
    /\ released = FALSE
    /\ finished = FALSE
    /\ reported = 0

(* A ReceiveOperationFinish event fires the receive callback on the next   *)
(* message of the RPC.                                                      *)
Receive(r) ==
    /\ ~finished
    /\ pc[r] = "idle"
    /\ msgsLeft > 0
    /\ msgsLeft' = msgsLeft - 1
    /\ pc' = [pc EXCEPT ![r] = "check"]
    /\ UNCHANGED <<nbEvents, events, released, finished, reported>>

(* if atomic.LoadUint32(&nbEvents) == maxWAFEventsPerRequest: log once and *)
(* return.                                                                  *)
CheckCap(r) ==
    /\ pc[r] = "check"
    /\ pc' = [pc EXCEPT ![r] = IF nbEvents = MaxEvents THEN "idle" ELSE "run"]
    /\ UNCHANGED <<nbEvents, events, msgsLeft, released, finished, reported>>

(* waf.NewContext(handle): nil if the handle was released, then return;    *)
(* otherwise runWAF and the runtime metrics; no event (or a WAF error)     *)
(* returns, an event goes on to be counted.                                 *)
RunWaf(r) ==
    /\ pc[r] = "run"
    /\ \E hit \in BOOLEAN :
          pc' = [pc EXCEPT ![r] = IF ~released /\ hit THEN "count" ELSE "idle"]
    /\ UNCHANGED <<nbEvents, events, msgsLeft, released, finished, reported>>

(* atomic.AddUint32(&nbEvents, 1). *)
CountEvent(r) ==
    /\ pc[r] = "count"
    /\ nbEvents' = nbEvents + 1
    /\ pc' = [pc EXCEPT ![r] = "append"]
    /\ UNCHANGED <<events, msgsLeft, released, finished, reported>>

(* mu.Lock(); events = append(events, event); mu.Unlock(). *)
AppendEvent(r) ==
    /\ pc[r] = "append"
    /\ events' = events + 1
    /\ pc' = [pc EXCEPT ![r] = "idle"]
    /\ UNCHANGED <<nbEvents, msgsLeft, released, finished, reported>>

(* The handler returns, so none of its receives is still running, and the  *)
(* finish callback reports the events if there are any and the limiter     *)
(* allows.                                                                  *)
HandlerFinish ==
    /\ ~finished
    /\ \A r \in Receivers : pc[r] = "idle"
    /\ finished' = TRUE
    /\ \E allow \in BOOLEAN :
          reported' = IF events > 0 /\ allow THEN events ELSE 0
    /\ UNCHANGED <<pc, nbEvents, events, msgsLeft, released>>

(* The unregister function releases the WAF handle, concurrently with any  *)
(* request in progress.                                                     *)
Release ==
    /\ ~released
    /\ released' = TRUE
    /\ UNCHANGED <<pc, nbEvents, events, msgsLeft, finished, reported>>

Next ==
    \/ \E r \in Receivers :
          Receive(r) \/ CheckCap(r) \/ RunWaf(r) \/ CountEvent(r) \/ AppendEvent(r)
    \/ HandlerFinish
    \/ Release

Spec == Init /\ [][Next]_vars

-----------------------------------------------------------------------------

(* Every variable ranges over its type. *)
TypeOK ==
    /\ pc \in [Receivers -> Locations]
    /\ nbEvents \in 0..NMsgs
    /\ events \in 0..nbEvents
    /\ msgsLeft \in 0..NMsgs
    /\ released \in BOOLEAN
    /\ finished \in BOOLEAN
    /\ reported \in 0..events

(* maxWAFEventsPerRequest bounds the security events kept for one RPC, up  *)
(* to the callbacks that had already passed the check when the cap was     *)
(* reached: however long the stream, at most MaxEvents + |Receivers| - 1   *)
(* events are stored and reported.                                          *)
EventsCapped ==
    events < MaxEvents + Cardinality(Receivers)

=============================================================================
