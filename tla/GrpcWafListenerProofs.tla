----------------------- MODULE GrpcWafListenerProofs -----------------------
(***************************************************************************)
(* Proofs about the gRPC WAF receive callback when one receive runs at a   *)
(* time (one RecvMsg caller per stream), for every cap and stream length.  *)
(***************************************************************************)
EXTENDS GrpcWafListener, FiniteSetTheorems, TLAPS

(* Messages received so far. *)
Taken == NMsgs - msgsLeft

(* With the single receive callback r0: nbEvents counts the stored events  *)
(* and the one about to be appended; it never passes the messages taken    *)
(* nor the cap, and a callback past the check holds a count below the cap. *)
IInv(r0) ==
    /\ TypeOK
    /\ nbEvents = events + (IF pc[r0] = "append" THEN 1 ELSE 0)
    /\ pc[r0] \in {"check", "run", "count"} => nbEvents + 1 <= Taken
    /\ nbEvents <= Taken
    /\ nbEvents <= MaxEvents
    /\ pc[r0] \in {"run", "count"} => nbEvents < MaxEvents

USE ConstantsAssumption

-----------------------------------------------------------------------------

LEMMA InitIInv ==
    ASSUME NEW r0, Receivers = {r0}
    PROVE  Init => IInv(r0)
<1> SUFFICES ASSUME Init PROVE IInv(r0)
    OBVIOUS
<1>1. pc \in [Receivers -> Locations] /\ pc[r0] = "idle"
    BY DEF Init, Locations
<1>2. nbEvents = 0 /\ events = 0 /\ msgsLeft = NMsgs /\ reported = 0
      /\ released = FALSE /\ finished = FALSE
    BY DEF Init
<1>3. TypeOK
    <2>1. /\ nbEvents \in 0..NMsgs /\ events \in 0..nbEvents
          /\ msgsLeft \in 0..NMsgs /\ reported \in 0..events
        BY <1>2
    <2>2. released \in BOOLEAN /\ finished \in BOOLEAN
        BY <1>2
    <2>. QED
        BY <1>1, <2>1, <2>2 DEF TypeOK
<1>. QED
    BY <1>1, <1>2, <1>3 DEF IInv, Taken

LEMMA NextIInv ==
    ASSUME NEW r0, Receivers = {r0}
    PROVE  IInv(r0) /\ [Next]_vars => IInv(r0)'
<1> SUFFICES ASSUME IInv(r0), [Next]_vars PROVE IInv(r0)'
    OBVIOUS
<1> USE DEF IInv, TypeOK, Locations, Taken
<1>1. CASE Receive(r0)
    BY <1>1 DEF Receive
<1>2. CASE CheckCap(r0)
    BY <1>2 DEF CheckCap
<1>3. CASE RunWaf(r0)
    BY <1>3 DEF RunWaf
<1>4. CASE CountEvent(r0)
    BY <1>4 DEF CountEvent
<1>5. CASE AppendEvent(r0)
    BY <1>5 DEF AppendEvent
<1>6. CASE HandlerFinish
    BY <1>6 DEF HandlerFinish
<1>7. CASE Release
    BY <1>7 DEF Release
<1>8. CASE UNCHANGED vars
    BY <1>8 DEF vars
<1>. QED
    BY <1>1, <1>2, <1>3, <1>4, <1>5, <1>6, <1>7, <1>8 DEF Next

(* With one receive at a time the cap holds exactly: the callback checks   *)
(* nbEvents (line 196) and counts its event (line 238) with no other       *)
(* callback in between, so an RPC keeps at most maxWAFEventsPerRequest      *)
(* security events, however long its stream.                               *)
THEOREM SequentialEventsCapped ==
    ASSUME NEW r0, Receivers = {r0}
    PROVE  Spec => []EventsCapped
<1>1. Init => IInv(r0)
    BY InitIInv
<1>2. IInv(r0) /\ [Next]_vars => IInv(r0)'
    BY NextIInv
<1>3. IInv(r0) => EventsCapped
    <2>1. Cardinality(Receivers) = 1
        BY FS_Singleton
    <2>. QED
        BY <2>1 DEF IInv, TypeOK, EventsCapped
<1>. QED
    BY <1>1, <1>2, <1>3, PTL DEF Spec

(* With one receive at a time every state is well typed; in particular     *)
(* nbEvents never counts fewer events than are stored.                     *)
THEOREM SequentialTypeCorrect ==
    ASSUME NEW r0, Receivers = {r0}
    PROVE  Spec => []TypeOK
<1>1. Init => IInv(r0)
    BY InitIInv
<1>2. IInv(r0) /\ [Next]_vars => IInv(r0)'
    BY NextIInv
<1>3. IInv(r0) => TypeOK
    BY DEF IInv
<1>. QED
    BY <1>1, <1>2, <1>3, PTL DEF Spec

=============================================================================
