------------------- MODULE SaramaPartitionConsumerProofs -------------------
(***************************************************************************)
(* Proofs about the WrapPartitionConsumer goroutine, for every partition   *)
(* length N.                                                               *)
(***************************************************************************)
EXTENDS SaramaPartitionConsumer, TLAPS

(* The goroutine's counters in each location: the application is one      *)
(* message behind only while the hand-off is pending, and prev trails the   *)
(* last taken message until AfterSend catches it up.                        *)
Progress ==
    /\ wpc \in {"recv", "exited"} => received = taken /\ prev = taken
    /\ wpc = "send" => taken >= 1 /\ received = taken - 1 /\ prev = taken - 1
    /\ wpc = "finishprev" => taken >= 1 /\ received = taken /\ prev = taken - 1
    /\ pclosed => closing
    /\ wpc = "exited" => pclosed /\ taken = produced

(* Exactly the spans before prev are finished, and prev's too once the     *)
(* goroutine has returned.                                                  *)
Finished ==
    \A k \in Msg : finishes[k] = IF k < prev \/ (k = prev /\ wpc = "exited")
                                 THEN 1 ELSE 0

IInv == TypeOK /\ Progress /\ Finished

USE NAssumption

-----------------------------------------------------------------------------

LEMMA InitIInv == Init => IInv
<1> SUFFICES ASSUME Init PROVE IInv
    OBVIOUS
<1>1. TypeOK
    <2>1. finishes \in [Msg -> 0..1]
        BY DEF Init
    <2>2. wpc \in Locations
        BY DEF Init, Locations
    <2>3. produced = 0 /\ taken = 0 /\ prev = 0 /\ received = 0
          /\ closing = FALSE /\ pclosed = FALSE
        BY DEF Init
    <2>4. /\ produced \in 0..N /\ taken \in 0..produced /\ prev \in 0..N
          /\ received \in 0..taken
        BY <2>3
    <2>5. closing \in BOOLEAN /\ pclosed \in BOOLEAN
        BY <2>3
    <2>. QED
        BY <2>1, <2>2, <2>4, <2>5 DEF TypeOK
<1>2. Progress
    BY DEF Init, Progress
<1>3. Finished
    BY DEF Init, Finished, Msg
<1>. QED
    BY <1>1, <1>2, <1>3 DEF IInv

(* FinishPrev on the span prev: the spans finished become those up to prev. *)
LEMMA FinishPrevStep ==
    ASSUME finishes \in [Msg -> 0..1], prev \in 0..N,
           \A k \in Msg : finishes[k] = IF k < prev THEN 1 ELSE 0,
           FinishPrev(prev)
    PROVE  \A k \in Msg : finishes'[k] = IF k <= prev THEN 1 ELSE 0
BY DEF FinishPrev, Msg

LEMMA NextIInv == IInv /\ [Next]_vars => IInv'
<1> SUFFICES ASSUME IInv, [Next]_vars PROVE IInv'
    OBVIOUS
<1> USE DEF IInv, TypeOK, Progress, Locations, Msg
<1>1. CASE Receive
    <2>1. wpc = "recv" /\ prev = taken /\ received = taken
        BY <1>1 DEF Receive
    <2>2. Finished'
        BY <1>1, <2>1 DEF Receive, Finished
    <2>. QED
        BY <1>1, <2>1, <2>2 DEF Receive
<1>2. CASE Send
    BY <1>2 DEF Send, Finished
<1>3. CASE AfterSend
    <2>1. wpc = "finishprev" /\ \A k \in Msg : finishes[k] = IF k < prev THEN 1 ELSE 0
        BY <1>3 DEF AfterSend, Finished
    <2>2. \A k \in Msg : finishes'[k] = IF k <= prev THEN 1 ELSE 0
        BY <1>3, <2>1, FinishPrevStep DEF AfterSend
    <2>3. finishes' \in [Msg -> 0..1]
        BY <1>3, <2>2 DEF FinishPrev, AfterSend
    <2>4. prev' = prev + 1 /\ wpc' = "recv"
        BY <1>3, <2>1 DEF AfterSend
    <2>5. Finished'
        BY <2>2, <2>4 DEF Finished
    <2>. QED
        BY <1>3, <2>1, <2>3, <2>4, <2>5 DEF AfterSend
<1>4. CASE RangeEnd
    <2>1. wpc = "recv" /\ \A k \in Msg : finishes[k] = IF k < prev THEN 1 ELSE 0
        BY <1>4 DEF RangeEnd, Finished
    <2>2. \A k \in Msg : finishes'[k] = IF k <= prev THEN 1 ELSE 0
        BY <1>4, <2>1, FinishPrevStep DEF RangeEnd
    <2>3. finishes' \in [Msg -> 0..1]
        BY <1>4, <2>2 DEF FinishPrev, RangeEnd
    <2>4. Finished'
        BY <1>4, <2>2 DEF Finished, RangeEnd
    <2>. QED
        BY <1>4, <2>1, <2>3, <2>4 DEF RangeEnd
<1>5. CASE Fetch
    BY <1>5 DEF Fetch, Finished
<1>6. CASE AppClose
    BY <1>6 DEF AppClose, Finished
<1>7. CASE SaramaClose
    BY <1>7 DEF SaramaClose, Finished
<1>8. CASE UNCHANGED vars
    BY <1>8 DEF vars, Finished
<1>. QED
    BY <1>1, <1>2, <1>3, <1>4, <1>5, <1>6, <1>7, <1>8 DEF Next

(* The invariant pins the window of open kafka.consume spans. *)
LEMMA IInvWindow == IInv => ConsumeSpanWindow
BY DEF IInv, TypeOK, Progress, Finished, ConsumeSpanWindow, Locations, Msg

(* For every partition length no kafka.consume span is ever finished twice *)
(* (lines 75 and 81), and every state is well typed.                       *)
THEOREM TypeCorrect == Spec => []TypeOK
<1>1. Init => IInv
    BY InitIInv
<1>2. IInv /\ [Next]_vars => IInv'
    BY NextIInv
<1>3. IInv => TypeOK
    BY DEF IInv
<1>. QED
    BY <1>1, <1>2, <1>3, PTL DEF Spec

(* For every partition length, each message the application has received   *)
(* keeps its kafka.consume span open exactly while the application works on *)
(* it: until the goroutine has handed over the next message (line 71) and   *)
(* finished prev (line 75), or until the range ends (line 81).              *)
THEOREM SpanWindow == Spec => []ConsumeSpanWindow
<1>1. Init => IInv
    BY InitIInv
<1>2. IInv /\ [Next]_vars => IInv'
    BY NextIInv
<1>3. IInv => ConsumeSpanWindow
    BY IInvWindow
<1>. QED
    BY <1>1, <1>2, <1>3, PTL DEF Spec

-----------------------------------------------------------------------------
(***************************************************************************)
(* Refinement: the goroutine implements the consume-span contract of       *)
(* ConsumeSpans (its safety part; the fairness part is checked by TLC).    *)
(* Each step is a step of the contract or leaves its view unchanged:       *)
(* Send (line 71) is Hand, AfterSend (line 75) is Finish(prev) or, with    *)
(* prev nil, a stutter, and RangeEnd (lines 80-83) is End.                 *)
(***************************************************************************)

(* Under the invariant the finished spans are those before prev, and prev  *)
(* too once the goroutine has returned.                                     *)
LEMMA FinishedSpansIs ==
    ASSUME IInv
    PROVE  FinishedSpans = {k \in Msg : k < prev \/ (k = prev /\ wpc = "exited")}
BY DEF IInv, TypeOK, Finished, FinishedSpans, Msg

LEMMA InitRefines == Init => CS!Init
BY DEF Init, CS!Init, FinishedSpans, Msg

LEMMA NextRefines == IInv /\ IInv' /\ [Next]_vars => [CS!Next]_CS!avars
<1> SUFFICES ASSUME IInv, IInv', [Next]_vars PROVE [CS!Next]_CS!avars
    OBVIOUS
<1>0. /\ FinishedSpans = {k \in Msg : k < prev \/ (k = prev /\ wpc = "exited")}
      /\ FinishedSpans' = {k \in Msg : k < prev' \/ (k = prev' /\ wpc' = "exited")}
    <2>1. FinishedSpans = {k \in Msg : k < prev \/ (k = prev /\ wpc = "exited")}
        BY FinishedSpansIs
    <2>2. FinishedSpans' = {k \in Msg : k < prev' \/ (k = prev' /\ wpc' = "exited")}
        BY DEF IInv, TypeOK, Finished, FinishedSpans, Msg
    <2>. QED
        BY <2>1, <2>2
<1> USE DEF IInv, TypeOK, Progress, Locations, Msg
<1>1. CASE Receive
    BY <1>0, <1>1 DEF Receive, CS!avars
<1>2. CASE Send
    <2>1. wpc = "send" /\ received' = received + 1 /\ prev = received /\ wpc' # "exited"
        BY <1>2 DEF Send
    <2>2. received' = received + 1 /\ UNCHANGED <<FinishedSpans, wpc = "exited">>
        BY <1>0, <1>2, <2>1 DEF Send
    <2>3. CS!Open \subseteq {received}
        BY <1>0, <2>1 DEF CS!Open
    <2>. QED
        BY <2>1, <2>2, <2>3 DEF CS!Next, CS!Hand
<1>3. CASE AfterSend
    <2>1. wpc = "finishprev" /\ wpc' = "recv" /\ prev' = taken /\ prev = taken - 1
          /\ received = taken /\ received' = received
        BY <1>3 DEF AfterSend
    <2>2. CASE prev = 0
        BY <1>0, <2>1, <2>2 DEF CS!avars
    <2>3. CASE prev # 0
        <3>1. prev \in 1..received /\ prev < received
            <4>1. prev \in 0..N /\ taken \in 0..N /\ prev = taken - 1 /\ received = taken
                BY <2>1
            <4>. QED
                BY ONLY <4>1, <2>3, NAssumption
        <3>2. prev \in CS!Open
            <4>1. wpc # "exited"
                BY <2>1
            <4>2. prev \notin FinishedSpans
                BY <1>0, <4>1
            <4>. QED
                BY <3>1, <4>2 DEF CS!Open
        <3>3. FinishedSpans' = FinishedSpans \cup {prev}
            BY <1>0, <2>1, <3>1
        <3>4. CS!Finish(prev)
            BY <2>1, <3>1, <3>2, <3>3 DEF CS!Finish
        <3>. QED
            BY <3>1, <3>4 DEF CS!Next, CS!FinishSome
    <2>. QED
        BY <2>2, <2>3
<1>4. CASE RangeEnd
    <2>1. wpc = "recv" /\ wpc' = "exited" /\ prev' = prev /\ prev = received
          /\ received' = received
        BY <1>4 DEF RangeEnd
    <2>2. CS!Open \subseteq {received}
        BY <1>0, <2>1 DEF CS!Open
    <2>3. FinishedSpans' = 1..received
        BY <1>0, <2>1
    <2>. QED
        BY <2>1, <2>2, <2>3 DEF CS!Next, CS!End
<1>5. CASE Fetch \/ AppClose \/ SaramaClose \/ UNCHANGED vars
    BY <1>0, <1>5 DEF Fetch, AppClose, SaramaClose, vars, CS!avars
<1>. QED
    BY <1>1, <1>2, <1>3, <1>4, <1>5 DEF Next

(* For every partition length the WrapPartitionConsumer goroutine          *)
(* implements the consume-span contract: hand-offs (line 71) only when no  *)
(* earlier span is open, finishes (lines 75, 81) in message order and only *)
(* of spans whose message the application has moved past or at the end.   *)
THEOREM RefinesConsumeSpans == Spec => CS!SafetySpec
<1>1. Init => IInv /\ CS!Init
    BY InitIInv, InitRefines
<1>2. IInv /\ [Next]_vars => IInv'
    BY NextIInv
<1>3. IInv /\ IInv' /\ [Next]_vars => [CS!Next]_CS!avars
    BY NextRefines
<1>. QED
    BY <1>1, <1>2, <1>3, PTL DEF Spec, CS!SafetySpec

=====
