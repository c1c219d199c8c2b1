----------------------- MODULE SaramaPartitionConsumer -----------------------
(***************************************************************************)
(* WrapPartitionConsumer (src/contrib/Shopify/sarama/sarama.go, lines      *)
(* 33-86) starts one goroutine that ranges over sarama's Messages channel. *)
(* For each message it starts a kafka.consume span, hands the message to   *)
(* the application on the wrapper's unbuffered messages channel, and only  *)
(* then finishes the span of the PREVIOUS message: a span covers the       *)
(* application's processing of its message, up to its next receive.  When  *)
(* sarama closes Messages, the last span is finished and the wrapper's     *)
(* channel is closed.                                                      *)
(*                                                                         *)
(* Messages are numbered 1..N in the partition's order; message k has span *)
(* k.  Sarama (fetching, AsyncClose, closing Messages once its buffer is   *)
(* drained) and the application's reader are the environment.             *)
(***************************************************************************)
EXTENDS Naturals

CONSTANTS
    N       \* how many messages the partition holds

ASSUME NAssumption == N \in Nat \ {0}

VARIABLES
    produced,   \* messages sarama has fetched and queued on pc.Messages()
    taken,      \* messages the goroutine has taken from pc.Messages()
    wpc,        \* where the goroutine is
    prev,       \* the goroutine's prev span (0 for nil)
    received,   \* messages the application has received from the wrapper
    finishes,   \* how many times each message's span has been finished
    closing,    \* the application has called AsyncClose/Close
    pclosed     \* sarama has closed pc.Messages()

vars == <<produced, taken, wpc, prev, received, finishes, closing, pclosed>>

Msg == 1..N

(* Goroutine locations: in the range receive (line 47), blocked on          *)
(* wrapped.messages <- msg (71), about to finish prev (74-77), returned (83). *)
Locations == {"recv", "send", "finishprev", "exited"}

(* prev.Finish() when prev != nil. *)
FinishPrev(p) ==
    finishes' = [k \in Msg |-> IF k = p THEN finishes[k] + 1 ELSE finishes[k]]

(***************************************************************************)
(* Plausible faults of the goroutine, each a small edit of an action below. *)
(***************************************************************************)

(* The previous span is finished as soon as the next message arrives,      *)
(* before the hand-off at line 71 (lines 73-76 moved up).                  *)
ReceiveFinishEarly ==
    /\ wpc = "recv"
    /\ taken < produced
    /\ taken' = taken + 1
    /\ FinishPrev(prev)
    /\ wpc' = "send"
    /\ UNCHANGED <<produced, prev, received, closing, pclosed>>

(* The range stops one message short: the last message queued on          *)
(* pc.Messages() is not taken until another one arrives (an off-by-one).  *)
ReceiveOffByOne ==
    /\ wpc = "recv"
    /\ taken + 1 < produced
    /\ taken' = taken + 1
    /\ wpc' = "send"
    /\ UNCHANGED <<produced, prev, received, finishes, closing, pclosed>>

(* "prev = next" forgotten at line 77. *)
AfterSendNoAdvance ==
    /\ wpc = "finishprev"
    /\ FinishPrev(prev)
    /\ wpc' = "recv"
    /\ UNCHANGED <<produced, taken, prev, received, closing, pclosed>>

(* The loop ends without "finish any remaining span" (lines 79-82). *)
RangeEndNoFinish ==
    /\ wpc = "recv"
    /\ pclosed
    /\ taken = produced
    /\ wpc' = "exited"
    /\ UNCHANGED <<produced, taken, prev, received, finishes, closing, pclosed>>

-----------------------------------------------------------------------------

Init ==
    /\ produced = 0
    /\ taken = 0
    /\ wpc = "recv"
    /\ prev = 0
    /\ received = 0
    /\ finishes = [k \in Msg |-> 0]
    /\ closing = FALSE
    /\ pclosed = FALSE

(* for msg := range msgs: the next message is taken, its span started       *)
(* (ChildOf any context in the headers) and re-injected into its headers.   *)
Receive ==
    /\ wpc = "recv"
    /\ taken < produced
    /\ taken' = taken + 1
    /\ wpc' = "send"
    /\ UNCHANGED <<produced, prev, received, finishes, closing, pclosed>>

(* wrapped.messages <- msg: the application's reader takes the message. *)
Send ==
    /\ wpc = "send"
    /\ received' = taken
    /\ wpc' = "finishprev"
    /\ UNCHANGED <<produced, taken, prev, finishes, closing, pclosed>>

(* if prev != nil { prev.Finish() }; prev = next. *)
AfterSend ==
    /\ wpc = "finishprev"
    /\ FinishPrev(prev)
    /\ prev' = taken
    /\ wpc' = "recv"
    /\ UNCHANGED <<produced, taken, received, closing, pclosed>>

(* The range ends once sarama has closed Messages and it is drained: the   *)
(* remaining span is finished and wrapped.messages closed.                 *)
RangeEnd ==
    /\ wpc = "recv"
    /\ pclosed
    /\ taken = produced
    /\ FinishPrev(prev)
    /\ wpc' = "exited"
    /\ UNCHANGED <<produced, taken, prev, received, closing, pclosed>>

-----------------------------------------------------------------------------
(* The environment: sarama and the application.                            *)

(* Sarama fetches the next message of the partition, until AsyncClose. *)
Fetch ==
    /\ ~closing
    /\ produced < N
    /\ produced' = produced + 1
    /\ UNCHANGED <<taken, wpc, prev, received, finishes, closing, pclosed>>

(* The application calls AsyncClose or Close on the wrapper (promoted from *)
(* the embedded sarama.PartitionConsumer).                                 *)
AppClose ==
    /\ ~closing
    /\ closing' = TRUE
    /\ UNCHANGED <<produced, taken, wpc, prev, received, finishes, pclosed>>

(* Sarama's dispatcher stops; Messages closes behind what it had queued. *)
SaramaClose ==
    /\ closing
    /\ ~pclosed
    /\ pclosed' = TRUE
    /\ UNCHANGED <<produced, taken, wpc, prev, received, finishes, closing>>

Next ==
    \/ Receive
    \/ Send
    \/ AfterSend
    \/ RangeEnd
    \/ Fetch
    \/ AppClose
    \/ SaramaClose

(* The goroutine and sarama are scheduled by the Go runtime; sarama        *)
(* requires the application to keep reading Messages until it is closed,   *)
(* so the hand-off at line 71 is fair.  Fetching more messages and closing *)
(* are up to the broker and the application.                               *)
Fairness ==
    /\ WF_vars(Receive)
    /\ WF_vars(Send)
    /\ WF_vars(AfterSend)
    /\ WF_vars(RangeEnd)
    /\ WF_vars(SaramaClose)

Spec == Init /\ [][Next]_vars /\ Fairness

-----------------------------------------------------------------------------

(* Every variable ranges over its type; in particular no kafka.consume span *)
(* is finished twice (lines 75 and 81 never meet on one span).              *)
TypeOK ==
    /\ produced \in 0..N
    /\ taken \in 0..produced
    /\ wpc \in Locations
    /\ prev \in 0..N
    /\ received \in 0..taken
    /\ finishes \in [Msg -> 0..1]
    /\ closing \in BOOLEAN
    /\ pclosed \in BOOLEAN

(* Of the messages the application has received, exactly the last one has  *)
(* an open span while the goroutine runs -- it times the application's     *)
(* processing -- except just after the next hand-off, when the one before   *)
(* it is still about to be finished; after the exit none is open.          *)
ConsumeSpanWindow ==
    \A k \in 1..received :
        finishes[k] = 0 <=> \/ k = received /\ wpc # "exited"
                            \/ k = received - 1 /\ wpc = "finishprev"

(* Once the application closes the consumer, the goroutine eventually      *)
(* returns with every kafka.consume span it started finished.              *)
CloseFinishesSpans ==
    closing ~> (wpc = "exited" /\ \A k \in 1..taken : finishes[k] = 1)

-----------------------------------------------------------------------------
(* The refinement mapping: the application's view is what it has received, *)
(* the spans finished, and whether the goroutine has returned.             *)

FinishedSpans == {k \in Msg : finishes[k] # 0}

CS == INSTANCE ConsumeSpans
        WITH handed <- received, closed <- FinishedSpans, done <- (wpc = "exited")

(* The goroutine implements the consume-span contract: the hand-off at     *)
(* line 71 happens only when no earlier span is open, the finish at line   *)
(* 75 only hits the span of a message the application has moved past, in  *)
(* message order, the finish at line 81 closes the rest, and a span whose  *)
(* successor was handed over is eventually finished.                      *)
ImplementsConsumeSpans == CS!Spec

=============================================================================
