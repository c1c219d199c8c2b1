--------------------- MODULE SaramaAsyncProducerProofs ---------------------
(***************************************************************************)
(* Proofs about the WrapAsyncProducer goroutine, for every set of messages *)
(* and every sarama pipeline size.                                         *)
(***************************************************************************)
EXTENDS SaramaAsyncProducer, TLAPS

(* The goroutine holds a message exactly where its code has one in hand. *)
HeldMsg ==
    wpc \in {"input", "successes", "errors"} => wmsg \in Msgs

(* The span bookkeeping that makes "finished at most once" inductive: a     *)
(* parked span and the span of a message not yet written or still in the   *)
(* goroutine's hand are unfinished, and those messages are not parked.      *)
FinishInv ==
    /\ \A m \in spans : finishes[m] = 0
    /\ \A m \in unsent : finishes[m] = 0 /\ m \notin spans
    /\ wpc = "input" => /\ wmsg \notin unsent
                        /\ wmsg \notin spans
                        /\ finishes[wmsg] = 0

TypeInv == TypeOK /\ HeldMsg /\ FinishInv

USE ConstantsAssumption

-----------------------------------------------------------------------------

(* Finish(S) keeps finishes within 0..1 when every span of S is unfinished. *)
LEMMA FinishType ==
    ASSUME NEW S, S \subseteq Msgs,
           finishes \in [Msgs -> 0..1],
           \A m \in S : finishes[m] = 0,
           Finish(S)
    PROVE  finishes' \in [Msgs -> 0..1]
BY DEF Finish

LEMMA InitTypeInv == Init => TypeInv
<1> SUFFICES ASSUME Init PROVE TypeInv
    OBVIOUS
<1>1. TypeOK
    <2>1. conf \in Config /\ wpc \in Locations /\ finishes \in [Msgs -> 0..1]
        BY DEF Init, Locations
    <2>. QED
        BY <2>1 DEF Init, TypeOK
<1>2. HeldMsg /\ FinishInv
    BY DEF Init, HeldMsg, FinishInv
<1>. QED
    BY <1>1, <1>2 DEF TypeInv

LEMMA NextTypeInv == TypeInv /\ [Next]_vars => TypeInv'
<1> SUFFICES ASSUME TypeInv, [Next]_vars PROVE TypeInv'
    OBVIOUS
<1> USE DEF TypeInv, TypeOK, HeldMsg, FinishInv, Locations
<1>1. ASSUME NEW m \in Msgs, SendInput(m) PROVE TypeInv'
    BY <1>1 DEF SendInput
<1>2. CASE ForwardInput
    <2>1. CASE conf.successes
        BY <1>2, <2>1 DEF ForwardInput
    <2>2. CASE ~conf.successes
        <3>1. finishes' \in [Msgs -> 0..1]
            BY <1>2, <2>2, FinishType DEF ForwardInput
        <3>2. \A m \in Msgs : finishes'[m] = IF m = wmsg THEN 1 ELSE finishes[m]
            BY <1>2, <2>2 DEF ForwardInput, Finish
        <3>. QED
            BY <1>2, <2>2, <3>1, <3>2 DEF ForwardInput
    <2>. QED
        BY <2>1, <2>2
<1>3. CASE SendOnClosedInput
    BY <1>3 DEF SendOnClosedInput
<1>4. ASSUME NEW m \in Msgs, ReceiveSuccess(m) \/ ReceiveError(m) PROVE TypeInv'
    <2>1. Matched(m) \subseteq spans
        BY DEF Matched
    <2>2. finishes' \in [Msgs -> 0..1]
        BY <1>4, <2>1, FinishType DEF ReceiveSuccess, ReceiveError
    <2>3. \A x \in Msgs : finishes'[x] = IF x \in Matched(m) THEN 1 ELSE finishes[x]
        BY <1>4, <2>1 DEF ReceiveSuccess, ReceiveError, Finish
    <2>4. spans' = spans \ Matched(m)
        BY <1>4 DEF ReceiveSuccess, ReceiveError
    <2>5. /\ inflight' = inflight \ {m}
          /\ wpc' \in {"successes", "errors"}
          /\ wmsg' = m
          /\ UNCHANGED <<conf, unsent, started, returned, lost, closeMode, pclosed>>
        BY <1>4 DEF ReceiveSuccess, ReceiveError
    <2>6. TypeOK'
        BY <2>2, <2>4, <2>5
    <2>7. FinishInv'
        BY <2>1, <2>3, <2>4, <2>5
    <2>. QED
        BY <2>5, <2>6, <2>7
<1>5. CASE DeliverResult
    BY <1>5 DEF DeliverResult
<1>6. CASE ReceiveClosed
    BY <1>6 DEF ReceiveClosed
<1>7. ASSUME NEW m \in Msgs, DropResult(m) \/ DrainResult(m) PROVE TypeInv'
    BY <1>7 DEF DropResult, DrainResult
<1>8. ASSUME NEW mode \in {"async", "sync"}, Close(mode) PROVE TypeInv'
    BY <1>8 DEF Close
<1>9. CASE Shutdown
    BY <1>9 DEF Shutdown
<1>10. CASE UNCHANGED vars
    BY <1>10 DEF vars
<1>. QED
    BY <1>1, <1>2, <1>3, <1>4, <1>5, <1>6, <1>7, <1>8, <1>9, <1>10
       DEF Next, SaramaReturns

(* Every reachable state is well typed; in particular no kafka.produce span *)
(* is ever finished twice, whatever the config and the timing of Close.     *)
THEOREM TypeCorrect == Spec => []TypeOK
<1>1. Init => TypeInv
    BY InitTypeInv
<1>2. TypeInv /\ [Next]_vars => TypeInv'
    BY NextTypeInv
<1>3. TypeInv => TypeOK
    BY DEF TypeInv
<1>. QED
    BY <1>1, <1>2, <1>3, PTL DEF Spec

-----------------------------------------------------------------------------
(***************************************************************************)
(* Under the default use -- sarama returns errors, the Kafka version has   *)
(* headers, and the application closes an idle producer -- the goroutine   *)
(* leaves nothing behind when it returns.                                  *)
(***************************************************************************)

(* The configuration and usage the exit theorem holds under. *)
DefaultUse ==
    /\ QuiescentClose
    /\ \A c \in Configs : c.errors /\ c.headers

(* Every parked span is for a message sarama still holds; every started     *)
(* span is finished, parked, or in the goroutine's hand; and once the       *)
(* application has closed, sarama holds nothing and the goroutine is idle.  *)
ExitInv ==
    /\ conf \in Configs
    /\ spans \subseteq inflight
    /\ ~conf.successes => spans = {}
    /\ \A m \in started : \/ finishes[m] = 1
                          \/ m \in spans
                          \/ wpc = "input" /\ m = wmsg
    /\ closeMode # "open" => inflight = {} /\ wpc \in {"select", "exited"}
    /\ pclosed => closeMode # "open"
    /\ wpc = "exited" => pclosed
    /\ wpc # "panicked"

IInv == TypeInv /\ ExitInv

LEMMA InitIInv == DefaultUse /\ Init => IInv
<1> SUFFICES ASSUME DefaultUse, Init PROVE IInv
    OBVIOUS
<1>1. TypeInv
    BY InitTypeInv
<1>2. ExitInv
    BY DEF Init, ExitInv
<1>. QED
    BY <1>1, <1>2 DEF IInv

LEMMA NextExitInv == DefaultUse /\ IInv /\ [Next]_vars => ExitInv'
<1> SUFFICES ASSUME DefaultUse, IInv, [Next]_vars PROVE ExitInv'
    OBVIOUS
<1>0. TypeInv'
    BY NextTypeInv DEF IInv
<1> USE DEF IInv, TypeInv, TypeOK, HeldMsg, FinishInv, ExitInv, DefaultUse
<1>1. ASSUME NEW m \in Msgs, SendInput(m) PROVE ExitInv'
    BY <1>1 DEF SendInput
<1>2. CASE ForwardInput
    <2>1. CASE conf.successes
        BY <1>2, <2>1 DEF ForwardInput
    <2>2. CASE ~conf.successes
        <3>1. finishes'[wmsg] = 1 /\ \A x \in Msgs \ {wmsg} : finishes'[x] = finishes[x]
            BY <1>2, <2>2 DEF ForwardInput, Finish
        <3>. QED
            BY <1>2, <2>2, <3>1 DEF ForwardInput
    <2>. QED
        BY <2>1, <2>2
<1>3. CASE SendOnClosedInput
    BY <1>3 DEF SendOnClosedInput
<1>4. ASSUME NEW m \in Msgs, ReceiveSuccess(m) \/ ReceiveError(m) PROVE ExitInv'
    <2>1. Matched(m) = spans \cap {m}
        BY DEF Matched
    <2>2. \A x \in Msgs : finishes'[x] = IF x \in Matched(m) THEN finishes[x] + 1 ELSE finishes[x]
        BY <1>4 DEF ReceiveSuccess, ReceiveError, Finish
    <2>3. /\ inflight' = inflight \ {m}
          /\ spans' = spans \ Matched(m)
          /\ wpc = "select"
          /\ wpc' \in {"successes", "errors"}
          /\ m \in inflight
          /\ UNCHANGED <<conf, unsent, started, returned, lost, closeMode, pclosed>>
        BY <1>4 DEF ReceiveSuccess, ReceiveError
    <2>4. closeMode = "open"
        BY <2>3
    <2>. QED
        BY <2>1, <2>2, <2>3, <2>4
<1>5. CASE DeliverResult
    BY <1>5 DEF DeliverResult
<1>6. CASE ReceiveClosed
    BY <1>6 DEF ReceiveClosed
<1>7. ASSUME NEW m \in Msgs, DropResult(m) PROVE ExitInv'
    <2>1. ~conf.successes
        BY <1>7 DEF DropResult
    <2>. QED
        BY <1>7, <2>1 DEF DropResult
<1>8. ASSUME NEW m \in Msgs, DrainResult(m) PROVE FALSE
    BY <1>8 DEF DrainResult
<1>9. ASSUME NEW mode \in {"async", "sync"}, Close(mode) PROVE ExitInv'
    BY <1>9 DEF Close
<1>10. CASE Shutdown
    BY <1>10 DEF Shutdown
<1>11. CASE UNCHANGED vars
    BY <1>11 DEF vars
<1>. QED
    BY <1>1, <1>2, <1>3, <1>4, <1>5, <1>6, <1>7, <1>8, <1>9, <1>10, <1>11
       DEF Next, SaramaReturns

LEMMA NextIInv == DefaultUse /\ IInv /\ [Next]_vars => IInv'
BY NextTypeInv, NextExitInv DEF IInv

(* Under the default use, when the WrapAsyncProducer goroutine returns its  *)
(* spans map is empty and every kafka.produce span it started was finished  *)
(* exactly once (the property the sarama_async run checks).                 *)
THEOREM ExitLeavesNoSpan ==
    ASSUME QuiescentClose, \A c \in Configs : c.errors /\ c.headers
    PROVE  Spec => []SpanFinishedOnExit
<1>0. DefaultUse
    BY DEF DefaultUse
<1>1. Init => IInv
    BY <1>0, InitIInv
<1>2. IInv /\ [Next]_vars => IInv'
    BY <1>0, NextIInv
<1>3. IInv => SpanFinishedOnExit
    BY DEF IInv, ExitInv, SpanFinishedOnExit, TypeInv, TypeOK
<1>. QED
    BY <1>1, <1>2, <1>3, PTL DEF Spec

-----------------------------------------------------------------------------
(***************************************************************************)
(* With a Kafka version that has headers, whatever sarama's Return config  *)
(* and whenever the application closes, a result reaches the application  *)
(* only after its span is finished.                                        *)
(***************************************************************************)

(* Every message sarama holds whose span is not parked was finished when   *)
(* it was forwarded (lines 219-224), the message in the goroutine's hand   *)
(* on its way to the application was finished at lines 234 / 247, and so  *)
(* was every result already passed on.                                     *)
ResultInv ==
    /\ conf \in Configs
    /\ \A m \in inflight \ spans : finishes[m] = 1
    /\ wpc \in {"successes", "errors"} => finishes[wmsg] = 1
    /\ \A m \in returned : finishes[m] = 1

(* A span already finished stays finished: Finish only ever hits          *)
(* unfinished spans, so finishes cannot drop from 1 in a step.             *)
LEMMA FinishedStays ==
    ASSUME TypeInv, TypeInv', [Next]_vars, NEW m \in Msgs, finishes[m] = 1
    PROVE  finishes'[m] = 1
<1>1. finishes'[m] >= finishes[m]
    <2>1. \A S : Finish(S) => finishes'[m] >= finishes[m]
        BY DEF Finish, TypeInv, TypeOK
    <2>. QED
        BY <2>1 DEF Next, SaramaReturns, SendInput, ForwardInput,
                    SendOnClosedInput, ReceiveSuccess, ReceiveError, DeliverResult,
                    ReceiveClosed, DropResult, DrainResult, Close, Shutdown, vars
<1>. QED
    BY <1>1 DEF TypeInv, TypeOK

LEMMA InitResultInv == Init => ResultInv
BY DEF Init, ResultInv

LEMMA NextResultInv ==
    ASSUME \A c \in Configs : c.headers,
           TypeInv, ResultInv, [Next]_vars
    PROVE  ResultInv'
<1>0. TypeInv'
    BY NextTypeInv
<1>a. \A x \in Msgs : finishes[x] = 1 => finishes'[x] = 1
    BY <1>0, FinishedStays
<1> USE DEF TypeInv, TypeOK, HeldMsg, FinishInv, ResultInv
<1>h. conf.headers
    OBVIOUS
<1>1. ASSUME NEW m \in Msgs, SendInput(m) PROVE ResultInv'
    BY <1>1, <1>a DEF SendInput
<1>2. CASE ForwardInput
    <2>1. CASE conf.successes
        BY <1>2, <2>1, <1>a DEF ForwardInput
    <2>2. CASE ~conf.successes
        <3>1. finishes'[wmsg] = 1
            BY <1>2, <2>2 DEF ForwardInput, Finish
        <3>. QED
            BY <1>2, <2>2, <3>1, <1>a DEF ForwardInput
    <2>. QED
        BY <2>1, <2>2
<1>3. CASE SendOnClosedInput
    BY <1>3, <1>a DEF SendOnClosedInput
<1>4. ASSUME NEW m \in Msgs, ReceiveSuccess(m) \/ ReceiveError(m) PROVE ResultInv'
    <2>1. /\ inflight' = inflight \ {m}
          /\ spans' = spans \ Matched(m)
          /\ m \in inflight
          /\ wpc' \in {"successes", "errors"} /\ wmsg' = m
          /\ Finish(Matched(m))
          /\ UNCHANGED <<conf, returned>>
        BY <1>4 DEF ReceiveSuccess, ReceiveError
    <2>2. Matched(m) = spans \cap {m}
        BY <1>h DEF Matched
    <2>3. finishes'[m] = 1
        <3>1. CASE m \in spans
            BY <2>1, <2>2, <3>1 DEF Finish
        <3>2. CASE m \notin spans
            BY <2>1, <3>2, <1>a
        <3>. QED
            BY <3>1, <3>2
    <2>. QED
        BY <2>1, <2>2, <2>3, <1>a
<1>5. CASE DeliverResult
    BY <1>5, <1>a DEF DeliverResult
<1>6. CASE ReceiveClosed
    BY <1>6, <1>a DEF ReceiveClosed
<1>7. ASSUME NEW m \in Msgs, DropResult(m) \/ DrainResult(m) PROVE ResultInv'
    BY <1>7, <1>a DEF DropResult, DrainResult
<1>8. ASSUME NEW mode \in {"async", "sync"}, Close(mode) PROVE ResultInv'
    BY <1>8, <1>a DEF Close
<1>9. CASE Shutdown
    BY <1>9, <1>a DEF Shutdown
<1>10. CASE UNCHANGED vars
    BY <1>10 DEF vars
<1>. QED
    BY <1>1, <1>2, <1>3, <1>4, <1>5, <1>6, <1>7, <1>8, <1>9, <1>10
       DEF Next, SaramaReturns

(* On a Kafka version with headers, under any Return config and any timing *)
(* of AsyncClose/Close, the WrapAsyncProducer goroutine passes a result on  *)
(* to the application (lines 237, 250) only after finishing its span (234, *)
(* 247): the property the sarama_async_any_close run checks.              *)
THEOREM ResultAfterFinish ==
    ASSUME \A c \in Configs : c.headers
    PROVE  Spec => []SpanFinishedBeforeResult
<1>1. Init => TypeInv /\ ResultInv
    BY InitTypeInv, InitResultInv
<1>2. TypeInv /\ ResultInv /\ [Next]_vars => TypeInv' /\ ResultInv'
    BY NextTypeInv, NextResultInv
<1>3. ResultInv => SpanFinishedBeforeResult
    BY DEF ResultInv, SpanFinishedBeforeResult
<1>. QED
    BY <1>1, <1>2, <1>3, PTL DEF Spec

=============================================================================
