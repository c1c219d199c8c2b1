------------------------- MODULE SaramaAsyncProducer -------------------------
(***************************************************************************)
(* WrapAsyncProducer (src/contrib/Shopify/sarama/sarama.go, lines 182-295) *)
(* wraps a sarama.AsyncProducer: one goroutine selects over the wrapper's  *)
(* Input channel and sarama's Successes and Errors channels.  For every    *)
(* message the application writes it starts a kafka.produce span, injects  *)
(* the span context into the message headers and forwards the message to  *)
(* sarama.  If successes are returned the span is parked in a map keyed by *)
(* span id until sarama returns the message; the id is read back from the  *)
(* returned message's headers.  Otherwise the span is finished at once.    *)
(*                                                                         *)
(* A span is identified with its message: every message is written once,  *)
(* so it has one span and one span id.  Sarama is the environment: it      *)
(* holds up to ProducerBuf accepted messages and returns each on Successes *)
(* or Errors, or discards the result when that channel is not enabled.     *)
(* All Go channels involved are unbuffered, so a send and its receive are  *)
(* one step.                                                               *)
(***************************************************************************)
EXTENDS Naturals, FiniteSets

CONSTANTS
    Msgs,           \* the application's messages (model values)
    NoMsg,          \* the wrapper holds no message
    Configs,        \* the sarama configurations the wrapper may be built with
    ProducerBuf,    \* how many accepted messages sarama holds before Input blocks
    QuiescentClose  \* the application closes the producer only when it is idle

(* The parts of sarama.Config the wrapper reads: Producer.Return.Successes, *)
(* Producer.Return.Errors and Version.IsAtLeast(V0_11_0_0) (headers).       *)
Config == [successes : BOOLEAN, errors : BOOLEAN, headers : BOOLEAN]

ASSUME ConstantsAssumption ==
    /\ IsFiniteSet(Msgs)
    /\ NoMsg \notin Msgs
    /\ Configs \subseteq Config
    /\ Configs # {}
    /\ ProducerBuf \in Nat \ {0}
    /\ QuiescentClose \in BOOLEAN

VARIABLES
    conf,       \* the sarama.Config the wrapper was built with; never changes
    unsent,     \* messages the application has not yet written to Input()
    wpc,        \* where the wrapper goroutine is
    wmsg,       \* the message the goroutine handles in its current case body
    started,    \* messages whose kafka.produce span has been started
    finishes,   \* how many times each message's span has been finished
    spans,      \* the goroutine's map spanID -> span, as the set of its messages
    inflight,   \* messages sarama accepted and has not yet returned
    returned,   \* results the goroutine passed on to the application
    lost,       \* results sarama gave to no one, or to Close() instead of the goroutine
    closeMode,  \* "open", or which of AsyncClose / Close the application called
    pclosed     \* sarama has closed its Input, Successes and Errors channels

vars == <<conf, unsent, wpc, wmsg, started, finishes, spans, inflight,
          returned, lost, closeMode, pclosed>>

(* Goroutine locations: at the select (line 212), blocked on p.Input() <- msg *)
(* (215), on wrapped.successes <- msg (237), on wrapped.errors <- err (250),  *)
(* returned (228/241), or crashed by a send on a closed channel (215).        *)
Locations == {"select", "input", "successes", "errors", "exited", "panicked"}

-----------------------------------------------------------------------------

(* span.Finish() on each span of S. *)
Finish(S) ==
    finishes' = [m \in Msgs |-> IF m \in S THEN finishes[m] + 1 ELSE finishes[m]]

(* getSpanContext(msg) then spans[spanID]: the stored spans the returned     *)
(* message m leads to.  The id read back is the wrapper's own only if it was *)
(* injected, which startProducerSpan does only from V0_11_0_0 on.            *)
Matched(m) == IF conf.headers THEN spans \cap {m} ELSE {}

(***************************************************************************)
(* Plausible faults of the goroutine, each a small edit of the action that *)
(* follows below; each property of the runs is confirmed to fail under one. *)
(***************************************************************************)

(* span.Finish() outside the else at line 223: parked spans finished too. *)
ForwardInputFinishAlways ==
    /\ wpc = "input"
    /\ ~pclosed
    /\ Cardinality(inflight) < ProducerBuf
    /\ inflight' = inflight \cup {wmsg}
    /\ spans' = IF conf.successes THEN spans \cup {wmsg} ELSE spans
    /\ Finish({wmsg})
    /\ wpc' = "select"
    /\ wmsg' = NoMsg
    /\ UNCHANGED <<conf, unsent, started, returned, lost, closeMode, pclosed>>

(* The else branch at lines 219-224 forgets span.Finish(). *)
ForwardInputNoFinish ==
    /\ wpc = "input"
    /\ ~pclosed
    /\ Cardinality(inflight) < ProducerBuf
    /\ inflight' = inflight \cup {wmsg}
    /\ spans' = IF conf.successes THEN spans \cup {wmsg} ELSE spans
    /\ wpc' = "select"
    /\ wmsg' = NoMsg
    /\ UNCHANGED <<conf, unsent, started, finishes, returned, lost, closeMode, pclosed>>

(* The success case deletes the span from the map without finishing it. *)
ReceiveSuccessNoFinish(m) ==
    /\ wpc = "select"
    /\ conf.successes
    /\ m \in inflight
    /\ inflight' = inflight \ {m}
    /\ spans' = spans \ Matched(m)
    /\ wpc' = "successes"
    /\ wmsg' = m
    /\ UNCHANGED <<conf, unsent, started, finishes, returned, lost, closeMode, pclosed>>

(* The success case finishes the span but drops wrapped.successes <- msg. *)
ReceiveSuccessNoForward(m) ==
    /\ wpc = "select"
    /\ conf.successes
    /\ m \in inflight
    /\ inflight' = inflight \ {m}
    /\ spans' = spans \ Matched(m)
    /\ Finish(Matched(m))
    /\ UNCHANGED <<conf, unsent, wpc, wmsg, started, returned, lost, closeMode, pclosed>>

(* The error case deletes the span from the map without finishing it. *)
ReceiveErrorNoFinish(m) ==
    /\ wpc = "select"
    /\ conf.errors
    /\ m \in inflight
    /\ inflight' = inflight \ {m}
    /\ spans' = spans \ Matched(m)
    /\ wpc' = "errors"
    /\ wmsg' = m
    /\ UNCHANGED <<conf, unsent, started, finishes, returned, lost, closeMode, pclosed>>

-----------------------------------------------------------------------------

Init ==
    /\ conf \in Configs
    /\ unsent = Msgs
    /\ wpc = "select"
    /\ wmsg = NoMsg
    /\ started = {}
    /\ finishes = [m \in Msgs |-> 0]
    /\ spans = {}
    /\ inflight = {}
    /\ returned = {}
    /\ lost = {}
    /\ closeMode = "open"
    /\ pclosed = FALSE

(* case msg := <-wrapped.input: the application's write of m completes and   *)
(* startProducerSpan starts the span and injects it into m's headers.        *)
SendInput(m) ==
    /\ wpc = "select"
    /\ closeMode = "open"
    /\ m \in unsent
    /\ unsent' = unsent \ {m}
    /\ started' = started \cup {m}
    /\ wpc' = "input"
    /\ wmsg' = m
    /\ UNCHANGED <<conf, finishes, spans, inflight, returned, lost, closeMode, pclosed>>

(* p.Input() <- msg completes; then the span is parked in the map if         *)
(* successes are returned, and finished right away if not.                   *)
ForwardInput ==
    /\ wpc = "input"
    /\ ~pclosed
    /\ Cardinality(inflight) < ProducerBuf
    /\ inflight' = inflight \cup {wmsg}
    /\ IF conf.successes
          THEN spans' = spans \cup {wmsg} /\ UNCHANGED finishes
          ELSE Finish({wmsg}) /\ UNCHANGED spans
    /\ wpc' = "select"
    /\ wmsg' = NoMsg
    /\ UNCHANGED <<conf, unsent, started, returned, lost, closeMode, pclosed>>

(* p.Input() <- msg after sarama closed its input: the send panics and, with *)
(* no recover in the goroutine, brings the process down.                     *)
SendOnClosedInput ==
    /\ wpc = "input"
    /\ pclosed
    /\ wpc' = "panicked"
    /\ UNCHANGED <<conf, unsent, wmsg, started, finishes, spans, inflight,
                   returned, lost, closeMode, pclosed>>

(* case msg, ok := <-p.Successes() with ok: look the span up by the id in    *)
(* the headers, delete it from the map and finish it.                        *)
ReceiveSuccess(m) ==
    /\ wpc = "select"
    /\ conf.successes
    /\ m \in inflight
    /\ inflight' = inflight \ {m}
    /\ spans' = spans \ Matched(m)
    /\ Finish(Matched(m))
    /\ wpc' = "successes"
    /\ wmsg' = m
    /\ UNCHANGED <<conf, unsent, started, returned, lost, closeMode, pclosed>>

(* case err, ok := <-p.Errors() with ok: the same for a failed message; the  *)
(* span is finished WithError(err).                                          *)
ReceiveError(m) ==
    /\ wpc = "select"
    /\ conf.errors
    /\ m \in inflight
    /\ inflight' = inflight \ {m}
    /\ spans' = spans \ Matched(m)
    /\ Finish(Matched(m))
    /\ wpc' = "errors"
    /\ wmsg' = m
    /\ UNCHANGED <<conf, unsent, started, returned, lost, closeMode, pclosed>>

(* wrapped.successes <- msg / wrapped.errors <- err: the application's       *)
(* reader of that channel takes the result.                                  *)
DeliverResult ==
    /\ wpc \in {"successes", "errors"}
    /\ returned' = returned \cup {wmsg}
    /\ wpc' = "select"
    /\ wmsg' = NoMsg
    /\ UNCHANGED <<conf, unsent, started, finishes, spans, inflight, lost,
                   closeMode, pclosed>>

(* !ok on p.Successes() or p.Errors(): return, running the deferred closes   *)
(* of the wrapper's channels.  What is left in the map is never finished.    *)
ReceiveClosed ==
    /\ wpc = "select"
    /\ pclosed
    /\ wpc' = "exited"
    /\ UNCHANGED <<conf, unsent, wmsg, started, finishes, spans, inflight,
                   returned, lost, closeMode, pclosed>>

-----------------------------------------------------------------------------
(* The environment: sarama and the application.                            *)

(* Sarama finishes m, but the channel its result belongs on is disabled in  *)
(* the config: the result is logged and dropped.                            *)
DropResult(m) ==
    /\ m \in inflight
    /\ ~conf.successes \/ ~conf.errors
    /\ inflight' = inflight \ {m}
    /\ lost' = lost \cup {m}
    /\ UNCHANGED <<conf, unsent, wpc, wmsg, started, finishes, spans, returned,
                   closeMode, pclosed>>

(* The application called the embedded sarama Close(), which itself reads   *)
(* p.Successes() and p.Errors() until they close, racing the goroutine.     *)
DrainResult(m) ==
    /\ closeMode = "sync"
    /\ m \in inflight
    /\ inflight' = inflight \ {m}
    /\ lost' = lost \cup {m}
    /\ UNCHANGED <<conf, unsent, wpc, wmsg, started, finishes, spans, returned,
                   closeMode, pclosed>>

(* The application calls AsyncClose ("async") or Close ("sync"), both       *)
(* promoted from the embedded sarama.AsyncProducer; it writes nothing after. *)
Close(mode) ==
    /\ closeMode = "open"
    /\ QuiescentClose => wpc = "select" /\ inflight = {}
    /\ closeMode' = mode
    /\ UNCHANGED <<conf, unsent, wpc, wmsg, started, finishes, spans, inflight,
                   returned, lost, pclosed>>

(* Sarama's shutdown: once nothing it accepted is in flight it closes Input, *)
(* Errors and Successes.                                                     *)
Shutdown ==
    /\ closeMode # "open"
    /\ inflight = {}
    /\ ~pclosed
    /\ pclosed' = TRUE
    /\ UNCHANGED <<conf, unsent, wpc, wmsg, started, finishes, spans, inflight,
                   returned, lost, closeMode>>

(* Sarama hands back one in-flight message, to whoever takes it. *)
SaramaReturns ==
    \E m \in Msgs : ReceiveSuccess(m) \/ ReceiveError(m) \/ DropResult(m) \/ DrainResult(m)

Next ==
    \/ \E m \in Msgs : SendInput(m)
    \/ ForwardInput
    \/ SendOnClosedInput
    \/ SaramaReturns
    \/ DeliverResult
    \/ ReceiveClosed
    \/ \E mode \in {"async", "sync"} : Close(mode)
    \/ Shutdown

(* The goroutine and sarama's own goroutines are scheduled by the Go        *)
(* runtime; the application's readers of Successes/Errors always read, as   *)
(* sarama requires.  The application is not obliged to write or to close.   *)
Fairness ==
    /\ WF_vars(ForwardInput)
    /\ WF_vars(SendOnClosedInput)
    /\ WF_vars(SaramaReturns)
    /\ WF_vars(DeliverResult)
    /\ WF_vars(ReceiveClosed)
    /\ WF_vars(Shutdown)

Spec == Init /\ [][Next]_vars /\ Fairness

-----------------------------------------------------------------------------

(* Every variable ranges over its type; in particular a span is finished at *)
(* most once (span.Finish at lines 223, 234 and 247 never meets twice).      *)
TypeOK ==
    /\ conf \in Config
    /\ unsent \subseteq Msgs
    /\ wpc \in Locations
    /\ wmsg \in Msgs \cup {NoMsg}
    /\ started \subseteq Msgs
    /\ finishes \in [Msgs -> 0..1]
    /\ spans \subseteq Msgs
    /\ inflight \subseteq Msgs
    /\ returned \subseteq Msgs
    /\ lost \subseteq Msgs
    /\ closeMode \in {"open", "async", "sync"}
    /\ pclosed \in BOOLEAN

(* When the goroutine has returned (sarama closed its channels), the spans  *)
(* map is empty and every started kafka.produce span was finished exactly   *)
(* once: nothing the goroutine parked is abandoned with it.                 *)
SpanFinishedOnExit ==
    wpc = "exited" =>
        /\ spans = {}
        /\ \A m \in started : finishes[m] = 1

(* A result the application receives on Successes or Errors belongs to a   *)
(* span that is already finished: the goroutine finishes the span before   *)
(* passing the message on, whatever the timing of Close.                    *)
SpanFinishedBeforeResult ==
    \A m \in returned : finishes[m] = 1

(* The goroutine never sends on sarama's closed Input channel, which would  *)
(* panic and crash the host process.                                        *)
NoSendOnClosedInput == wpc # "panicked"

(* Every message the application writes eventually comes back to it on     *)
(* Successes or Errors, unless sarama is configured not to return it: the  *)
(* wrapper never blocks the pipeline for good.                              *)
ResultsDelivered ==
    \A m \in Msgs : (m \notin unsent) ~> (m \in returned \cup lost)

(* Every kafka.produce span the wrapper starts is eventually finished.      *)
SpansFinished ==
    \A m \in Msgs : (m \in started) ~> (finishes[m] > 0)

=============================================================================
