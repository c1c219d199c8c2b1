----------------------- MODULE MC_SaramaAsyncProducer -----------------------
(* Small instances of SaramaAsyncProducer for TLC. *)
EXTENDS SaramaAsyncProducer

(* The default sarama config (Return.Errors on) with successes returned or  *)
(* not, on a Kafka version with headers.                                    *)
MCConfigsDefault ==
    {[successes |-> s, errors |-> TRUE, headers |-> TRUE] : s \in BOOLEAN}

(* Successes returned but errors not: Producer.Return.Errors = false. *)
MCConfigsNoErrors ==
    {[successes |-> TRUE, errors |-> FALSE, headers |-> TRUE]}

(* Both results returned, as the tests and most users configure it. *)
MCConfigsBoth ==
    {[successes |-> TRUE, errors |-> TRUE, headers |-> TRUE]}
=============================================================================
