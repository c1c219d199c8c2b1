---------------------------- MODULE ConsumeSpans ----------------------------
(***************************************************************************)
(* What a traced partition consumer promises about its kafka.consume spans, *)
(* with no goroutine, channel or prev variable in sight: messages are      *)
(* handed to the application one by one; message k's span stays open      *)
(* while the application processes it and is finished only once message    *)
(* k+1 has been handed over, or when the stream ends; spans are finished   *)
(* in message order, so at most the last two are ever open.                *)
(*                                                                         *)
(* SaramaPartitionConsumer implements this specification under a           *)
(* refinement mapping (CS there).                                          *)
(***************************************************************************)
EXTENDS Naturals

VARIABLES
    handed,     \* messages handed to the application, 1..handed
    closed,     \* the messages whose span has been finished
    done        \* the stream has ended

avars == <<handed, closed, done>>

(* Handed messages whose span is still open. *)
Open == (1..handed) \ closed

Init ==
    /\ handed = 0
    /\ closed = {}
    /\ done = FALSE

(* The next message is handed over once no earlier span is open. *)
Hand ==
    /\ ~done
    /\ Open \subseteq {handed}
    /\ handed' = handed + 1
    /\ UNCHANGED <<closed, done>>

(* The span of a message the application has moved past is finished. *)
Finish(k) ==
    /\ ~done
    /\ k \in Open
    /\ k < handed
    /\ closed' = closed \cup {k}
    /\ UNCHANGED <<handed, done>>

FinishSome == \E k \in 1..handed : Finish(k)

(* The stream ends: the last span is finished with it. *)
End ==
    /\ ~done
    /\ Open \subseteq {handed}
    /\ closed' = 1..handed
    /\ done' = TRUE
    /\ UNCHANGED handed

Next == Hand \/ FinishSome \/ End

SafetySpec == Init /\ [][Next]_avars

(* A span whose successor was handed over does not stay open. *)
Spec == SafetySpec /\ WF_avars(FinishSome)

=============================================================================
