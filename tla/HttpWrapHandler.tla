--------------------------- MODULE HttpWrapHandler ---------------------------
(***************************************************************************)
(* The traced handlers of contrib/net/http (src/unnamed/part_002, lines    *)
(* 377-453).  WrapHandler returns a closure that every request runs, on    *)
(* its own goroutine: it overwrites the captured resource with the         *)
(* resource namer's answer when that is not empty, appends the span.kind   *)
(* and component tags to the shared cfg.spanOpts, and calls TraceAndServe  *)
(* with both.  ServeMux.ServeHTTP computes the resource locally but        *)
(* appends to mux.cfg.spanOpts in the same way.                            *)
(*                                                                         *)
(* A request is a model value; what the namer answers for it is Namer.     *)
(* The span options are abstracted to their count; each append is a read  *)
(* of the slice and a write of the longer slice, unsynchronised.          *)
(***************************************************************************)
EXTENDS Naturals

CONSTANTS
    Reqs,       \* the requests served
    Ignored,    \* those cfg.ignoreRequest skips
    Names,      \* resource names
    Namer,      \* cfg.resourceNamer: the name it gives each request, or ""
    Default,    \* WrapHandler's resource argument, or the mux's method+route
    Handler,    \* "wrap" (WrapHandler) or "mux" (ServeMux)
    NoSpan      \* a request that has no span

(* The constants are meant to satisfy:                                      *)
(*   Ignored \subseteq Reqs, Default \in Names,                              *)
(*   Namer \in [Reqs -> Names \cup {""}], Handler \in {"wrap", "mux"}.       *)

VARIABLES
    pc,         \* where each request's goroutine is
    resource,   \* WrapHandler's captured resource variable
    localRes,   \* ServeMux.ServeHTTP's local resource, per request
    nOpts,      \* len(cfg.spanOpts), shared by every request
    readOpts,   \* the length each request read before appending
    spans       \* the resource and option count each request's span got

vars == <<pc, resource, localRes, nOpts, readOpts, spans>>

(* Options that TraceAndServe is given per request: span.kind, component. *)
TagOpts == 2

Locations == {"idle", "name", "append", "write", "serve", "done"}

-----------------------------------------------------------------------------

Init ==
    /\ pc = [q \in Reqs |-> "idle"]
    /\ resource = Default
    /\ localRes = [q \in Reqs |-> Default]
    /\ nOpts = 0
    /\ readOpts = [q \in Reqs |-> 0]
    /\ spans = [q \in Reqs |-> NoSpan]

(* The request arrives; if cfg.ignoreRequest(req) it is served untraced. *)
Arrive(q) ==
    /\ pc[q] = "idle"
    /\ pc' = [pc EXCEPT ![q] = IF q \in Ignored THEN "done" ELSE "name"]
    /\ UNCHANGED <<resource, localRes, nOpts, readOpts, spans>>

(* WrapHandler: if r := cfg.resourceNamer(req); r != "" { resource = r }. *)
NameWrap(q) ==
    /\ Handler = "wrap"
    /\ pc[q] = "name"
    /\ resource' = IF Namer[q] # "" THEN Namer[q] ELSE resource
    /\ pc' = [pc EXCEPT ![q] = "append"]
    /\ UNCHANGED <<localRes, nOpts, readOpts, spans>>

(* ServeMux: resource := mux.cfg.resourceNamer(r), or method and route. *)
NameMux(q) ==
    /\ Handler = "mux"
    /\ pc[q] = "name"
    /\ localRes' = [localRes EXCEPT ![q] = IF Namer[q] # "" THEN Namer[q] ELSE Default]
    /\ pc' = [pc EXCEPT ![q] = "append"]
    /\ UNCHANGED <<resource, nOpts, readOpts, spans>>

(* cfg.spanOpts = append(cfg.spanOpts, ...): the slice is read ... *)
ReadOpts(q) ==
    /\ pc[q] = "append"
    /\ readOpts' = [readOpts EXCEPT ![q] = nOpts]
    /\ pc' = [pc EXCEPT ![q] = "write"]
    /\ UNCHANGED <<resource, localRes, nOpts, spans>>

(* ... and the slice with the two tag options appended is written back. *)
WriteOpts(q) ==
    /\ pc[q] = "write"
    /\ nOpts' = readOpts[q] + TagOpts
    /\ pc' = [pc EXCEPT ![q] = "serve"]
    /\ UNCHANGED <<resource, localRes, readOpts, spans>>

(* TraceAndServe(h, w, req, &ServeConfig{Resource: resource,               *)
(* SpanOpts: cfg.spanOpts, ...}): the span starts with what is there now.  *)
Serve(q) ==
    /\ pc[q] = "serve"
    /\ spans' = [spans EXCEPT ![q] =
                    [res |-> IF Handler = "wrap" THEN resource ELSE localRes[q],
                     opts |-> nOpts]]
    /\ pc' = [pc EXCEPT ![q] = "done"]
    /\ UNCHANGED <<resource, localRes, nOpts, readOpts>>

Next ==
    \E q \in Reqs :
        \/ Arrive(q)
        \/ NameWrap(q)
        \/ NameMux(q)
        \/ ReadOpts(q)
        \/ WriteOpts(q)
        \/ Serve(q)

Spec == Init /\ [][Next]_vars

-----------------------------------------------------------------------------

(* Every variable ranges over its type. *)
TypeOK ==
    /\ pc \in [Reqs -> Locations]
    /\ resource \in Names
    /\ localRes \in [Reqs -> Names]
    /\ nOpts \in Nat
    /\ readOpts \in [Reqs -> Nat]
    /\ spans \in [Reqs -> [res : Names, opts : Nat] \cup {NoSpan}]

(* The resource a request's span gets. *)
ExpectedResource(q) == IF Namer[q] # "" THEN Namer[q] ELSE Default

(* Each traced request's span is configured from that request alone: its   *)
(* resource is the namer's answer, or the resource argument when the namer *)
(* gives none (as WrapHandler's doc comment says), and it carries the two  *)
(* tag options once.                                                        *)
SpanConfigured ==
    \A q \in Reqs :
        spans[q] # NoSpan =>
            /\ spans[q].res = ExpectedResource(q)
            /\ spans[q].opts = TagOpts

=============================================================================
