--------------------------- MODULE DecodeContract ---------------------------
(* What a caller of one decode operation is promised, whatever libFLAC, the  *)
(* transport and the consumer do in between: the consumer is handed the      *)
(* samples of its request in order, each once and none of them invented, and *)
(* the operation either completes after the last of them or throws.          *)
EXTENDS Integers

CONSTANT MaxWanted          \* bound on the frames one operation can promise

VARIABLES wanted,           \* frames the request stands for; -1: no such range
          received,         \* frames handed over so far
          outcome           \* "idle", "running", "complete" or "thrown"

vars == <<wanted, received, outcome>>

Init ==
  /\ wanted = 0
  /\ received = 0
  /\ outcome = "idle"

Begin ==
  /\ outcome \in {"idle", "complete"}
  /\ outcome' = "running"
  /\ wanted' \in -1 .. MaxWanted
  /\ received' = 0

\* Bad arguments, or a source that cannot be opened: nothing was handed over.
Refuse ==
  /\ outcome \in {"idle", "complete"}
  /\ outcome' = "thrown"
  /\ wanted' \in -1 .. MaxWanted
  /\ received' = 0

Deliver ==
  /\ outcome = "running"
  /\ received' \in (received + 1) .. wanted
  /\ UNCHANGED <<wanted, outcome>>

Complete ==
  /\ outcome = "running"
  /\ received = wanted
  /\ outcome' = "complete"
  /\ UNCHANGED <<wanted, received>>

\* A consumer that throws while it takes its block has seen the block.
Throw ==
  /\ outcome = "running"
  /\ outcome' = "thrown"
  /\ UNCHANGED <<wanted, received>>

Next == Begin \/ Refuse \/ Deliver \/ Complete \/ Throw

Spec == Init /\ [][Next]_vars
=============================================================================
