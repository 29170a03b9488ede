--------------------------- MODULE NativeLifetime ---------------------------
(***************************************************************************)
(* What the opaque-handle registry of jflac_jni.c promises about the       *)
(* native sessions it owns, without handles, counters or threads: a        *)
(* published session is used by at most one native operation at a time,    *)
(* stops accepting operations once it is closed, and its memory is         *)
(* released exactly once, never under an operation that is still using it. *)
(***************************************************************************)

CONSTANT Sessions      \* heap objects that back a Java-visible handle

VARIABLES
  life,   \* where each session is in its life
  busy    \* is a native operation inside libFLAC with this session?

vars == <<life, busy>>

Lives == {"absent", "live", "closing", "dead"}

TypeOK ==
  /\ life \in [Sessions -> Lives]
  /\ busy \in [Sessions -> BOOLEAN]

Init ==
  /\ life = [s \in Sessions |-> "absent"]
  /\ busy = [s \in Sessions |-> FALSE]

Publish(s) ==
  /\ life[s] = "absent"
  /\ life' = [life EXCEPT ![s] = "live"]
  /\ UNCHANGED busy

Begin(s) ==
  /\ life[s] = "live" /\ ~busy[s]
  /\ busy' = [busy EXCEPT ![s] = TRUE]
  /\ UNCHANGED life

End(s) ==
  /\ busy[s]
  /\ busy' = [busy EXCEPT ![s] = FALSE]
  /\ UNCHANGED life

Close(s) ==
  /\ life[s] = "live"
  /\ life' = [life EXCEPT ![s] = "closing"]
  /\ UNCHANGED busy

Destroy(s) ==
  /\ life[s] = "closing" /\ ~busy[s]
  /\ life' = [life EXCEPT ![s] = "dead"]
  /\ UNCHANGED busy

\* JNI_OnUnload closes every live session in one step.
CloseAll ==
  /\ \A s \in Sessions : ~busy[s]
  /\ life' = [s \in Sessions |-> IF life[s] = "live" THEN "closing" ELSE life[s]]
  /\ UNCHANGED busy

Next ==
  \/ \E s \in Sessions : Publish(s) \/ Begin(s) \/ End(s) \/ Close(s) \/ Destroy(s)
  \/ CloseAll

Spec == Init /\ [][Next]_vars
=============================================================================
