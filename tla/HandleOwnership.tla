--------------------------- MODULE HandleOwnership ---------------------------
(***************************************************************************)
(* What NativeHandleCleanup promises about one native handle: there is a   *)
(* single ownership token.  The cleanup object keeps it until a party      *)
(* claims it; that party releases the native owner or gives the token      *)
(* back.  A handle is released at most once and never by two parties.      *)
(***************************************************************************)
CONSTANTS
  Actors,                      \* threads, and the Cleaner's
  Cleanup, Released, Leaked    \* the other places the token can be

VARIABLE owner

TypeOK == owner \in Actors \cup {Cleanup, Released, Leaked}

\* The thread that opened the handle owns it first.
Init == owner \in Actors

Claim(a) == owner = Cleanup /\ owner' = a
GiveBack(a) == owner = a /\ owner' = Cleanup
Release(a) == owner = a /\ owner' = Released

\* The last party has nobody to give a handle back to if its release fails.
Leak(a) == owner = a /\ owner' = Leaked

Next == \E a \in Actors : Claim(a) \/ GiveBack(a) \/ Release(a) \/ Leak(a)

Spec == Init /\ [][Next]_owner
=============================================================================
