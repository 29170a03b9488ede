---------------------------- MODULE NativeLoading ----------------------------
(***************************************************************************)
(* How a JVM gets its native runtime: FlacNativeLoader.load extracts the   *)
(* bundled libraries into a directory that every JVM of the same build     *)
(* shares, loads them in dependency order and calls verifyRuntime, which   *)
(* runs init_flac_api once (native/src/jflac_jni.c and jflac_platform_*.c).*)
(* JNI_OnUnload undoes it.                                                 *)
(*                                                                         *)
(* load() is synchronized and every entry point calls it first, so one     *)
(* thread of a JVM is in this code at a time; the interleavings are those  *)
(* of JVMs over the shared files.  A JVM may be killed at any step.        *)
(***************************************************************************)
EXTENDS Naturals

CONSTANTS
  JVMs,         \* processes that share the extraction directory
  MaxLoads,     \* bound: calls of load() in a behaviour
  MaxKills,     \* bound: JVMs killed in a behaviour
  MaxDamages    \* bound: changes of a library file from outside

ASSUME BoundsAssumption == MaxLoads \in Nat /\ MaxKills \in Nat /\ MaxDamages \in Nat

Libraries == 1..2                      \* libFLAC, then the JNI shim
Shim == 2
Contents == {"absent", "bad", "good"}  \* bad: partial, stale or overwritten

\* rename replaces atomically; it does, but not a file some JVM has mapped
\* (Windows); or it is not offered and a move deletes and copies.
FileSystems == {"atomic", "windows", "plain"}

\* The thread in load().
Stages == {"idle", "check", "write", "move", "copy", "fill", "verify",
           "load", "once", "open", "resolve", "failed", "unlock"}

VARIABLES
  fs,          \* the file system, fixed
  store,       \* the shared directory: content of each library file
  kills,       \* JVMs killed
  damages,     \* changes from outside
  loads,       \* calls of load()
  stage,       \* per JVM: where its load() is
  lib,         \* per JVM: the library at hand
  mapped,      \* per JVM: what System.load mapped for each library
  loaded,      \* per JVM: extractedDirectory is set
  unloaded,    \* per JVM: JNI_OnUnload has run
  outcome,     \* per JVM: how the last load() ended
  faulted,     \* per JVM: a system call of this load() failed
  damaged,     \* per JVM: files changed from outside while it ran
  once,        \* per JVM: g_flac_init_once, its mutex and its flag
  api,         \* per JVM: g_flac_api and g_flac_api_initialized
  module,      \* per JVM: a handle is in g_flac_module
  local,       \* per JVM: a handle is in init_flac_api's own module
  refs         \* per JVM: references the dynamic loader counts for that handle

files == <<fs, store, kills, damages>>
loader == <<loads, lib, mapped, loaded, unloaded, outcome, faulted, damaged>>
native == <<once, api, module, local, refs>>
vars == <<files, stage, loader, native>>

NoApi == [table |-> "empty", initialized |-> FALSE]
NewOnce == [held |-> FALSE, complete |-> FALSE]
Unmapped == [l \in Libraries |-> "absent"]

-----------------------------------------------------------------------------
(* FlacNativeLoader.                                                       *)

Goto(p, s) == stage' = [stage EXCEPT ![p] = s]
File(p) == store[lib[p]]

\* load(): nothing to do once extractedDirectory is set.
BeginLoad(p) ==
  /\ stage[p] = "idle" /\ ~loaded[p] /\ ~unloaded[p] /\ loads < MaxLoads
  /\ Goto(p, "check")
  /\ lib' = [lib EXCEPT ![p] = 1]
  /\ loads' = loads + 1
  /\ outcome' = [outcome EXCEPT ![p] = "none"]
  /\ faulted' = [faulted EXCEPT ![p] = FALSE]
  /\ UNCHANGED <<files, mapped, loaded, unloaded, damaged, native>>

\* The exception leaves load().
Throw(p) ==
  /\ Goto(p, "idle")
  /\ outcome' = [outcome EXCEPT ![p] = "threw"]

\* The next library to extract, or the first one to load.
NextLibrary(p) ==
  IF lib[p] = Shim THEN Goto(p, "load") /\ lib' = [lib EXCEPT ![p] = 1]
  ELSE Goto(p, "check") /\ lib' = [lib EXCEPT ![p] = @ + 1]

AcceptExisting(content) == content # "absent"      \* mutant: isRegularFile, no digest
Acceptable(content) == content = "good"

\* extractResource: an existing file counts only if its digest is right.
CheckExisting(p) ==
  /\ stage[p] = "check"
  /\ IF Acceptable(File(p)) THEN NextLibrary(p) ELSE Goto(p, "write") /\ UNCHANGED lib
  /\ UNCHANGED <<files, loads, mapped, loaded, unloaded, outcome, faulted, damaged, native>>

\* The temporary file has a name of its own: nobody else sees it.
WriteTemp(p) ==
  /\ stage[p] = "write"
  /\ Goto(p, "move")
  /\ UNCHANGED <<files, loader, native>>

InUse(l) == fs = "windows" /\ \E q \in JVMs : mapped[q][l] # "absent"
Put(l, content) == store' = [store EXCEPT ![l] = content]

MoveInSteps(p) ==                      \* mutant: ATOMIC_MOVE is left out
  /\ stage[p] = "move"
  /\ Put(lib[p], "absent") /\ Goto(p, "copy")
  /\ UNCHANGED <<fs, kills, damages, loader, native>>

\* ATOMIC_MOVE.  AtomicMoveNotSupportedException leads to the plain move, which
\* first deletes the target; a refused move is one of ExtractionFails.
MoveTemp(p) ==
  /\ stage[p] = "move" /\ ~InUse(lib[p])
  /\ \/ fs # "plain" /\ Put(lib[p], "good") /\ Goto(p, "verify")
     \/ fs = "plain" /\ Put(lib[p], "absent") /\ Goto(p, "copy")
  /\ UNCHANGED <<fs, kills, damages, loader, native>>

\* The rest of the plain move: create the target and fill it.
CopyTemp(p) ==
  /\ \/ stage[p] = "copy" /\ Put(lib[p], "bad") /\ Goto(p, "fill")
     \/ stage[p] = "fill" /\ Put(lib[p], "good") /\ Goto(p, "verify")
  /\ UNCHANGED <<fs, kills, damages, loader, native>>

\* An IOException of one of these steps; the temporary file is deleted.
ExtractionFails(p) ==
  /\ stage[p] \in {"check", "write", "move", "copy", "fill", "verify"}
  /\ faulted' = [faulted EXCEPT ![p] = TRUE]
  /\ Throw(p)
  /\ UNCHANGED <<files, loads, lib, mapped, loaded, unloaded, damaged, native>>

VerifyExtracted(p) ==
  /\ stage[p] = "verify"
  /\ IF File(p) = "good" THEN NextLibrary(p) /\ UNCHANGED outcome
     ELSE Throw(p) /\ UNCHANGED lib
  /\ UNCHANGED <<files, loads, mapped, loaded, unloaded, faulted, damaged, native>>

\* System.load, which does nothing for a library this class loader has.  The
\* dynamic loader may refuse any file, and maps what it finds otherwise.
LoadLibrary(p) ==
  LET have == mapped[p][lib[p]] # "absent"
      go == IF lib[p] = Shim THEN Goto(p, "once") /\ UNCHANGED lib
            ELSE Goto(p, "load") /\ lib' = [lib EXCEPT ![p] = @ + 1]
  IN  /\ stage[p] = "load"
      /\ \/ have /\ go /\ UNCHANGED <<mapped, outcome, faulted>>
         \/ /\ ~have /\ File(p) # "absent"
            /\ mapped' = [mapped EXCEPT ![p][lib[p]] = File(p)]
            /\ go /\ UNCHANGED <<outcome, faulted>>
         \/ /\ ~have
            /\ faulted' = [faulted EXCEPT ![p] = @ \/ File(p) = "good"]
            /\ Throw(p) /\ UNCHANGED <<lib, mapped>>
      /\ UNCHANGED <<files, loads, loaded, unloaded, damaged, native>>

-----------------------------------------------------------------------------
(* verifyRuntime, flac_api_ready, jflac_call_once.                         *)

CallOnce(p) ==
  /\ stage[p] = "once" /\ ~once[p].held
  /\ once' = [once EXCEPT ![p].held = TRUE]
  /\ Goto(p, IF once[p].complete THEN "unlock" ELSE "open")
  /\ UNCHANGED <<files, loader, api, module, local, refs>>

\* jflac_close_library, when the platform agrees: nothing to do without a handle.
CloseLibrary(p, holds) ==
  IF holds THEN refs' = [refs EXCEPT ![p] = @ - 1] ELSE UNCHANGED refs

\* jflac_open_sibling_library: init_flac_api returns at once if it fails.
OpenSibling(p) ==
  /\ stage[p] = "open"
  /\ \/ /\ refs' = [refs EXCEPT ![p] = @ + 1]
        /\ local' = [local EXCEPT ![p] = TRUE]
        /\ Goto(p, "resolve")
        /\ UNCHANGED faulted
     \/ /\ faulted' = [faulted EXCEPT ![p] = TRUE]
        /\ Goto(p, "unlock")
        /\ UNCHANGED <<refs, local>>
  /\ UNCHANGED <<files, loads, lib, mapped, loaded, unloaded, outcome, damaged, once, api, module>>

\* RESOLVE fills the table pointer by pointer; version and Ogg support are
\* checked on the way.  The module is published last.
ResolveApi(p) ==
  /\ stage[p] = "resolve"
  /\ \/ /\ api' = [api EXCEPT ![p] = [table |-> "full", initialized |-> TRUE]]
        /\ module' = [module EXCEPT ![p] = TRUE]
        /\ local' = [local EXCEPT ![p] = FALSE]
        /\ Goto(p, "unlock")
        /\ UNCHANGED faulted
     \/ /\ api' = [api EXCEPT ![p].table = "partial"]
        /\ faulted' = [faulted EXCEPT ![p] = TRUE]
        /\ Goto(p, "failed")
        /\ UNCHANGED <<module, local>>
  /\ UNCHANGED <<files, loads, lib, mapped, loaded, unloaded, outcome, damaged, once, refs>>

DropRejected(p) == module[p]           \* mutant: g_flac_module = module is left out
KeepRejected(p) == TRUE

\* init_failed: the table is zeroed, the module closed; one the platform will
\* not close goes to g_flac_module.
InitFailed(p) ==
  /\ stage[p] = "failed"
  /\ api' = [api EXCEPT ![p] = NoApi]
  /\ local' = [local EXCEPT ![p] = FALSE]
  /\ \/ CloseLibrary(p, local[p]) /\ UNCHANGED module
     \/ module' = [module EXCEPT ![p] = KeepRejected(p)] /\ UNCHANGED refs
  /\ Goto(p, "unlock")
  /\ UNCHANGED <<files, loader, once>>

HoldOnFailure(p) == ~api[p].initialized      \* mutant: the early return skips the unlock
HeldAfter(p) == FALSE

\* once->complete is set whether or not the initialiser succeeded; then
\* NativeLoadException, or extractedDirectory is set.
FinishOnce(p) ==
  /\ stage[p] = "unlock"
  /\ once' = [once EXCEPT ![p] = [held |-> HeldAfter(p), complete |-> TRUE]]
  /\ IF api[p].initialized
       THEN /\ Goto(p, "idle")
            /\ outcome' = [outcome EXCEPT ![p] = "returned"]
            /\ loaded' = [loaded EXCEPT ![p] = TRUE]
       ELSE Throw(p) /\ UNCHANGED loaded
  /\ UNCHANGED <<files, loads, lib, mapped, unloaded, faulted, damaged, api, module, local, refs>>

-----------------------------------------------------------------------------
(* The end of a JVM, and damage.                                           *)

\* JNI_OnUnload, when the class loader is gone: sessions and contexts (see
\* DecodeRegistry, EncodeRegistry), the table, the module.  The close may be
\* rejected, and then the handle stays where it is.
Unload(p) ==
  /\ stage[p] = "idle" /\ mapped[p][Shim] # "absent" /\ ~unloaded[p]
  /\ api' = [api EXCEPT ![p] = NoApi]
  /\ \/ /\ CloseLibrary(p, module[p])
        /\ module' = [module EXCEPT ![p] = FALSE]
     \/ module[p] /\ UNCHANGED <<refs, module>>
  /\ unloaded' = [unloaded EXCEPT ![p] = TRUE]
  /\ UNCHANGED <<files, stage, loads, lib, mapped, loaded, outcome, faulted, damaged, once, local>>

\* The JVM is killed and a new one takes its place.  Its files stay.
Kill(p) ==
  /\ stage[p] # "idle" /\ kills < MaxKills
  /\ kills' = kills + 1
  /\ stage' = [stage EXCEPT ![p] = "idle"]
  /\ lib' = [lib EXCEPT ![p] = 1]
  /\ mapped' = [mapped EXCEPT ![p] = Unmapped]
  /\ outcome' = [outcome EXCEPT ![p] = "none"]
  /\ faulted' = [faulted EXCEPT ![p] = FALSE] /\ damaged' = [damaged EXCEPT ![p] = FALSE]
  /\ once' = [once EXCEPT ![p] = NewOnce] /\ api' = [api EXCEPT ![p] = NoApi]
  /\ module' = [module EXCEPT ![p] = FALSE] /\ local' = [local EXCEPT ![p] = FALSE]
  /\ refs' = [refs EXCEPT ![p] = 0]
  /\ UNCHANGED <<fs, store, damages, loads, loaded, unloaded>>

\* Someone else deletes or overwrites a library file.
Damage ==
  /\ damages < MaxDamages
  /\ damages' = damages + 1
  /\ \E l \in Libraries, c \in {"absent", "bad"} : Put(l, c)
  /\ damaged' = [p \in JVMs |-> damaged[p] \/ stage[p] # "idle"]
  /\ UNCHANGED <<fs, kills, stage, loads, lib, mapped, loaded, unloaded, outcome, faulted, native>>

-----------------------------------------------------------------------------
Init ==
  /\ fs \in FileSystems /\ store \in [Libraries -> Contents]
  /\ kills = 0 /\ damages = 0 /\ loads = 0
  /\ stage = [p \in JVMs |-> "idle"] /\ lib = [p \in JVMs |-> 1]
  /\ mapped = [p \in JVMs |-> Unmapped]
  /\ loaded = [p \in JVMs |-> FALSE] /\ unloaded = [p \in JVMs |-> FALSE]
  /\ outcome = [p \in JVMs |-> "none"]
  /\ faulted = [p \in JVMs |-> FALSE] /\ damaged = [p \in JVMs |-> FALSE]
  /\ once = [p \in JVMs |-> NewOnce] /\ api = [p \in JVMs |-> NoApi]
  /\ module = [p \in JVMs |-> FALSE] /\ local = [p \in JVMs |-> FALSE]
  /\ refs = [p \in JVMs |-> 0]

\* A step of a thread that is in load().
Continue(p) ==
  \/ CheckExisting(p) \/ WriteTemp(p) \/ MoveTemp(p) \/ CopyTemp(p)
  \/ ExtractionFails(p) \/ VerifyExtracted(p) \/ LoadLibrary(p)
  \/ CallOnce(p) \/ OpenSibling(p) \/ ResolveApi(p) \/ InitFailed(p) \/ FinishOnce(p)

Next ==
  \/ \E p \in JVMs : BeginLoad(p) \/ Continue(p) \/ Unload(p) \/ Kill(p)
  \/ Damage

\* The thread that called load() goes on: a runnable Java thread is scheduled.
Fairness == \A p \in JVMs : WF_vars(Continue(p))

Spec == Init /\ [][Next]_vars /\ Fairness

-----------------------------------------------------------------------------
(* Properties.                                                             *)

\* Where a move is atomic, a JVM maps only the bytes of its own bundle, whatever
\* a killed JVM, an older build or another process left in the directory, and
\* whatever other JVMs replace between its digest check and System.load; unless
\* someone else changes a file during the call.
LoadsGenuine ==
  fs # "plain" =>
    \A p \in JVMs, l \in Libraries : damaged[p] \/ mapped[p][l] \in {"absent", "good"}

\* On such a POSIX file system load() throws only for a reason of its own: a
\* call that failed, damage during the call, or an initialisation that failed
\* earlier and is never tried again.  Other JVMs extracting, or killed while
\* they extract, are no reason.
OnlyOwnFaults ==
  fs = "atomic" =>
    \A p \in JVMs : outcome[p] = "threw" =>
      faulted[p] \/ damaged[p] \/ (once[p].complete /\ ~api[p].initialized)

\* Every reference the dynamic loader counts is held by exactly one module
\* variable, on every path through init_flac_api, and JNI_OnUnload; and pointers
\* stay in g_flac_api only while the module they point into is held.
LoaderReference ==
  \A p \in JVMs :
    /\ refs[p] = (IF module[p] THEN 1 ELSE 0) + (IF local[p] THEN 1 ELSE 0)
    /\ api[p].table # "empty" => module[p] \/ local[p]
    /\ stage[p] = "idle" => ~local[p]

\* A call of load() ends: neither a failed extraction nor a failed or repeated
\* initialisation leaves it waiting for the once mutex.
LoadEnds == \A p \in JVMs : stage[p] # "idle" ~> stage[p] = "idle"
-----------------------------------------------------------------------------
(* The inductive invariant behind the safety properties.                   *)

TypeOK ==
  /\ fs \in FileSystems /\ store \in [Libraries -> Contents]
  /\ kills \in Nat /\ damages \in Nat /\ loads \in Nat
  /\ stage \in [JVMs -> Stages] /\ lib \in [JVMs -> Libraries]
  /\ mapped \in [JVMs -> [Libraries -> Contents]]
  /\ loaded \in [JVMs -> BOOLEAN] /\ unloaded \in [JVMs -> BOOLEAN]
  /\ outcome \in [JVMs -> {"none", "returned", "threw"}]
  /\ faulted \in [JVMs -> BOOLEAN] /\ damaged \in [JVMs -> BOOLEAN]
  /\ once \in [JVMs -> [held : BOOLEAN, complete : BOOLEAN]]
  /\ api \in [JVMs -> [table : {"empty", "partial", "full"}, initialized : BOOLEAN]]
  /\ module \in [JVMs -> BOOLEAN] /\ local \in [JVMs -> BOOLEAN]
  /\ refs \in [JVMs -> Nat]

\* init_flac_api's own module variable is in use between opening the library
\* and the end of the initialiser; until the initialiser has run once, nothing
\* is in g_flac_module, so the one it opens is the only one.
InitialiserOwns ==
  \A p \in JVMs :
    /\ local[p] <=> stage[p] \in {"resolve", "failed"}
    /\ stage[p] \in {"open", "resolve", "failed"} => ~once[p].complete
    /\ ~once[p].complete /\ stage[p] # "unlock" => ~module[p]

\* The once mutex is held by a call that is inside it, and by no other.
OnceHeldInside ==
  \A p \in JVMs : once[p].held <=> stage[p] \in {"open", "resolve", "failed", "unlock"}

\* Where a move is atomic, what a running load() has checked or extracted stays
\* good whatever other JVMs do, unless someone changes a file from outside.
CheckedStaysGood ==
  \A p \in JVMs : fs # "plain" =>
    /\ stage[p] \notin {"copy", "fill"}
    /\ ~damaged[p] =>
         /\ stage[p] = "verify" => store[lib[p]] = "good"
         /\ stage[p] \in {"check", "write", "move", "verify"} =>
              \A l \in Libraries : l < lib[p] => store[l] = "good"
         /\ stage[p] = "load" => \A l \in Libraries : store[l] = "good"

\* A call that is still running has no outcome yet.
NoOutcomeYet == \A p \in JVMs : stage[p] # "idle" => outcome[p] = "none"

IInv ==
  /\ TypeOK /\ InitialiserOwns /\ OnceHeldInside /\ LoaderReference
  /\ CheckedStaysGood /\ LoadsGenuine /\ NoOutcomeYet /\ OnlyOwnFaults
=============================================================================
