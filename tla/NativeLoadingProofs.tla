------------------------- MODULE NativeLoadingProofs -------------------------
(* Proofs about NativeLoading for any number of JVMs that share the        *)
(* extraction directory, and any number of loads, kills and damages.       *)
EXTENDS NativeLoading, TLAPS

(***************************************************************************)
(* What a step leaves alone.                                               *)
(***************************************************************************)

\* The native initialiser's part of the invariant, and the files' part.
NativeInv == InitialiserOwns /\ OnceHeldInside /\ LoaderReference
FilesInv == CheckedStaysGood /\ LoadsGenuine
OutcomeInv == NoOutcomeYet /\ OnlyOwnFaults

InJava == {"idle", "check", "write", "move", "copy", "fill", "verify", "load", "once"}
InNative == {"once", "open", "resolve", "failed", "unlock"}

LEMMA InvParts == IInv => TypeOK /\ NativeInv /\ FilesInv /\ OutcomeInv
  BY DEF IInv, NativeInv, FilesInv, OutcomeInv

LEMMA InvFromParts == TypeOK' /\ NativeInv' /\ FilesInv' /\ OutcomeInv' => IInv'
  BY DEF IInv, NativeInv, FilesInv, OutcomeInv

\* A step that changes the references of one JVM only.
LEMMA OneReference ==
  ASSUME LoaderReference, NEW p \in JVMs,
         \A q \in JVMs : q # p =>
           /\ stage'[q] = stage[q] /\ refs'[q] = refs[q] /\ module'[q] = module[q]
           /\ local'[q] = local[q] /\ api'[q] = api[q],
         refs'[p] = (IF module'[p] THEN 1 ELSE 0) + (IF local'[p] THEN 1 ELSE 0),
         api'[p].table # "empty" => module'[p] \/ local'[p],
         stage'[p] = "idle" => ~local'[p]
  PROVE  LoaderReference'
  <1> SUFFICES ASSUME NEW q \in JVMs
               PROVE  (/\ refs[q] = (IF module[q] THEN 1 ELSE 0) + (IF local[q] THEN 1 ELSE 0)
                       /\ api[q].table # "empty" => module[q] \/ local[q]
                       /\ stage[q] = "idle" => ~local[q])'
    BY DEF LoaderReference
  <1>1. CASE q = p
    BY <1>1
  <1>2. CASE q # p
    BY <1>2 DEF LoaderReference
  <1>3. QED
    BY <1>1, <1>2

\* A step of the Kotlin loader, which leaves native memory alone.
LEMMA JavaStepKeepsNative ==
  ASSUME TypeOK, NativeInv, NEW p \in JVMs, stage[p] \in InJava, NEW x \in InJava,
         Goto(p, x), UNCHANGED native
  PROVE  NativeInv'
  <1>1. stage'[p] = x /\ \A q \in JVMs : q # p => stage'[q] = stage[q]
    BY DEF TypeOK, Goto
  <1>2. InitialiserOwns'
    BY <1>1 DEF NativeInv, InitialiserOwns, native, InJava
  <1>3. OnceHeldInside'
    BY <1>1 DEF NativeInv, OnceHeldInside, native, InJava
  <1>4. LoaderReference'
    BY <1>1 DEF NativeInv, InitialiserOwns, LoaderReference, native, InJava
  <1>5. QED
    BY <1>2, <1>3, <1>4 DEF NativeInv

\* A step in which files that are good stay good and this call maps nothing.
LEMMA FilesStayGood ==
  ASSUME TypeOK, FilesInv, NEW p \in JVMs, NEW x, Goto(p, x),
         UNCHANGED <<fs, mapped, damaged>>,
         fs # "plain" => \A l \in Libraries : store[l] = "good" => store'[l] = "good",
         \A q \in JVMs : q # p => lib'[q] = lib[q],
         fs # "plain" =>
           /\ x \notin {"copy", "fill"}
           /\ ~damaged[p] =>
                /\ x = "verify" => store'[lib'[p]] = "good"
                /\ x \in {"check", "write", "move", "verify"} =>
                     \A l \in Libraries : l < lib'[p] => store'[l] = "good"
                /\ x = "load" => \A l \in Libraries : store'[l] = "good"
  PROVE  FilesInv'
  <1>1. stage'[p] = x /\ \A q \in JVMs : q # p => stage'[q] = stage[q]
    BY DEF TypeOK, Goto
  <1>2. CheckedStaysGood'
    <2> SUFFICES ASSUME NEW q \in JVMs, fs # "plain"
                 PROVE  (/\ stage[q] \notin {"copy", "fill"}
                         /\ ~damaged[q] =>
                              /\ stage[q] = "verify" => store[lib[q]] = "good"
                              /\ stage[q] \in {"check", "write", "move", "verify"} =>
                                   \A l \in Libraries : l < lib[q] => store[l] = "good"
                              /\ stage[q] = "load" => \A l \in Libraries : store[l] = "good")'
      BY DEF CheckedStaysGood
    <2>1. CASE q = p
      BY <2>1, <1>1
    <2>2. CASE q # p
      BY <2>2, <1>1 DEF FilesInv, CheckedStaysGood, TypeOK
    <2>3. QED
      BY <2>1, <2>2
  <1>3. LoadsGenuine'
    BY DEF FilesInv, LoadsGenuine
  <1>4. QED
    BY <1>2, <1>3 DEF FilesInv

\* A step inside the native initialiser: it has no more to do with the files.
LEMMA NativeStepKeepsFiles ==
  ASSUME TypeOK, FilesInv, NEW p \in JVMs, NEW x \in InNative \cup {"idle"}, Goto(p, x),
         UNCHANGED <<fs, store, mapped, damaged, lib>>
  PROVE  FilesInv'
  BY FilesStayGood DEF InNative

\* A step that ends no call.
LEMMA StepKeepsOutcomes ==
  ASSUME TypeOK, OutcomeInv, NEW p \in JVMs, NEW x, stage[p] # "idle", Goto(p, x),
         UNCHANGED <<fs, outcome, damaged>>,
         \A q \in JVMs : q # p => faulted'[q] = faulted[q] /\ once'[q] = once[q] /\ api'[q] = api[q]
  PROVE  OutcomeInv'
  <1>1. stage'[p] = x /\ \A q \in JVMs : q # p => stage'[q] = stage[q]
    BY DEF TypeOK, Goto
  <1>2. outcome[p] = "none"
    BY DEF OutcomeInv, NoOutcomeYet
  <1>3. NoOutcomeYet'
    BY <1>1, <1>2 DEF OutcomeInv, NoOutcomeYet
  <1>4. OnlyOwnFaults'
    BY <1>1, <1>2 DEF OutcomeInv, OnlyOwnFaults
  <1>5. QED
    BY <1>3, <1>4 DEF OutcomeInv

\* A step that throws, for a reason of the call's own.
LEMMA ThrowKeepsOutcomes ==
  ASSUME TypeOK, OutcomeInv, NEW p \in JVMs, Throw(p), UNCHANGED <<fs, damaged>>,
         \A q \in JVMs : q # p => faulted'[q] = faulted[q] /\ once'[q] = once[q] /\ api'[q] = api[q],
         fs = "atomic" => faulted'[p] \/ damaged[p] \/ (once'[p].complete /\ ~api'[p].initialized)
  PROVE  OutcomeInv'
  <1>1. /\ stage'[p] = "idle" /\ outcome'[p] = "threw"
        /\ \A q \in JVMs : q # p => stage'[q] = stage[q] /\ outcome'[q] = outcome[q]
    BY DEF TypeOK, Throw, Goto
  <1>2. NoOutcomeYet'
    BY <1>1 DEF OutcomeInv, NoOutcomeYet
  <1>3. OnlyOwnFaults'
    BY <1>1 DEF OutcomeInv, OnlyOwnFaults
  <1>4. QED
    BY <1>2, <1>3 DEF OutcomeInv

(***************************************************************************)
(* One lemma per action: it preserves the inductive invariant.             *)
(***************************************************************************)

LEMMA BeginLoadKeepsInv ==
  ASSUME IInv, NEW p \in JVMs, BeginLoad(p)
  PROVE  IInv'
  <1>1. TypeOK /\ NativeInv /\ FilesInv /\ OutcomeInv
    BY InvParts
  <1>2. /\ stage[p] = "idle" /\ Goto(p, "check") /\ lib' = [lib EXCEPT ![p] = 1]
        /\ outcome' = [outcome EXCEPT ![p] = "none"]
        /\ faulted' = [faulted EXCEPT ![p] = FALSE]
        /\ UNCHANGED <<fs, store, mapped, damaged, once, api, module, local, refs>>
    BY DEF BeginLoad, files, native
  <1>3. TypeOK'
    BY <1>1 DEF TypeOK, BeginLoad, Goto, files, native, Stages, Libraries
  <1>4. NativeInv'
    BY <1>1, <1>2, JavaStepKeepsNative DEF InJava, native
  <1>5. lib'[p] = 1 /\ \A q \in JVMs : q # p => lib'[q] = lib[q]
    BY <1>1, <1>2 DEF TypeOK
  <1>6. FilesInv'
    BY <1>1, <1>2, <1>5, FilesStayGood DEF Libraries
  <1>7. OutcomeInv'
    BY <1>1, <1>2 DEF TypeOK, Goto, OutcomeInv, NoOutcomeYet, OnlyOwnFaults
  <1>8. QED
    BY <1>3, <1>4, <1>6, <1>7, InvFromParts

\* The step from one library to the next, taken when the current one is good.
LEMMA NextLibraryKeepsInv ==
  ASSUME IInv, NEW p \in JVMs, stage[p] \in {"check", "verify"}, File(p) = "good",
         NextLibrary(p),
         UNCHANGED <<files, loads, mapped, loaded, unloaded, outcome, faulted, damaged, native>>
  PROVE  IInv'
  <1>1. TypeOK /\ NativeInv /\ FilesInv /\ OutcomeInv
    BY InvParts
  <1>2. PICK x \in {"load", "check"} : Goto(p, x)
    BY DEF NextLibrary
  <1>3. TypeOK'
    <2>1. lib' \in [JVMs -> Libraries]
      BY <1>1 DEF TypeOK, NextLibrary, Libraries, Shim
    <2>2. QED
      BY <1>1, <1>2, <2>1 DEF TypeOK, Goto, files, native, Stages
  <1>4. NativeInv'
    BY <1>1, <1>2, JavaStepKeepsNative DEF InJava
  <1>5. \A q \in JVMs : q # p => lib'[q] = lib[q]
    BY <1>1 DEF TypeOK, NextLibrary
  <1>6. FilesInv'
    <2>1. fs # "plain" /\ ~damaged[p] =>
            \A l \in Libraries : l < lib[p] => store[l] = "good"
      BY <1>1 DEF FilesInv, CheckedStaysGood
    <2>2. store[lib[p]] = "good" /\ store' = store /\ fs' = fs /\ lib[p] \in Libraries
      BY <1>1 DEF File, files, TypeOK
    <2>3. CASE lib[p] = Shim
      <3>1. Goto(p, "load") /\ (fs # "plain" /\ ~damaged[p] => \A l \in Libraries : store[l] = "good")
        BY <2>1, <2>2, <2>3 DEF NextLibrary, Libraries, Shim
      <3>2. QED
        BY <3>1, <2>2, <1>1, <1>5, FilesStayGood
    <2>4. CASE lib[p] # Shim
      <3>1. Goto(p, "check") /\ lib'[p] = lib[p] + 1
        BY <2>4, <1>1 DEF NextLibrary, TypeOK
      <3>2. fs # "plain" /\ ~damaged[p] => \A l \in Libraries : l < lib'[p] => store[l] = "good"
        BY <3>1, <2>1, <2>2 DEF Libraries
      <3>3. QED
        BY <3>1, <3>2, <2>2, <1>1, <1>5, FilesStayGood
    <2>5. QED
      BY <2>3, <2>4
  <1>7. OutcomeInv'
    BY <1>1, <1>2, StepKeepsOutcomes DEF files, native
  <1>8. QED
    BY <1>3, <1>4, <1>6, <1>7, InvFromParts

LEMMA CheckExistingKeepsInv ==
  ASSUME IInv, NEW p \in JVMs, CheckExisting(p)
  PROVE  IInv'
  <1>1. TypeOK /\ NativeInv /\ FilesInv /\ OutcomeInv
    BY InvParts
  <1>2. CASE Acceptable(File(p))
    BY <1>2, NextLibraryKeepsInv DEF CheckExisting, Acceptable
  <1>3. CASE ~Acceptable(File(p))
    <2>1. /\ stage[p] = "check" /\ Goto(p, "write")
          /\ UNCHANGED <<files, loader, native>>
      BY <1>3 DEF CheckExisting, loader
    <2>2. TypeOK'
      BY <1>1, <2>1 DEF TypeOK, Goto, files, loader, native, Stages
    <2>3. NativeInv'
      BY <1>1, <2>1, JavaStepKeepsNative DEF InJava
    <2>4. fs # "plain" /\ ~damaged[p] => \A l \in Libraries : l < lib[p] => store[l] = "good"
      BY <1>1, <2>1 DEF FilesInv, CheckedStaysGood
    <2>5. FilesInv'
      BY <1>1, <2>1, <2>4, FilesStayGood DEF files, loader
    <2>6. OutcomeInv'
      BY <1>1, <2>1, StepKeepsOutcomes DEF files, loader, native
    <2>7. QED
      BY <2>2, <2>3, <2>5, <2>6, InvFromParts
  <1>4. QED
    BY <1>2, <1>3

LEMMA WriteTempKeepsInv ==
  ASSUME IInv, NEW p \in JVMs, WriteTemp(p)
  PROVE  IInv'
  <1>1. TypeOK /\ NativeInv /\ FilesInv /\ OutcomeInv
    BY InvParts
  <1>2. stage[p] = "write" /\ Goto(p, "move") /\ UNCHANGED <<files, loader, native>>
    BY DEF WriteTemp
  <1>3. TypeOK'
    BY <1>1, <1>2 DEF TypeOK, Goto, files, loader, native, Stages
  <1>4. NativeInv'
    BY <1>1, <1>2, JavaStepKeepsNative DEF InJava
  <1>5. fs # "plain" /\ ~damaged[p] => \A l \in Libraries : l < lib[p] => store[l] = "good"
    BY <1>1, <1>2 DEF FilesInv, CheckedStaysGood
  <1>6. FilesInv'
    BY <1>1, <1>2, <1>5, FilesStayGood DEF files, loader
  <1>7. OutcomeInv'
    BY <1>1, <1>2, StepKeepsOutcomes DEF files, loader, native
  <1>8. QED
    BY <1>3, <1>4, <1>6, <1>7, InvFromParts

\* MoveTemp and CopyTemp: the library file is replaced, or on a file system
\* without atomic moves it is deleted, created and filled.
LEMMA MoveKeepsInv ==
  ASSUME IInv, NEW p \in JVMs, MoveTemp(p) \/ CopyTemp(p)
  PROVE  IInv'
  <1>1. TypeOK /\ NativeInv /\ FilesInv /\ OutcomeInv
    BY InvParts
  <1>2. /\ stage[p] \in {"move", "copy", "fill"}
        /\ UNCHANGED <<fs, kills, damages, loader, native>>
        /\ lib[p] \in Libraries
    BY <1>1 DEF MoveTemp, CopyTemp, TypeOK
  <1>3. PICK c \in Contents, x \in {"copy", "fill", "verify"} : Put(lib[p], c) /\ Goto(p, x)
    BY DEF MoveTemp, CopyTemp, Contents
  <1>4. fs # "plain" => stage[p] = "move" /\ Put(lib[p], "good") /\ Goto(p, "verify")
    BY <1>1 DEF MoveTemp, CopyTemp, FilesInv, CheckedStaysGood
  <1>5. TypeOK'
    BY <1>1, <1>2, <1>3 DEF TypeOK, Goto, Put, loader, native, Stages
  <1>6. NativeInv'
    BY <1>1, <1>2, <1>3, JavaStepKeepsNative DEF InJava
  <1>7. FilesInv'
    <2>1. CASE fs = "plain"
      BY <2>1, <1>1, <1>2, <1>3, FilesStayGood DEF loader
    <2>2. CASE fs # "plain"
      <3>1. /\ store'[lib[p]] = "good"
            /\ \A l \in Libraries : store[l] = "good" => store'[l] = "good"
        BY <2>2, <1>1, <1>2, <1>4 DEF Put, TypeOK
      <3>2. ~damaged[p] => \A l \in Libraries : l < lib[p] => store[l] = "good"
        BY <2>2, <1>1, <1>4 DEF FilesInv, CheckedStaysGood
      <3>3. QED
        BY <3>1, <3>2, <2>2, <1>1, <1>2, <1>4, FilesStayGood DEF loader
    <2>3. QED
      BY <2>1, <2>2
  <1>8. OutcomeInv'
    BY <1>1, <1>2, <1>3, StepKeepsOutcomes DEF loader, native
  <1>9. QED
    BY <1>5, <1>6, <1>7, <1>8, InvFromParts

\* An exception while the libraries are extracted or loaded, for a reason that
\* is the call's own wherever files can be replaced atomically.
LEMMA ThrowKeepsInv ==
  ASSUME IInv, NEW p \in JVMs,
         stage[p] \in {"check", "write", "move", "copy", "fill", "verify", "load"},
         Throw(p), faulted' \in [JVMs -> BOOLEAN],
         \A q \in JVMs : q # p => faulted'[q] = faulted[q],
         fs = "atomic" => faulted'[p] \/ damaged[p],
         UNCHANGED <<files, loads, lib, mapped, loaded, unloaded, damaged, native>>
  PROVE  IInv'
  <1>1. TypeOK /\ NativeInv /\ FilesInv /\ OutcomeInv
    BY InvParts
  <1>2. TypeOK'
    BY <1>1 DEF TypeOK, Throw, Goto, files, native, Stages
  <1>3. NativeInv'
    BY <1>1, JavaStepKeepsNative DEF InJava, Throw
  <1>4. FilesInv'
    BY <1>1, NativeStepKeepsFiles DEF Throw, files
  <1>5. OutcomeInv'
    BY <1>1, ThrowKeepsOutcomes DEF files, native
  <1>6. QED
    BY <1>2, <1>3, <1>4, <1>5, InvFromParts

LEMMA ExtractionFailsKeepsInv ==
  ASSUME IInv, NEW p \in JVMs, ExtractionFails(p)
  PROVE  IInv'
  <1>1. /\ faulted' \in [JVMs -> BOOLEAN] /\ faulted'[p]
        /\ \A q \in JVMs : q # p => faulted'[q] = faulted[q]
    BY DEF IInv, TypeOK, ExtractionFails
  <1>2. QED
    BY <1>1, ThrowKeepsInv DEF ExtractionFails

LEMMA VerifyExtractedKeepsInv ==
  ASSUME IInv, NEW p \in JVMs, VerifyExtracted(p)
  PROVE  IInv'
  <1>1. CASE File(p) = "good"
    BY <1>1, NextLibraryKeepsInv DEF VerifyExtracted
  <1>2. CASE File(p) # "good"
    <2>1. fs = "atomic" => damaged[p]
      BY <1>2 DEF VerifyExtracted, File, IInv, CheckedStaysGood
    <2>2. faulted' = faulted /\ faulted \in [JVMs -> BOOLEAN]
      BY DEF VerifyExtracted, IInv, TypeOK
    <2>3. QED
      BY <1>2, <2>1, <2>2, ThrowKeepsInv DEF VerifyExtracted
  <1>3. QED
    BY <1>1, <1>2

\* System.load: what it maps is what the check left in the directory.
LEMMA LoadLibraryKeepsInv ==
  ASSUME IInv, NEW p \in JVMs, LoadLibrary(p)
  PROVE  IInv'
  <1> DEFINE have == mapped[p][lib[p]] # "absent"
             go == IF lib[p] = Shim THEN Goto(p, "once") /\ UNCHANGED lib
                   ELSE Goto(p, "load") /\ lib' = [lib EXCEPT ![p] = @ + 1]
  <1>1. TypeOK /\ NativeInv /\ FilesInv /\ OutcomeInv
    BY InvParts
  <1>2. /\ stage[p] = "load" /\ lib[p] \in Libraries
        /\ UNCHANGED <<files, loads, loaded, unloaded, damaged, native>>
    BY <1>1 DEF LoadLibrary, TypeOK
  <1>3. fs # "plain" /\ ~damaged[p] => \A l \in Libraries : store[l] = "good"
    BY <1>1, <1>2 DEF FilesInv, CheckedStaysGood
  <1>4. CASE /\ go /\ UNCHANGED <<outcome, faulted>>
             /\ mapped' = mapped \/ mapped' = [mapped EXCEPT ![p][lib[p]] = File(p)]
    <2>1. PICK x \in {"once", "load"} : Goto(p, x)
      BY <1>4
    <2>2. /\ \A q \in JVMs : q # p => lib'[q] = lib[q]
          /\ stage'[p] = x /\ \A q \in JVMs : q # p => stage'[q] = stage[q]
      BY <1>4, <1>1, <2>1 DEF TypeOK, Goto
    <2>3. TypeOK'
      <3>1. lib' \in [JVMs -> Libraries]
        BY <1>1, <1>2, <1>4 DEF TypeOK, Libraries, Shim
      <3>2. mapped' \in [JVMs -> [Libraries -> Contents]]
        <4>1. File(p) \in Contents /\ mapped[p] \in [Libraries -> Contents]
          BY <1>1, <1>2 DEF TypeOK, File
        <4>2. [mapped[p] EXCEPT ![lib[p]] = File(p)] \in [Libraries -> Contents]
          BY <4>1
        <4>3. mapped' = mapped \/ mapped' = [mapped EXCEPT ![p] = [mapped[p] EXCEPT ![lib[p]] = File(p)]]
          BY <1>4
        <4>4. QED
          BY <1>1, <4>2, <4>3 DEF TypeOK
      <3>3. QED
        BY <3>1, <3>2, <1>1, <1>2, <1>4, <2>1 DEF TypeOK, Goto, files, native, Stages
    <2>4. NativeInv'
      BY <1>1, <1>2, <2>1, JavaStepKeepsNative DEF InJava
    <2>5. CheckedStaysGood'
      BY <1>1, <1>2, <1>3, <2>1, <2>2 DEF FilesInv, CheckedStaysGood, files
    <2>6. LoadsGenuine'
      <3> SUFFICES ASSUME fs # "plain", NEW q \in JVMs, NEW l \in Libraries, ~damaged[q]
                   PROVE  mapped'[q][l] \in {"absent", "good"}
        BY <1>2 DEF LoadsGenuine, files
      <3>1. mapped[q][l] \in {"absent", "good"}
        BY <1>1 DEF FilesInv, LoadsGenuine
      <3>2. mapped'[q][l] = mapped[q][l] \/ (q = p /\ mapped'[q][l] = File(p))
        BY <1>1, <1>2, <1>4 DEF TypeOK
      <3>3. QED
        BY <3>1, <3>2, <1>2, <1>3 DEF File
    <2>7. OutcomeInv'
      BY <1>1, <1>2, <1>4, <2>1, StepKeepsOutcomes DEF files, native
    <2>8. QED
      BY <2>3, <2>4, <2>5, <2>6, <2>7, InvFromParts DEF FilesInv
  <1>5. CASE /\ faulted' = [faulted EXCEPT ![p] = @ \/ File(p) = "good"]
             /\ Throw(p) /\ UNCHANGED <<lib, mapped>>
    <2>1. /\ faulted' \in [JVMs -> BOOLEAN] /\ (File(p) = "good" => faulted'[p])
          /\ \A q \in JVMs : q # p => faulted'[q] = faulted[q]
      BY <1>1, <1>5 DEF TypeOK
    <2>2. fs = "atomic" => faulted'[p] \/ damaged[p]
      BY <1>2, <1>3, <2>1 DEF File
    <2>3. QED
      BY <1>2, <1>5, <2>1, <2>2, ThrowKeepsInv
  <1>6. QED
    BY <1>4, <1>5 DEF LoadLibrary

(***************************************************************************)
(* The native initialiser.                                                 *)
(***************************************************************************)

LEMMA CallOnceKeepsInv ==
  ASSUME IInv, NEW p \in JVMs, CallOnce(p)
  PROVE  IInv'
  <1>1. TypeOK /\ NativeInv /\ FilesInv /\ OutcomeInv
    BY InvParts
  <1>2. PICK x \in {"unlock", "open"} :
          /\ stage[p] = "once" /\ Goto(p, x)
          /\ x = "open" <=> ~once[p].complete
          /\ once' = [once EXCEPT ![p].held = TRUE]
          /\ UNCHANGED <<files, loader, api, module, local, refs>>
    BY DEF CallOnce
  <1>3. /\ once' \in [JVMs -> [held : BOOLEAN, complete : BOOLEAN]]
        /\ once'[p].held = TRUE /\ once'[p].complete = once[p].complete
        /\ \A q \in JVMs : q # p => once'[q] = once[q]
        /\ stage'[p] = x /\ \A q \in JVMs : q # p => stage'[q] = stage[q]
    BY <1>1, <1>2 DEF TypeOK, Goto
  <1>4. TypeOK'
    BY <1>1, <1>2, <1>3 DEF TypeOK, Goto, files, loader, Stages
  <1>5. NativeInv'
    BY <1>1, <1>2, <1>3 DEF NativeInv, InitialiserOwns, OnceHeldInside, LoaderReference
  <1>6. FilesInv'
    BY <1>1, <1>2, NativeStepKeepsFiles DEF InNative, files, loader
  <1>7. OutcomeInv'
    BY <1>1, <1>2, <1>3, StepKeepsOutcomes DEF files, loader
  <1>8. QED
    BY <1>4, <1>5, <1>6, <1>7, InvFromParts

LEMMA OpenSiblingKeepsInv ==
  ASSUME IInv, NEW p \in JVMs, OpenSibling(p)
  PROVE  IInv'
  <1>1. TypeOK /\ NativeInv /\ FilesInv /\ OutcomeInv
    BY InvParts
  <1>2. /\ stage[p] = "open"
        /\ UNCHANGED <<files, loads, lib, mapped, loaded, unloaded, outcome, damaged, once, api, module>>
    BY DEF OpenSibling
  <1>3. ~local[p] /\ ~module[p] /\ refs[p] = 0 /\ api[p].table = "empty"
    BY <1>1, <1>2 DEF NativeInv, InitialiserOwns, LoaderReference
  <1>4. CASE /\ refs' = [refs EXCEPT ![p] = @ + 1] /\ local' = [local EXCEPT ![p] = TRUE]
             /\ Goto(p, "resolve") /\ UNCHANGED faulted
    <2>1. /\ stage'[p] = "resolve" /\ \A q \in JVMs : q # p => stage'[q] = stage[q]
          /\ local'[p] = TRUE /\ refs'[p] = 1
          /\ \A q \in JVMs : q # p => local'[q] = local[q] /\ refs'[q] = refs[q]
      BY <1>1, <1>3, <1>4 DEF TypeOK, Goto
    <2>2. TypeOK'
      BY <1>1, <1>2, <1>4 DEF TypeOK, Goto, files, Stages
    <2>3. InitialiserOwns' /\ OnceHeldInside'
      BY <1>1, <1>2, <1>3, <2>1 DEF NativeInv, InitialiserOwns, OnceHeldInside
    <2>4. LoaderReference'
      BY <1>1, <1>2, <1>3, <2>1, OneReference DEF NativeInv
    <2>5. FilesInv'
      BY <1>1, <1>2, <1>4, NativeStepKeepsFiles DEF InNative, files
    <2>6. OutcomeInv'
      BY <1>1, <1>2, <1>4, StepKeepsOutcomes DEF files
    <2>7. QED
      BY <2>2, <2>3, <2>4, <2>5, <2>6, InvFromParts DEF NativeInv
  <1>5. CASE /\ faulted' = [faulted EXCEPT ![p] = TRUE]
             /\ Goto(p, "unlock") /\ UNCHANGED <<refs, local>>
    <2>1. /\ stage'[p] = "unlock" /\ \A q \in JVMs : q # p => stage'[q] = stage[q]
          /\ \A q \in JVMs : q # p => faulted'[q] = faulted[q]
      BY <1>1, <1>5 DEF TypeOK, Goto
    <2>2. TypeOK'
      BY <1>1, <1>2, <1>5 DEF TypeOK, Goto, files, Stages
    <2>3. NativeInv'
      BY <1>1, <1>2, <1>3, <1>5, <2>1 DEF NativeInv, InitialiserOwns, OnceHeldInside, LoaderReference
    <2>4. FilesInv'
      BY <1>1, <1>2, <1>5, NativeStepKeepsFiles DEF InNative, files
    <2>5. OutcomeInv'
      BY <1>1, <1>2, <1>5, <2>1, StepKeepsOutcomes DEF files
    <2>6. QED
      BY <2>2, <2>3, <2>4, <2>5, InvFromParts
  <1>6. QED
    BY <1>4, <1>5 DEF OpenSibling

\* The module moves from init_flac_api's variable to g_flac_module, with the
\* reference that belongs to it.
LEMMA ResolveApiKeepsInv ==
  ASSUME IInv, NEW p \in JVMs, ResolveApi(p)
  PROVE  IInv'
  <1>1. TypeOK /\ NativeInv /\ FilesInv /\ OutcomeInv
    BY InvParts
  <1>2. /\ stage[p] = "resolve"
        /\ UNCHANGED <<files, loads, lib, mapped, loaded, unloaded, outcome, damaged, once, refs>>
    BY DEF ResolveApi
  <1>3. local[p] /\ ~module[p] /\ refs[p] = 1
    BY <1>1, <1>2 DEF NativeInv, InitialiserOwns, LoaderReference
  <1>4. CASE /\ api' = [api EXCEPT ![p] = [table |-> "full", initialized |-> TRUE]]
             /\ module' = [module EXCEPT ![p] = TRUE] /\ local' = [local EXCEPT ![p] = FALSE]
             /\ Goto(p, "unlock") /\ UNCHANGED faulted
    <2>1. /\ stage'[p] = "unlock" /\ \A q \in JVMs : q # p => stage'[q] = stage[q]
          /\ module'[p] = TRUE /\ local'[p] = FALSE
          /\ \A q \in JVMs : q # p => module'[q] = module[q] /\ local'[q] = local[q] /\ api'[q] = api[q]
      BY <1>1, <1>4 DEF TypeOK, Goto
    <2>2. TypeOK'
      BY <1>1, <1>2, <1>4 DEF TypeOK, Goto, files, Stages
    <2>3. NativeInv'
      BY <1>1, <1>2, <1>3, <2>1 DEF NativeInv, InitialiserOwns, OnceHeldInside, LoaderReference
    <2>4. FilesInv'
      BY <1>1, <1>2, <1>4, NativeStepKeepsFiles DEF InNative, files
    <2>5. OutcomeInv'
      BY <1>1, <1>2, <1>4, <2>1, StepKeepsOutcomes DEF files
    <2>6. QED
      BY <2>2, <2>3, <2>4, <2>5, InvFromParts
  <1>5. CASE /\ api' = [api EXCEPT ![p].table = "partial"]
             /\ faulted' = [faulted EXCEPT ![p] = TRUE]
             /\ Goto(p, "failed") /\ UNCHANGED <<module, local>>
    <2>1. /\ stage'[p] = "failed" /\ \A q \in JVMs : q # p => stage'[q] = stage[q]
          /\ \A q \in JVMs : q # p => faulted'[q] = faulted[q] /\ api'[q] = api[q]
      BY <1>1, <1>5 DEF TypeOK, Goto
    <2>2. TypeOK'
      BY <1>1, <1>2, <1>5 DEF TypeOK, Goto, files, Stages
    <2>3. NativeInv'
      BY <1>1, <1>2, <1>3, <1>5, <2>1 DEF NativeInv, InitialiserOwns, OnceHeldInside, LoaderReference
    <2>4. FilesInv'
      BY <1>1, <1>2, <1>5, NativeStepKeepsFiles DEF InNative, files
    <2>5. OutcomeInv'
      BY <1>1, <1>2, <1>5, <2>1, StepKeepsOutcomes DEF files
    <2>6. QED
      BY <2>2, <2>3, <2>4, <2>5, InvFromParts
  <1>6. QED
    BY <1>4, <1>5 DEF ResolveApi

\* A module that was rejected is closed, or kept for JNI_OnUnload.
LEMMA InitFailedKeepsInv ==
  ASSUME IInv, NEW p \in JVMs, InitFailed(p)
  PROVE  IInv'
  <1>1. TypeOK /\ NativeInv /\ FilesInv /\ OutcomeInv
    BY InvParts
  <1>2. /\ stage[p] = "failed" /\ Goto(p, "unlock")
        /\ api' = [api EXCEPT ![p] = NoApi]
        /\ local' = [local EXCEPT ![p] = FALSE]
        /\ UNCHANGED <<files, loader, once>>
    BY DEF InitFailed
  <1>3. local[p] /\ ~module[p] /\ refs[p] = 1
    BY <1>1, <1>2 DEF NativeInv, InitialiserOwns, LoaderReference
  <1>4. \/ refs' = [refs EXCEPT ![p] = @ - 1] /\ module' = module
        \/ module' = [module EXCEPT ![p] = TRUE] /\ refs' = refs
    BY <1>3 DEF InitFailed, CloseLibrary, KeepRejected
  <1>5. /\ refs' \in [JVMs -> Nat] /\ module' \in [JVMs -> BOOLEAN]
        /\ refs'[p] = IF module'[p] THEN 1 ELSE 0
        /\ \A q \in JVMs : q # p => refs'[q] = refs[q] /\ module'[q] = module[q]
    <2>1. CASE refs' = [refs EXCEPT ![p] = @ - 1] /\ module' = module
      <3>1. refs' = [refs EXCEPT ![p] = 0]
        BY <2>1, <1>3
      <3>2. QED
        BY <2>1, <3>1, <1>1, <1>3 DEF TypeOK
    <2>2. CASE module' = [module EXCEPT ![p] = TRUE] /\ refs' = refs
      BY <2>2, <1>1, <1>3 DEF TypeOK
    <2>3. QED
      BY <1>4, <2>1, <2>2
  <1>6. /\ stage'[p] = "unlock" /\ local'[p] = FALSE /\ api'[p] = NoApi
        /\ \A q \in JVMs : q # p =>
             stage'[q] = stage[q] /\ local'[q] = local[q] /\ api'[q] = api[q]
    BY <1>1, <1>2 DEF TypeOK, Goto
  <1>7. TypeOK'
    BY <1>1, <1>2, <1>5 DEF TypeOK, Goto, NoApi, files, loader, Stages
  <1>8. NativeInv'
    <2>1. InitialiserOwns'
      BY <1>1, <1>2, <1>5, <1>6 DEF NativeInv, InitialiserOwns
    <2>2. OnceHeldInside'
      BY <1>1, <1>2, <1>6 DEF NativeInv, OnceHeldInside
    <2>3. LoaderReference'
      BY <1>1, <1>5, <1>6, OneReference DEF NativeInv, NoApi
    <2>4. QED
      BY <2>1, <2>2, <2>3 DEF NativeInv
  <1>9. FilesInv'
    BY <1>1, <1>2, NativeStepKeepsFiles DEF InNative, files, loader
  <1>10. OutcomeInv'
    BY <1>1, <1>2, <1>6, StepKeepsOutcomes DEF files, loader
  <1>11. QED
    BY <1>7, <1>8, <1>9, <1>10, InvFromParts

LEMMA FinishOnceKeepsInv ==
  ASSUME IInv, NEW p \in JVMs, FinishOnce(p)
  PROVE  IInv'
  <1>1. TypeOK /\ NativeInv /\ FilesInv /\ OutcomeInv
    BY InvParts
  <1>2. /\ stage[p] = "unlock" /\ Goto(p, "idle")
        /\ once' = [once EXCEPT ![p] = [held |-> FALSE, complete |-> TRUE]]
        /\ UNCHANGED <<files, loads, lib, mapped, unloaded, faulted, damaged, api, module, local, refs>>
    BY DEF FinishOnce, HeldAfter, Throw
  <1>3. /\ once'[p] = [held |-> FALSE, complete |-> TRUE] /\ stage'[p] = "idle"
        /\ \A q \in JVMs : q # p => once'[q] = once[q] /\ stage'[q] = stage[q]
    BY <1>1, <1>2 DEF TypeOK, Goto
  <1>4. TypeOK'
    <2>1. once' \in [JVMs -> [held : BOOLEAN, complete : BOOLEAN]] /\ stage' \in [JVMs -> Stages]
      BY <1>1, <1>2 DEF TypeOK, Goto, Stages
    <2>2. outcome' \in [JVMs -> {"none", "returned", "threw"}] /\ loaded' \in [JVMs -> BOOLEAN]
      BY <1>1 DEF TypeOK, FinishOnce, Throw
    <2>3. QED
      BY <1>1, <1>2, <2>1, <2>2 DEF TypeOK, files
  <1>5. NativeInv'
    BY <1>1, <1>2, <1>3 DEF NativeInv, InitialiserOwns, OnceHeldInside, LoaderReference
  <1>6. FilesInv'
    BY <1>1, <1>2, NativeStepKeepsFiles DEF files
  <1>7. OutcomeInv'
    <2>1. CASE api[p].initialized
      <3>1. outcome'[p] = "returned" /\ \A q \in JVMs : q # p => outcome'[q] = outcome[q]
        BY <2>1, <1>1 DEF FinishOnce, TypeOK
      <3>2. NoOutcomeYet'
        BY <3>1, <1>1, <1>3 DEF OutcomeInv, NoOutcomeYet
      <3>3. OnlyOwnFaults'
        BY <3>1, <1>1, <1>2, <1>3 DEF OutcomeInv, OnlyOwnFaults, files
      <3>4. QED
        BY <3>2, <3>3 DEF OutcomeInv
    <2>2. CASE ~api[p].initialized
      BY <2>2, <1>1, <1>2, <1>3, ThrowKeepsOutcomes DEF FinishOnce, files
    <2>3. QED
      BY <2>1, <2>2
  <1>8. QED
    BY <1>4, <1>5, <1>6, <1>7, InvFromParts

(***************************************************************************)
(* The end of a JVM, and damage.                                           *)
(***************************************************************************)

\* JNI_OnUnload closes the module, or keeps it with its reference.
LEMMA UnloadKeepsInv ==
  ASSUME IInv, NEW p \in JVMs, Unload(p)
  PROVE  IInv'
  <1>1. TypeOK /\ NativeInv /\ FilesInv /\ OutcomeInv
    BY InvParts
  <1>2. /\ stage[p] = "idle" /\ api' = [api EXCEPT ![p] = NoApi]
        /\ unloaded' = [unloaded EXCEPT ![p] = TRUE]
        /\ UNCHANGED <<files, stage, loads, lib, mapped, loaded, outcome, faulted, damaged, once, local>>
    BY DEF Unload
  <1>3. ~local[p] /\ refs[p] = IF module[p] THEN 1 ELSE 0
    BY <1>1, <1>2 DEF NativeInv, LoaderReference, TypeOK
  <1>4. /\ refs' \in [JVMs -> Nat] /\ module' \in [JVMs -> BOOLEAN]
        /\ refs'[p] = IF module'[p] THEN 1 ELSE 0
        /\ module'[p] => module[p]
        /\ \A q \in JVMs : q # p => refs'[q] = refs[q] /\ module'[q] = module[q]
    <2>1. CASE CloseLibrary(p, module[p]) /\ module' = [module EXCEPT ![p] = FALSE]
      <3>1. refs' = [refs EXCEPT ![p] = 0]
        BY <2>1, <1>1, <1>3 DEF CloseLibrary, TypeOK
      <3>2. QED
        BY <2>1, <3>1, <1>1 DEF TypeOK
    <2>2. CASE UNCHANGED <<refs, module>>
      BY <2>2, <1>1, <1>3 DEF TypeOK
    <2>3. QED
      BY <2>1, <2>2 DEF Unload
  <1>5. api'[p] = NoApi /\ \A q \in JVMs : q # p => api'[q] = api[q]
    BY <1>1, <1>2 DEF TypeOK
  <1>6. TypeOK'
    BY <1>1, <1>2, <1>4 DEF TypeOK, NoApi, files
  <1>7. NativeInv'
    <2>1. InitialiserOwns'
      BY <1>1, <1>2, <1>4 DEF NativeInv, InitialiserOwns
    <2>2. OnceHeldInside'
      BY <1>1, <1>2 DEF NativeInv, OnceHeldInside
    <2>3. LoaderReference'
      BY <1>1, <1>2, <1>3, <1>4, <1>5, OneReference DEF NativeInv, NoApi
    <2>4. QED
      BY <2>1, <2>2, <2>3 DEF NativeInv
  <1>8. FilesInv'
    BY <1>1, <1>2 DEF FilesInv, CheckedStaysGood, LoadsGenuine, files
  <1>9. OutcomeInv'
    BY <1>1, <1>2, <1>5 DEF OutcomeInv, NoOutcomeYet, OnlyOwnFaults, NoApi, files
  <1>10. QED
    BY <1>6, <1>7, <1>8, <1>9, InvFromParts

LEMMA KillKeepsInv ==
  ASSUME IInv, NEW p \in JVMs, Kill(p)
  PROVE  IInv'
  <1>1. TypeOK /\ NativeInv /\ FilesInv /\ OutcomeInv
    BY InvParts
  <1>2. /\ stage'[p] = "idle" /\ lib'[p] = 1 /\ mapped'[p] = Unmapped /\ outcome'[p] = "none"
        /\ once'[p] = NewOnce /\ api'[p] = NoApi
        /\ module'[p] = FALSE /\ local'[p] = FALSE /\ refs'[p] = 0
        /\ UNCHANGED <<fs, store>>
    BY <1>1 DEF Kill, TypeOK
  <1>3. \A q \in JVMs : q # p =>
          /\ stage'[q] = stage[q] /\ lib'[q] = lib[q] /\ mapped'[q] = mapped[q]
          /\ outcome'[q] = outcome[q] /\ faulted'[q] = faulted[q] /\ damaged'[q] = damaged[q]
          /\ once'[q] = once[q] /\ api'[q] = api[q]
          /\ module'[q] = module[q] /\ local'[q] = local[q] /\ refs'[q] = refs[q]
    BY <1>1 DEF Kill, TypeOK
  <1>4. TypeOK'
    BY <1>1 DEF Kill, TypeOK, Stages, Libraries, Contents, Unmapped, NewOnce, NoApi
  <1>5. NativeInv'
    <2>1. InitialiserOwns'
      BY <1>1, <1>2, <1>3 DEF NativeInv, InitialiserOwns
    <2>2. OnceHeldInside'
      BY <1>1, <1>2, <1>3 DEF NativeInv, OnceHeldInside, NewOnce
    <2>3. LoaderReference'
      BY <1>1, <1>2, <1>3 DEF NativeInv, LoaderReference, NoApi
    <2>4. QED
      BY <2>1, <2>2, <2>3 DEF NativeInv
  <1>6. CheckedStaysGood'
    BY <1>1, <1>2, <1>3 DEF FilesInv, CheckedStaysGood
  <1>7. LoadsGenuine'
    BY <1>1, <1>2, <1>3 DEF FilesInv, LoadsGenuine, Unmapped
  <1>8. OutcomeInv'
    BY <1>1, <1>2, <1>3 DEF OutcomeInv, NoOutcomeYet, OnlyOwnFaults
  <1>9. QED
    BY <1>4, <1>5, <1>6, <1>7, <1>8, InvFromParts DEF FilesInv

LEMMA DamageKeepsInv ==
  ASSUME IInv, Damage
  PROVE  IInv'
  <1>1. TypeOK /\ NativeInv /\ FilesInv /\ OutcomeInv
    BY InvParts
  <1>2. /\ \A p \in JVMs : damaged'[p] = (damaged[p] \/ stage[p] # "idle")
        /\ UNCHANGED <<fs, kills, stage, loads, lib, mapped, loaded, unloaded, outcome, faulted, native>>
    BY DEF Damage
  <1>3. TypeOK'
    BY <1>1, <1>2 DEF TypeOK, Damage, Put, Contents, native
  <1>4. NativeInv'
    BY <1>1, <1>2 DEF NativeInv, InitialiserOwns, OnceHeldInside, LoaderReference, native
  <1>5. FilesInv'
    BY <1>1, <1>2 DEF FilesInv, CheckedStaysGood, LoadsGenuine
  <1>6. OutcomeInv'
    BY <1>1, <1>2 DEF OutcomeInv, NoOutcomeYet, OnlyOwnFaults, native
  <1>7. QED
    BY <1>3, <1>4, <1>5, <1>6, InvFromParts

LEMMA InitInv == Init => IInv
  <1> SUFFICES ASSUME Init PROVE IInv
    OBVIOUS
  <1>1. TypeOK
    BY DEF Init, TypeOK, Stages, Libraries, Contents, Unmapped, NewOnce, NoApi
  <1>2. InitialiserOwns /\ OnceHeldInside /\ LoaderReference
    BY DEF Init, InitialiserOwns, OnceHeldInside, LoaderReference, NewOnce, NoApi
  <1>3. CheckedStaysGood /\ LoadsGenuine
    BY DEF Init, CheckedStaysGood, LoadsGenuine, Unmapped
  <1>4. NoOutcomeYet /\ OnlyOwnFaults
    BY DEF Init, NoOutcomeYet, OnlyOwnFaults
  <1>5. QED
    BY <1>1, <1>2, <1>3, <1>4 DEF IInv

LEMMA NextKeepsInv == IInv /\ [Next]_vars => IInv'
  <1> SUFFICES ASSUME IInv, [Next]_vars PROVE IInv'
    OBVIOUS
  <1>1. ASSUME NEW p \in JVMs, Continue(p)
        PROVE  IInv'
    BY <1>1, CheckExistingKeepsInv, WriteTempKeepsInv, MoveKeepsInv, ExtractionFailsKeepsInv,
       VerifyExtractedKeepsInv, LoadLibraryKeepsInv, CallOnceKeepsInv, OpenSiblingKeepsInv,
       ResolveApiKeepsInv, InitFailedKeepsInv, FinishOnceKeepsInv DEF Continue
  <1>2. ASSUME NEW p \in JVMs, BeginLoad(p) \/ Unload(p) \/ Kill(p)
        PROVE  IInv'
    BY <1>2, BeginLoadKeepsInv, UnloadKeepsInv, KillKeepsInv
  <1>3. CASE Damage
    BY <1>3, DamageKeepsInv
  <1>4. CASE UNCHANGED vars
    BY <1>4 DEF vars, files, loader, native, IInv, TypeOK, InitialiserOwns, OnceHeldInside,
       LoaderReference, CheckedStaysGood, LoadsGenuine, NoOutcomeYet, OnlyOwnFaults
  <1>5. QED
    BY <1>1, <1>2, <1>3, <1>4 DEF Next

(***************************************************************************)
(* Theorems.                                                               *)
(***************************************************************************)

\* What ties the shared files, the once flag and the module variables together
\* holds for any number of JVMs, whenever they are killed.
THEOREM InvariantHolds == Spec => []IInv
  <1>1. QED
    BY InitInv, NextKeepsInv, PTL DEF Spec

\* Where a move is atomic, System.load maps only the bytes of the JVM's own
\* bundle: the digest check cannot be undone by another JVM's extraction.
THEOREM OnlyGenuineLibraries == Spec => []LoadsGenuine
  <1>1. IInv => LoadsGenuine
    BY DEF IInv
  <1>2. QED
    BY <1>1, InvariantHolds, PTL

\* On such a POSIX file system load() never throws because of other JVMs.
THEOREM OthersCauseNoFailure == Spec => []OnlyOwnFaults
  <1>1. IInv => OnlyOwnFaults
    BY DEF IInv
  <1>2. QED
    BY <1>1, InvariantHolds, PTL

\* init_flac_api and JNI_OnUnload neither lose nor double-close the reference to
\* libFLAC, and leave no pointer into a module that is not held.
THEOREM ReferencesBalance == Spec => []LoaderReference
  <1>1. IInv => LoaderReference
    BY DEF IInv
  <1>2. QED
    BY <1>1, InvariantHolds, PTL

\* A load() that reaches jflac_call_once never finds its mutex held, in
\* particular not by an earlier call of the same JVM that failed.
THEOREM OnceMutexIsFree == Spec => [](\A p \in JVMs : stage[p] = "once" => ~once[p].held)
  <1>1. IInv => \A p \in JVMs : stage[p] = "once" => ~once[p].held
    BY DEF IInv, OnceHeldInside
  <1>2. QED
    BY <1>1, InvariantHolds, PTL
=============================================================================
