---------------------------- MODULE CaptureProofs ----------------------------
(***************************************************************************)
(* Proofs about the capture coordinator, for any number of threads that    *)
(* call it at any time: one of them finishes, only a drained Worker is     *)
(* written, only a file that was written to its end is published, and no   *)
(* partial file stays behind.  And about the Rust helper over it: it uses  *)
(* the coordinator as the coordinator's own specification has it, a test   *)
(* that passes writes nothing, and a test that fails has its capture.      *)
(***************************************************************************)
EXTENDS NextestCapture, TLAPS

-----------------------------------------------------------------------------
(* The invariants *)

(* Where finish has not begun no caller is inside of it: the state leaves  *)
(* these three for good in the section in which finish begins.             *)
Unbegun ==
    state \in {"unconfigured", "configured", "capturing"} =>
        \A c \in Callers : pc[c] \notin FinishPoints \cup {"join"}

(* What finish relies on once it has found the client to be shut down, and *)
(* then the Worker to be disconnected.                                     *)
AfterRecheck  == TryPoints \cup {"dispose", "cleanup", "complete"}
AfterShutdown == AfterRecheck \cup {"wait", "recheck"}

Drained ==
    \A c \in Callers :
        /\ pc[c] \in AfterShutdown => client = "shut"
        /\ pc[c] \in AfterRecheck => ~connected

(* The partial file, as far as the point in finish tells. *)
PartialKnown ==
    \A c \in Callers :
        /\ pc[c] = "write" => partial = "empty"
        /\ pc[c] = "writeRest" => partial = "growing"
        /\ pc[c] = "inspect" => partial \in {"empty", "whole", "short"}
        /\ pc[c] \in {"publish", "unlink"} => partial \in {"whole", "short"}

(* Whoever has made the partial file is still before its removal. *)
Holding == {"write", "writeRest", "inspect", "publish", "unlink", "cleanup"}
PartialHeld == partial # "absent" /\ ~stuck => \E c \in Callers : pc[c] \in Holding

(* A caller that is on its way out with a failure knows which one, and as  *)
(* long as it is alone it finds the state as it has left it.               *)
Undisturbed ==
    /\ \A c \in Callers : pc[c] \in {"fail", "cancel", "cleanup"} => status[c] # "none"
    /\ Alone => \A c \in Callers :
                   /\ pc[c] \in FinishPoints => state = "finishing"
                   /\ pc[c] = "fail" => state \in {"unconfigured", "finishing"}

Points == FinishPoints \cup {"idle", "fail", "cancel", "join"}

-----------------------------------------------------------------------------
(* Type correctness *)

(* TypeOK in two halves, of which each prover likes one. *)
DataTyped ==
    /\ state \in States
    /\ worker \in Workers
    /\ state \in {"configured", "capturing"} => worker = "alive" /\ configured
    /\ opens \in Nat /\ writes \in Nat /\ publishes \in Nat
    /\ pc \in [Callers -> Points]
    /\ status \in [Callers -> Failures \cup {"none", "ok"}]
    /\ disposition \in [Callers -> {"none", "save", "discard"}]
    /\ client \in {"off", "running", "draining", "shut"}
    /\ output \in {"absent", "foreign", "capture", "empty", "growing", "short"}
    /\ partial \in {"absent", "empty", "growing", "whole", "short"}

FlagsTyped ==
    /\ diagnostic \in BOOLEAN
    /\ configured \in BOOLEAN /\ cancelled \in BOOLEAN
    /\ connected \in BOOLEAN /\ hasData \in BOOLEAN
    /\ stuck \in BOOLEAN

LEMMA TypeHalves == TypeOK <=> DataTyped /\ FlagsTyped
  BY DEF TypeOK, DataTyped, FlagsTyped, Points

LEMMA TypeHalvesNext == TypeOK' <=> DataTyped' /\ FlagsTyped'
  BY DEF TypeOK, DataTyped, FlagsTyped, Points

LEMMA TypeInit == Init => TypeOK
<1> SUFFICES ASSUME Init PROVE DataTyped /\ FlagsTyped
  BY TypeHalves
<1>1. DataTyped
  BY DEF Init, DataTyped, States, Workers, Failures, Points
<1>2. FlagsTyped
  BY DEF Init, FlagsTyped
<1> QED
  BY <1>1, <1>2

LEMMA DataStep == TypeOK /\ Unbegun /\ [Next]_vars => DataTyped'
<1> SUFFICES ASSUME DataTyped, Unbegun, [Next]_vars PROVE DataTyped'
  BY TypeHalves
<1> USE DEF DataTyped, Unbegun, States, Workers, Failures, Points, FinishPoints,
            TryPoints, Goto, Return, Divert, coord, counts, call, external, files
<1>1. ASSUME NEW c \in Callers, Configure(c) PROVE DataTyped'
  <2>1. CASE \/ ConfigureRefused(c) \/ ConfigureTransportFails(c)
    BY <2>1 DEF ConfigureRefused, ConfigureTransportFails
  <2>2. CASE ConfigureSucceeds(c)
    BY <2>2 DEF ConfigureSucceeds
  <2>3. CASE ConfigureThrows(c)
    BY <2>3 DEF ConfigureThrows
  <2> QED
    BY <1>1, <2>1, <2>2, <2>3 DEF Configure
<1>2. ASSUME NEW c \in Callers, Finish(c) PROVE DataTyped'
  BY <1>2 DEF Finish, FinishRefused, FinishBegins
<1>3. ASSUME NEW c \in Callers, FinishStep(c) PROVE DataTyped'
  <2>1. CASE \/ HandshakeFound(c) \/ NoData(c) \/ FinishThrows(c)
             \/ CancelAfterThrow(c)
    BY <2>1 DEF HandshakeFound, NoData, FinishThrows, CancelAfterThrow
  <2>2. CASE \/ ShutdownBegins(c) \/ ShutdownReturns(c) \/ WaitEnds(c)
    BY <2>2 DEF ShutdownBegins, ShutdownReturns, WaitEnds
  <2>3. CASE \/ StillConnected(c) \/ Terminated(c) \/ Save(c)
    BY <2>3 DEF StillConnected, Terminated, Save
  <2>4. CASE \/ Discard(c) \/ Complete(c) \/ Join(c) \/ SetFailure(c)
    BY <2>4 DEF Discard, Complete, Join, SetFailure
  <2>5. CASE \/ CheckOutput(c) \/ CheckParent(c) \/ ChoosePartial(c)
             \/ Open(c)
    BY <2>5 DEF CheckOutput, CheckParent, ChoosePartial, Open
  <2>6. CASE \/ WriteSome(c) \/ WriteRest(c) \/ Inspect(c)
    BY <2>6 DEF WriteSome, WriteRest, Inspect
  <2>7. CASE \/ Link(c) \/ Unlink(c) \/ Move(c)
    BY <2>7 DEF Link, Unlink, Move
  <2>8. CASE Throw(c)
    BY <2>8 DEF Throw
  <2>9. CASE Cleanup(c)
    BY <2>9 DEF Cleanup
  <2> QED
    BY <1>3, <2>1, <2>2, <2>3, <2>4, <2>5, <2>6, <2>7, <2>8,
       <2>9 DEF FinishStep
<1>4. CASE GetState \/ Surroundings
  BY <1>4 DEF GetState, Surroundings, StartClient, Handshake, WorkerStops,
              ClientDrained, ForeignFile
<1>5. CASE UNCHANGED vars
  BY <1>5 DEF vars
<1> QED
  BY <1>1, <1>2, <1>3, <1>4, <1>5 DEF Next

LEMMA FlagsStep == TypeOK /\ [Next]_vars => FlagsTyped'
<1> SUFFICES ASSUME FlagsTyped, [Next]_vars PROVE FlagsTyped'
  BY TypeHalves
<1> USE DEF FlagsTyped, Return, Divert, coord, counts, call, external, files
<1>1. ASSUME NEW c \in Callers, Configure(c) PROVE FlagsTyped'
  <2>1. CASE \/ ConfigureRefused(c) \/ ConfigureTransportFails(c)
    BY <2>1 DEF ConfigureRefused, ConfigureTransportFails
  <2>2. CASE ConfigureSucceeds(c)
    BY <2>2 DEF ConfigureSucceeds
  <2>3. CASE ConfigureThrows(c)
    BY <2>3 DEF ConfigureThrows
  <2> QED
    BY <1>1, <2>1, <2>2, <2>3 DEF Configure
<1>2. ASSUME NEW c \in Callers, Finish(c) PROVE FlagsTyped'
  BY <1>2 DEF Finish, FinishRefused, FinishBegins
<1>3. ASSUME NEW c \in Callers, FinishStep(c) PROVE FlagsTyped'
  <2>1. CASE \/ HandshakeFound(c) \/ NoData(c) \/ FinishThrows(c)
             \/ CancelAfterThrow(c)
    BY <2>1 DEF HandshakeFound, NoData, FinishThrows, CancelAfterThrow
  <2>2. CASE \/ ShutdownBegins(c) \/ ShutdownReturns(c) \/ WaitEnds(c)
    BY <2>2 DEF ShutdownBegins, ShutdownReturns, WaitEnds
  <2>3. CASE \/ StillConnected(c) \/ Terminated(c) \/ Save(c)
    BY <2>3 DEF StillConnected, Terminated, Save
  <2>4. CASE \/ Discard(c) \/ Complete(c) \/ Join(c) \/ SetFailure(c)
    BY <2>4 DEF Discard, Complete, Join, SetFailure
  <2>5. CASE \/ CheckOutput(c) \/ CheckParent(c) \/ ChoosePartial(c)
             \/ Open(c)
    BY <2>5 DEF CheckOutput, CheckParent, ChoosePartial, Open
  <2>6. CASE \/ WriteSome(c) \/ WriteRest(c) \/ Inspect(c)
    BY <2>6 DEF WriteSome, WriteRest, Inspect
  <2>7. CASE \/ Link(c) \/ Unlink(c) \/ Move(c)
    BY <2>7 DEF Link, Unlink, Move
  <2>8. CASE Throw(c)
    BY <2>8 DEF Throw
  <2>9. CASE Cleanup(c)
    BY <2>9 DEF Cleanup
  <2> QED
    BY <1>3, <2>1, <2>2, <2>3, <2>4, <2>5, <2>6, <2>7, <2>8,
       <2>9 DEF FinishStep
<1>4. CASE GetState \/ Surroundings
  BY <1>4 DEF GetState, Surroundings, StartClient, Handshake, WorkerStops,
              ClientDrained, ForeignFile
<1>5. CASE UNCHANGED vars
  BY <1>5 DEF vars
<1> QED
  BY <1>1, <1>2, <1>3, <1>4, <1>5 DEF Next


-----------------------------------------------------------------------------
(* One finisher *)

(* The state leaves the first three in the section that lets a caller in,  *)
(* and nothing brings it back.                                             *)
LEMMA UnbegunStep ==
    DataTyped /\ Unbegun /\ [Next]_vars => Unbegun'
<1> SUFFICES ASSUME DataTyped, Unbegun, [Next]_vars
    PROVE Unbegun'
  OBVIOUS
<1> USE DEF DataTyped, Goto, Return, Divert, FinishPoints, TryPoints, coord,
            counts, call, external, files, Unbegun
<1>1. ASSUME NEW c \in Callers, Configure(c) PROVE Unbegun'
  <2>1. CASE \/ ConfigureRefused(c) \/ ConfigureTransportFails(c)
    BY <2>1 DEF ConfigureRefused, ConfigureTransportFails
  <2>2. CASE ConfigureSucceeds(c)
    BY <2>2 DEF ConfigureSucceeds
  <2>3. CASE ConfigureThrows(c)
    BY <2>3 DEF ConfigureThrows
  <2> QED
    BY <1>1, <2>1, <2>2, <2>3 DEF Configure
<1>2. ASSUME NEW c \in Callers, Finish(c) PROVE Unbegun'
  BY <1>2 DEF Finish, FinishRefused, FinishBegins
<1>3. ASSUME NEW c \in Callers, FinishStep(c) PROVE Unbegun'
  <2>1. CASE \/ HandshakeFound(c) \/ NoData(c) \/ FinishThrows(c)
             \/ CancelAfterThrow(c)
    BY <2>1 DEF HandshakeFound, NoData, FinishThrows, CancelAfterThrow
  <2>2. CASE \/ ShutdownBegins(c) \/ ShutdownReturns(c) \/ WaitEnds(c)
    BY <2>2 DEF ShutdownBegins, ShutdownReturns, WaitEnds
  <2>3. CASE \/ StillConnected(c) \/ Terminated(c) \/ Save(c)
    BY <2>3 DEF StillConnected, Terminated, Save
  <2>4. CASE \/ Discard(c) \/ Complete(c) \/ Join(c) \/ SetFailure(c)
    BY <2>4 DEF Discard, Complete, Join, SetFailure
  <2>5. CASE \/ CheckOutput(c) \/ CheckParent(c) \/ ChoosePartial(c)
             \/ Open(c)
    BY <2>5 DEF CheckOutput, CheckParent, ChoosePartial, Open
  <2>6. CASE \/ WriteSome(c) \/ WriteRest(c) \/ Inspect(c)
    BY <2>6 DEF WriteSome, WriteRest, Inspect
  <2>7. CASE \/ Link(c) \/ Unlink(c) \/ Move(c)
    BY <2>7 DEF Link, Unlink, Move
  <2>8. CASE Throw(c)
    BY <2>8 DEF Throw
  <2>9. CASE Cleanup(c)
    BY <2>9 DEF Cleanup
  <2> QED
    BY <1>3, <2>1, <2>2, <2>3, <2>4, <2>5, <2>6, <2>7, <2>8,
       <2>9 DEF FinishStep
<1>4. CASE GetState \/ Surroundings
  BY <1>4 DEF GetState, Surroundings, StartClient, Handshake, WorkerStops,
              ClientDrained, ForeignFile
<1>5. CASE UNCHANGED vars
  BY <1>5 DEF vars
<1> QED
  BY <1>1, <1>2, <1>3, <1>4, <1>5 DEF Next

LEMMA OneFinisherStep ==
    DataTyped /\ Unbegun /\ OneFinisher /\ [Next]_vars => OneFinisher'
<1> SUFFICES ASSUME DataTyped, Unbegun, OneFinisher, [Next]_vars
    PROVE OneFinisher'
  OBVIOUS
<1> USE DEF DataTyped, Goto, Return, Divert, FinishPoints, TryPoints, coord,
            counts, call, external, files, Unbegun, OneFinisher
<1>1. ASSUME NEW c \in Callers, Configure(c) PROVE OneFinisher'
  <2>1. CASE \/ ConfigureRefused(c) \/ ConfigureTransportFails(c)
    BY <2>1 DEF ConfigureRefused, ConfigureTransportFails
  <2>2. CASE ConfigureSucceeds(c)
    BY <2>2 DEF ConfigureSucceeds
  <2>3. CASE ConfigureThrows(c)
    BY <2>3 DEF ConfigureThrows
  <2> QED
    BY <1>1, <2>1, <2>2, <2>3 DEF Configure
<1>2. ASSUME NEW c \in Callers, Finish(c) PROVE OneFinisher'
  BY <1>2 DEF Finish, FinishRefused, FinishBegins
<1>3. ASSUME NEW c \in Callers, FinishStep(c) PROVE OneFinisher'
  <2>1. CASE \/ HandshakeFound(c) \/ NoData(c) \/ FinishThrows(c)
             \/ CancelAfterThrow(c)
    BY <2>1 DEF HandshakeFound, NoData, FinishThrows, CancelAfterThrow
  <2>2. CASE \/ ShutdownBegins(c) \/ ShutdownReturns(c) \/ WaitEnds(c)
    BY <2>2 DEF ShutdownBegins, ShutdownReturns, WaitEnds
  <2>3. CASE \/ StillConnected(c) \/ Terminated(c) \/ Save(c)
    BY <2>3 DEF StillConnected, Terminated, Save
  <2>4. CASE \/ Discard(c) \/ Complete(c) \/ Join(c) \/ SetFailure(c)
    BY <2>4 DEF Discard, Complete, Join, SetFailure
  <2>5. CASE \/ CheckOutput(c) \/ CheckParent(c) \/ ChoosePartial(c)
             \/ Open(c)
    BY <2>5 DEF CheckOutput, CheckParent, ChoosePartial, Open
  <2>6. CASE \/ WriteSome(c) \/ WriteRest(c) \/ Inspect(c)
    BY <2>6 DEF WriteSome, WriteRest, Inspect
  <2>7. CASE \/ Link(c) \/ Unlink(c) \/ Move(c)
    BY <2>7 DEF Link, Unlink, Move
  <2>8. CASE Throw(c)
    BY <2>8 DEF Throw
  <2>9. CASE Cleanup(c)
    BY <2>9 DEF Cleanup
  <2> QED
    BY <1>3, <2>1, <2>2, <2>3, <2>4, <2>5, <2>6, <2>7, <2>8,
       <2>9 DEF FinishStep
<1>4. CASE GetState \/ Surroundings
  BY <1>4 DEF GetState, Surroundings, StartClient, Handshake, WorkerStops,
              ClientDrained, ForeignFile
<1>5. CASE UNCHANGED vars
  BY <1>5 DEF vars
<1> QED
  BY <1>1, <1>2, <1>3, <1>4, <1>5 DEF Next

-----------------------------------------------------------------------------
(* What is written *)

(* Only the one finisher starts and ends the shutdown, and once the client *)
(* is shut no handshake connects the Worker again.                         *)
LEMMA DrainedStep ==
    DataTyped /\ FlagsTyped /\ OneFinisher /\ Drained /\ [Next]_vars => Drained'
<1> SUFFICES ASSUME DataTyped, FlagsTyped, OneFinisher, Drained, [Next]_vars
    PROVE Drained'
  OBVIOUS
<1> USE DEF DataTyped, Goto, Return, Divert, FinishPoints, TryPoints, coord,
            counts, call, external, files, FlagsTyped, OneFinisher, Drained,
            AfterRecheck, AfterShutdown
<1>1. ASSUME NEW c \in Callers, Configure(c) PROVE Drained'
  <2>1. CASE \/ ConfigureRefused(c) \/ ConfigureTransportFails(c)
    BY <2>1 DEF ConfigureRefused, ConfigureTransportFails
  <2>2. CASE ConfigureSucceeds(c)
    BY <2>2 DEF ConfigureSucceeds
  <2>3. CASE ConfigureThrows(c)
    BY <2>3 DEF ConfigureThrows
  <2> QED
    BY <1>1, <2>1, <2>2, <2>3 DEF Configure
<1>2. ASSUME NEW c \in Callers, Finish(c) PROVE Drained'
  BY <1>2 DEF Finish, FinishRefused, FinishBegins
<1>3. ASSUME NEW c \in Callers, FinishStep(c) PROVE Drained'
  <2>1. CASE \/ HandshakeFound(c) \/ NoData(c) \/ FinishThrows(c)
             \/ CancelAfterThrow(c)
    BY <2>1 DEF HandshakeFound, NoData, FinishThrows, CancelAfterThrow
  <2>2. CASE \/ ShutdownBegins(c) \/ ShutdownReturns(c) \/ WaitEnds(c)
    BY <2>2 DEF ShutdownBegins, ShutdownReturns, WaitEnds
  <2>3. CASE \/ StillConnected(c) \/ Terminated(c) \/ Save(c)
    BY <2>3 DEF StillConnected, Terminated, Save
  <2>4. CASE \/ Discard(c) \/ Complete(c) \/ Join(c) \/ SetFailure(c)
    BY <2>4 DEF Discard, Complete, Join, SetFailure
  <2>5. CASE \/ CheckOutput(c) \/ CheckParent(c) \/ ChoosePartial(c)
             \/ Open(c)
    BY <2>5 DEF CheckOutput, CheckParent, ChoosePartial, Open
  <2>6. CASE \/ WriteSome(c) \/ WriteRest(c) \/ Inspect(c)
    BY <2>6 DEF WriteSome, WriteRest, Inspect
  <2>7. CASE \/ Link(c) \/ Unlink(c) \/ Move(c)
    BY <2>7 DEF Link, Unlink, Move
  <2>8. CASE Throw(c)
    BY <2>8 DEF Throw
  <2>9. CASE Cleanup(c)
    BY <2>9 DEF Cleanup
  <2> QED
    BY <1>3, <2>1, <2>2, <2>3, <2>4, <2>5, <2>6, <2>7, <2>8,
       <2>9 DEF FinishStep
<1>4. CASE GetState \/ Surroundings
  BY <1>4 DEF GetState, Surroundings, StartClient, Handshake, WorkerStops,
              ClientDrained, ForeignFile
<1>5. CASE UNCHANGED vars
  BY <1>5 DEF vars
<1> QED
  BY <1>1, <1>2, <1>3, <1>4, <1>5 DEF Next

(* Nobody else is at work on the partial file. *)
LEMMA PartialKnownStep ==
    DataTyped /\ OneFinisher /\ PartialKnown /\ [Next]_vars => PartialKnown'
<1> SUFFICES ASSUME DataTyped, OneFinisher, PartialKnown, [Next]_vars
    PROVE PartialKnown'
  OBVIOUS
<1> USE DEF DataTyped, Goto, Return, Divert, FinishPoints, TryPoints, coord,
            counts, call, external, files, OneFinisher, PartialKnown
<1>1. ASSUME NEW c \in Callers, Configure(c) PROVE PartialKnown'
  <2>1. CASE \/ ConfigureRefused(c) \/ ConfigureTransportFails(c)
    BY <2>1 DEF ConfigureRefused, ConfigureTransportFails
  <2>2. CASE ConfigureSucceeds(c)
    BY <2>2 DEF ConfigureSucceeds
  <2>3. CASE ConfigureThrows(c)
    BY <2>3 DEF ConfigureThrows
  <2> QED
    BY <1>1, <2>1, <2>2, <2>3 DEF Configure
<1>2. ASSUME NEW c \in Callers, Finish(c) PROVE PartialKnown'
  BY <1>2 DEF Finish, FinishRefused, FinishBegins
<1>3. ASSUME NEW c \in Callers, FinishStep(c) PROVE PartialKnown'
  <2>1. CASE \/ HandshakeFound(c) \/ NoData(c) \/ FinishThrows(c)
             \/ CancelAfterThrow(c)
    BY <2>1 DEF HandshakeFound, NoData, FinishThrows, CancelAfterThrow
  <2>2. CASE \/ ShutdownBegins(c) \/ ShutdownReturns(c) \/ WaitEnds(c)
    BY <2>2 DEF ShutdownBegins, ShutdownReturns, WaitEnds
  <2>3. CASE \/ StillConnected(c) \/ Terminated(c) \/ Save(c)
    BY <2>3 DEF StillConnected, Terminated, Save
  <2>4. CASE \/ Discard(c) \/ Complete(c) \/ Join(c) \/ SetFailure(c)
    BY <2>4 DEF Discard, Complete, Join, SetFailure
  <2>5. CASE \/ CheckOutput(c) \/ CheckParent(c) \/ ChoosePartial(c)
             \/ Open(c)
    BY <2>5 DEF CheckOutput, CheckParent, ChoosePartial, Open
  <2>6. CASE \/ WriteSome(c) \/ WriteRest(c) \/ Inspect(c)
    BY <2>6 DEF WriteSome, WriteRest, Inspect
  <2>7. CASE \/ Link(c) \/ Unlink(c) \/ Move(c)
    BY <2>7 DEF Link, Unlink, Move
  <2>8. CASE Throw(c)
    BY <2>8 DEF Throw
  <2>9. CASE Cleanup(c)
    BY <2>9 DEF Cleanup
  <2> QED
    BY <1>3, <2>1, <2>2, <2>3, <2>4, <2>5, <2>6, <2>7, <2>8,
       <2>9 DEF FinishStep
<1>4. CASE GetState \/ Surroundings
  BY <1>4 DEF GetState, Surroundings, StartClient, Handshake, WorkerStops,
              ClientDrained, ForeignFile
<1>5. CASE UNCHANGED vars
  BY <1>5 DEF vars
<1> QED
  BY <1>1, <1>2, <1>3, <1>4, <1>5 DEF Next

(* From where the file is opened every way out leads to its removal. *)
LEMMA PartialHeldStep ==
    DataTyped /\ PartialHeld /\ [Next]_vars => PartialHeld'
<1> SUFFICES ASSUME DataTyped, PartialHeld, [Next]_vars
    PROVE PartialHeld'
  OBVIOUS
<1> USE DEF DataTyped, Goto, Return, Divert, FinishPoints, TryPoints, coord,
            counts, call, external, files, PartialHeld, Holding
<1>1. ASSUME NEW c \in Callers, Configure(c) PROVE PartialHeld'
  <2>1. CASE \/ ConfigureRefused(c) \/ ConfigureTransportFails(c)
    BY <2>1 DEF ConfigureRefused, ConfigureTransportFails
  <2>2. CASE ConfigureSucceeds(c)
    BY <2>2 DEF ConfigureSucceeds
  <2>3. CASE ConfigureThrows(c)
    BY <2>3 DEF ConfigureThrows
  <2> QED
    BY <1>1, <2>1, <2>2, <2>3 DEF Configure
<1>2. ASSUME NEW c \in Callers, Finish(c) PROVE PartialHeld'
  BY <1>2 DEF Finish, FinishRefused, FinishBegins
<1>3. ASSUME NEW c \in Callers, FinishStep(c) PROVE PartialHeld'
  <2>1. CASE \/ HandshakeFound(c) \/ NoData(c) \/ FinishThrows(c)
             \/ CancelAfterThrow(c)
    BY <2>1 DEF HandshakeFound, NoData, FinishThrows, CancelAfterThrow
  <2>2. CASE \/ ShutdownBegins(c) \/ ShutdownReturns(c) \/ WaitEnds(c)
    BY <2>2 DEF ShutdownBegins, ShutdownReturns, WaitEnds
  <2>3. CASE \/ StillConnected(c) \/ Terminated(c) \/ Save(c)
    BY <2>3 DEF StillConnected, Terminated, Save
  <2>4. CASE \/ Discard(c) \/ Complete(c) \/ Join(c) \/ SetFailure(c)
    BY <2>4 DEF Discard, Complete, Join, SetFailure
  <2>5. CASE \/ CheckOutput(c) \/ CheckParent(c) \/ ChoosePartial(c)
             \/ Open(c)
    BY <2>5 DEF CheckOutput, CheckParent, ChoosePartial, Open
  <2>6. CASE \/ WriteSome(c) \/ WriteRest(c) \/ Inspect(c)
    BY <2>6 DEF WriteSome, WriteRest, Inspect
  <2>7. CASE \/ Link(c) \/ Unlink(c) \/ Move(c)
    BY <2>7 DEF Link, Unlink, Move
  <2>8. CASE Throw(c)
    BY <2>8 DEF Throw
  <2>9. CASE Cleanup(c)
    BY <2>9 DEF Cleanup
  <2> QED
    BY <1>3, <2>1, <2>2, <2>3, <2>4, <2>5, <2>6, <2>7, <2>8,
       <2>9 DEF FinishStep
<1>4. CASE GetState \/ Surroundings
  BY <1>4 DEF GetState, Surroundings, StartClient, Handshake, WorkerStops,
              ClientDrained, ForeignFile
<1>5. CASE UNCHANGED vars
  BY <1>5 DEF vars
<1> QED
  BY <1>1, <1>2, <1>3, <1>4, <1>5 DEF Next

(* A caller that was alone before a step was alone all the time. *)
LEMMA UndisturbedStep ==
    DataTyped /\ Undisturbed /\ [Next]_vars => Undisturbed'
<1> SUFFICES ASSUME DataTyped, Undisturbed, [Next]_vars
    PROVE Undisturbed'
  OBVIOUS
<1> USE DEF DataTyped, Goto, Return, Divert, FinishPoints, TryPoints, coord,
            counts, call, external, files, Undisturbed, Alone, Called
<1>1. ASSUME NEW c \in Callers, Configure(c) PROVE Undisturbed'
  <2>1. CASE \/ ConfigureRefused(c) \/ ConfigureTransportFails(c)
    BY <2>1 DEF ConfigureRefused, ConfigureTransportFails
  <2>2. CASE ConfigureSucceeds(c)
    BY <2>2 DEF ConfigureSucceeds
  <2>3. CASE ConfigureThrows(c)
    BY <2>3 DEF ConfigureThrows
  <2> QED
    BY <1>1, <2>1, <2>2, <2>3 DEF Configure
<1>2. ASSUME NEW c \in Callers, Finish(c) PROVE Undisturbed'
  BY <1>2 DEF Finish, FinishRefused, FinishBegins
<1>3. ASSUME NEW c \in Callers, FinishStep(c) PROVE Undisturbed'
  <2>1. CASE \/ HandshakeFound(c) \/ NoData(c) \/ FinishThrows(c)
             \/ CancelAfterThrow(c)
    BY <2>1 DEF HandshakeFound, NoData, FinishThrows, CancelAfterThrow
  <2>2. CASE \/ ShutdownBegins(c) \/ ShutdownReturns(c) \/ WaitEnds(c)
    BY <2>2 DEF ShutdownBegins, ShutdownReturns, WaitEnds
  <2>3. CASE \/ StillConnected(c) \/ Terminated(c) \/ Save(c)
    BY <2>3 DEF StillConnected, Terminated, Save
  <2>4. CASE \/ Discard(c) \/ Complete(c) \/ Join(c) \/ SetFailure(c)
    BY <2>4 DEF Discard, Complete, Join, SetFailure
  <2>5. CASE \/ CheckOutput(c) \/ CheckParent(c) \/ ChoosePartial(c)
             \/ Open(c)
    BY <2>5 DEF CheckOutput, CheckParent, ChoosePartial, Open
  <2>6. CASE \/ WriteSome(c) \/ WriteRest(c) \/ Inspect(c)
    BY <2>6 DEF WriteSome, WriteRest, Inspect
  <2>7. CASE \/ Link(c) \/ Unlink(c) \/ Move(c)
    BY <2>7 DEF Link, Unlink, Move
  <2>8. CASE Throw(c)
    BY <2>8 DEF Throw
  <2>9. CASE Cleanup(c)
    BY <2>9 DEF Cleanup
  <2> QED
    BY <1>3, <2>1, <2>2, <2>3, <2>4, <2>5, <2>6, <2>7, <2>8,
       <2>9 DEF FinishStep
<1>4. CASE GetState \/ Surroundings
  BY <1>4 DEF GetState, Surroundings, StartClient, Handshake, WorkerStops,
              ClientDrained, ForeignFile
<1>5. CASE UNCHANGED vars
  BY <1>5 DEF vars
<1> QED
  BY <1>1, <1>2, <1>3, <1>4, <1>5 DEF Next

LEMMA OutputStep ==
    DataTyped /\ PartialKnown /\ OutputIsWrittenOut /\ [Next]_vars => OutputIsWrittenOut'
<1> SUFFICES ASSUME DataTyped, PartialKnown, OutputIsWrittenOut, [Next]_vars
    PROVE OutputIsWrittenOut'
  OBVIOUS
<1> USE DEF DataTyped, Goto, Return, Divert, FinishPoints, TryPoints, coord,
            counts, call, external, files, PartialKnown, OutputIsWrittenOut, WrittenOut
<1>1. ASSUME NEW c \in Callers, Configure(c) PROVE OutputIsWrittenOut'
  <2>1. CASE \/ ConfigureRefused(c) \/ ConfigureTransportFails(c)
    BY <2>1 DEF ConfigureRefused, ConfigureTransportFails
  <2>2. CASE ConfigureSucceeds(c)
    BY <2>2 DEF ConfigureSucceeds
  <2>3. CASE ConfigureThrows(c)
    BY <2>3 DEF ConfigureThrows
  <2> QED
    BY <1>1, <2>1, <2>2, <2>3 DEF Configure
<1>2. ASSUME NEW c \in Callers, Finish(c) PROVE OutputIsWrittenOut'
  BY <1>2 DEF Finish, FinishRefused, FinishBegins
<1>3. ASSUME NEW c \in Callers, FinishStep(c) PROVE OutputIsWrittenOut'
  <2>1. CASE \/ HandshakeFound(c) \/ NoData(c) \/ FinishThrows(c)
             \/ CancelAfterThrow(c)
    BY <2>1 DEF HandshakeFound, NoData, FinishThrows, CancelAfterThrow
  <2>2. CASE \/ ShutdownBegins(c) \/ ShutdownReturns(c) \/ WaitEnds(c)
    BY <2>2 DEF ShutdownBegins, ShutdownReturns, WaitEnds
  <2>3. CASE \/ StillConnected(c) \/ Terminated(c) \/ Save(c)
    BY <2>3 DEF StillConnected, Terminated, Save
  <2>4. CASE \/ Discard(c) \/ Complete(c) \/ Join(c) \/ SetFailure(c)
    BY <2>4 DEF Discard, Complete, Join, SetFailure
  <2>5. CASE \/ CheckOutput(c) \/ CheckParent(c) \/ ChoosePartial(c)
             \/ Open(c)
    BY <2>5 DEF CheckOutput, CheckParent, ChoosePartial, Open
  <2>6. CASE \/ WriteSome(c) \/ WriteRest(c) \/ Inspect(c)
    BY <2>6 DEF WriteSome, WriteRest, Inspect
  <2>7. CASE \/ Link(c) \/ Unlink(c) \/ Move(c)
    BY <2>7 DEF Link, Unlink, Move
  <2>8. CASE Throw(c)
    BY <2>8 DEF Throw
  <2>9. CASE Cleanup(c)
    BY <2>9 DEF Cleanup
  <2> QED
    BY <1>3, <2>1, <2>2, <2>3, <2>4, <2>5, <2>6, <2>7, <2>8,
       <2>9 DEF FinishStep
<1>4. CASE GetState \/ Surroundings
  BY <1>4 DEF GetState, Surroundings, StartClient, Handshake, WorkerStops,
              ClientDrained, ForeignFile
<1>5. CASE UNCHANGED vars
  BY <1>5 DEF vars
<1> QED
  BY <1>1, <1>2, <1>3, <1>4, <1>5 DEF Next

-----------------------------------------------------------------------------
(* The invariant and the theorems *)

IInv ==
    /\ TypeOK
    /\ Unbegun
    /\ OneFinisher
    /\ Drained
    /\ PartialKnown
    /\ PartialHeld
    /\ Undisturbed
    /\ OutputIsWrittenOut

LEMMA InvariantInit == Init => IInv
<1> SUFFICES ASSUME Init PROVE IInv
  OBVIOUS
<1>1. TypeOK
  BY TypeInit
<1>2. Unbegun /\ OneFinisher
  BY DEF Init, Unbegun, OneFinisher, FinishPoints, TryPoints
<1>3. Drained /\ PartialKnown /\ PartialHeld
  BY DEF Init, Drained, AfterShutdown, AfterRecheck, TryPoints, PartialKnown, PartialHeld
<1>4. Undisturbed /\ OutputIsWrittenOut
  BY DEF Init, Undisturbed, OutputIsWrittenOut, WrittenOut, FinishPoints, TryPoints
<1> QED
  BY <1>1, <1>2, <1>3, <1>4 DEF IInv

LEMMA Invariance == Spec => []IInv
<1>1. IInv /\ [Next]_vars => IInv'
  BY TypeHalves, DataStep, FlagsStep, UnbegunStep, OneFinisherStep, DrainedStep,
     PartialKnownStep, PartialHeldStep, UndisturbedStep, OutputStep, TypeHalvesNext
     DEF IInv
<1> QED
  BY InvariantInit, <1>1, PTL DEF Spec

(* TypeOK: every variable has its type, and whoever reads that a capture   *)
(* is configured finds its Worker alive.                                   *)
THEOREM TypeCorrect == Spec => []TypeOK
<1>1. IInv => TypeOK
  BY DEF IInv
<1> QED
  BY Invariance, <1>1, PTL

(* However many threads call finish, and whatever fails, one is let        *)
(* through, and the Worker lives as long as it is inside.                  *)
THEOREM OneIsLetIn == Spec => []OneFinisher
<1>1. IInv => OneFinisher
  BY DEF IInv
<1> QED
  BY Invariance, <1>1, PTL

(* The Worker is written out only when its client has been shut down and   *)
(* its connection has ended.                                               *)
THEOREM WritesOnlyDrained == Spec => []OnlyDrainedIsWritten
<1>1. IInv => OnlyDrainedIsWritten
  BY DEF IInv, Drained, AfterShutdown, AfterRecheck, OnlyDrainedIsWritten
<1> QED
  BY Invariance, <1>1, PTL

(* Wherever the process is stopped, and whatever throws, the output path   *)
(* never has a file that is empty or still being written.  A write that    *)
(* came up short is one that the code takes for done.                      *)
THEOREM PublishesWhatIsWritten == Spec => []OutputIsWrittenOut
<1>1. IInv => OutputIsWrittenOut
  BY DEF IInv
<1> QED
  BY Invariance, <1>1, PTL

(* When no caller is at work any more the partial file is gone, unless the *)
(* file system refused to remove it.                                       *)
THEOREM PartialIsRemoved == Spec => []NoPartialLeft
<1>1. IInv => NoPartialLeft
  BY DEF IInv, PartialHeld, Holding, NoPartialLeft
<1> QED
  BY Invariance, <1>1, PTL

-----------------------------------------------------------------------------
(* What a step may never do *)

LEMMA ForeignStep ==
    TypeOK /\ [Next]_vars =>
        (output = "foreign" => output' \in {"absent", "foreign"})
<1> SUFFICES ASSUME output = "foreign", [Next]_vars PROVE output' \in {"absent", "foreign"}
  OBVIOUS
<1> USE DEF Goto, files
<1>1. ASSUME NEW c \in Callers, Configure(c) PROVE output' \in {"absent", "foreign"}
  <2>1. CASE \/ ConfigureRefused(c) \/ ConfigureTransportFails(c)
    BY <2>1 DEF ConfigureRefused, ConfigureTransportFails
  <2>2. CASE ConfigureSucceeds(c)
    BY <2>2 DEF ConfigureSucceeds
  <2>3. CASE ConfigureThrows(c)
    BY <2>3 DEF ConfigureThrows
  <2> QED
    BY <1>1, <2>1, <2>2, <2>3 DEF Configure
<1>2. ASSUME NEW c \in Callers, Finish(c) PROVE output' \in {"absent", "foreign"}
  BY <1>2 DEF Finish, FinishRefused, FinishBegins
<1>3. ASSUME NEW c \in Callers, FinishStep(c) PROVE output' \in {"absent", "foreign"}
  <2>1. CASE \/ HandshakeFound(c) \/ NoData(c) \/ FinishThrows(c)
             \/ CancelAfterThrow(c)
    BY <2>1 DEF HandshakeFound, NoData, FinishThrows, CancelAfterThrow
  <2>2. CASE \/ ShutdownBegins(c) \/ ShutdownReturns(c) \/ WaitEnds(c)
    BY <2>2 DEF ShutdownBegins, ShutdownReturns, WaitEnds
  <2>3. CASE \/ StillConnected(c) \/ Terminated(c) \/ Save(c)
    BY <2>3 DEF StillConnected, Terminated, Save
  <2>4. CASE \/ Discard(c) \/ Complete(c) \/ Join(c) \/ SetFailure(c)
    BY <2>4 DEF Discard, Complete, Join, SetFailure
  <2>5. CASE \/ CheckOutput(c) \/ CheckParent(c) \/ ChoosePartial(c)
             \/ Open(c)
    BY <2>5 DEF CheckOutput, CheckParent, ChoosePartial, Open
  <2>6. CASE \/ WriteSome(c) \/ WriteRest(c) \/ Inspect(c)
    BY <2>6 DEF WriteSome, WriteRest, Inspect
  <2>7. CASE \/ Link(c) \/ Unlink(c) \/ Move(c)
    BY <2>7 DEF Link, Unlink, Move
  <2>8. CASE Throw(c)
    BY <2>8 DEF Throw
  <2>9. CASE Cleanup(c)
    BY <2>9 DEF Cleanup
  <2> QED
    BY <1>3, <2>1, <2>2, <2>3, <2>4, <2>5, <2>6, <2>7, <2>8,
       <2>9 DEF FinishStep
<1>4. CASE GetState \/ Surroundings
  BY <1>4 DEF GetState, Surroundings, StartClient, Handshake, WorkerStops,
              ClientDrained, ForeignFile
<1>5. CASE UNCHANGED vars
  BY <1>5 DEF vars, files
<1> QED
  BY <1>1, <1>2, <1>3, <1>4, <1>5 DEF Next

(* What another process has put at the output path is not replaced by the  *)
(* capture, at whichever moment it has appeared.                           *)
THEOREM ForeignFileIsKept == Spec => ForeignFileKept
<1>1. IInv /\ [Next]_vars => [output = "foreign" => output' \in {"absent", "foreign"}]_vars
  BY ForeignStep DEF IInv
<1> QED
  BY <1>1, Invariance, PTL DEF Spec, ForeignFileKept

LEMMA LifecycleStep ==
    DataTyped /\ Undisturbed /\ [Next]_vars =>
        (Alone /\ state' # state => <<state, state'>> \in Lifecycle)
<1> SUFFICES ASSUME DataTyped, Undisturbed, [Next]_vars, Alone, state' # state
    PROVE <<state, state'>> \in Lifecycle
  OBVIOUS
<1> USE DEF DataTyped, Undisturbed, Lifecycle, FinishPoints, TryPoints, Goto, Return,
            Divert, coord
<1>1. ASSUME NEW c \in Callers, Configure(c) PROVE <<state, state'>> \in Lifecycle
  <2>1. CASE \/ ConfigureRefused(c) \/ ConfigureTransportFails(c)
    BY <2>1 DEF ConfigureRefused, ConfigureTransportFails
  <2>2. CASE ConfigureSucceeds(c)
    BY <2>2 DEF ConfigureSucceeds
  <2>3. CASE ConfigureThrows(c)
    BY <2>3 DEF ConfigureThrows
  <2> QED
    BY <1>1, <2>1, <2>2, <2>3 DEF Configure
<1>2. ASSUME NEW c \in Callers, Finish(c) PROVE <<state, state'>> \in Lifecycle
  BY <1>2 DEF Finish, FinishRefused, FinishBegins
<1>3. ASSUME NEW c \in Callers, FinishStep(c) PROVE <<state, state'>> \in Lifecycle
  <2>1. CASE \/ HandshakeFound(c) \/ NoData(c) \/ FinishThrows(c)
             \/ CancelAfterThrow(c)
    BY <2>1 DEF HandshakeFound, NoData, FinishThrows, CancelAfterThrow
  <2>2. CASE \/ ShutdownBegins(c) \/ ShutdownReturns(c) \/ WaitEnds(c)
    BY <2>2 DEF ShutdownBegins, ShutdownReturns, WaitEnds
  <2>3. CASE \/ StillConnected(c) \/ Terminated(c) \/ Save(c)
    BY <2>3 DEF StillConnected, Terminated, Save
  <2>4. CASE \/ Discard(c) \/ Complete(c) \/ Join(c) \/ SetFailure(c)
    BY <2>4 DEF Discard, Complete, Join, SetFailure
  <2>5. CASE \/ CheckOutput(c) \/ CheckParent(c) \/ ChoosePartial(c)
             \/ Open(c)
    BY <2>5 DEF CheckOutput, CheckParent, ChoosePartial, Open
  <2>6. CASE \/ WriteSome(c) \/ WriteRest(c) \/ Inspect(c)
    BY <2>6 DEF WriteSome, WriteRest, Inspect
  <2>7. CASE \/ Link(c) \/ Unlink(c) \/ Move(c)
    BY <2>7 DEF Link, Unlink, Move
  <2>8. CASE Throw(c)
    BY <2>8 DEF Throw
  <2>9. CASE Cleanup(c)
    BY <2>9 DEF Cleanup
  <2> QED
    BY <1>3, <2>1, <2>2, <2>3, <2>4, <2>5, <2>6, <2>7, <2>8,
       <2>9 DEF FinishStep
<1>4. CASE GetState \/ Surroundings
  BY <1>4 DEF GetState, Surroundings, StartClient, Handshake, WorkerStops,
              ClientDrained, ForeignFile
<1>5. CASE UNCHANGED vars
  BY <1>5 DEF vars
<1> QED
  BY <1>1, <1>2, <1>3, <1>4, <1>5 DEF Next

(* For a caller that keeps to the contract, and is alone, the state goes   *)
(* through its lifecycle and never back.                                   *)
THEOREM LifecycleIsKept == Spec => LifecycleKept
<1>1. IInv /\ [Next]_vars =>
          [Alone /\ state' # state => <<state, state'>> \in Lifecycle]_state
  BY LifecycleStep, TypeHalves DEF IInv
<1> QED
  BY <1>1, Invariance, PTL DEF Spec, LifecycleKept

-----------------------------------------------------------------------------
(* The helper: the composition *)

LEMMA CoordinatorStep == [TestNext]_testVars => [Next]_vars
<1> SUFFICES ASSUME [TestNext]_testVars, vars' # vars PROVE Next
  OBVIOUS
<1>1. CASE TestConfigures \/ InCall \/ TestFinishes
  BY <1>1, TestAssumption DEF TestConfigures, InCall, TestFinishes, Next
<1>2. CASE TestStartsClient \/ Poll \/ AroundTest
  BY <1>2 DEF TestStartsClient, Poll, AroundTest, Next, Surroundings
<1>3. \/ TestConfigures \/ InCall \/ TestFinishes
      \/ TestStartsClient \/ Poll \/ AroundTest
  BY DEF TestNext, HelperStep, StartInert, StartFails, ConfigureFailed, Ready, NotReady,
         Body, EndInert, Finished, FinishFailed, Killed, testVars
<1> QED
  BY <1>1, <1>2, <1>3

(* What the helper and its process do to the coordinator is what the       *)
(* specification of the coordinator lets one caller do, so that all that   *)
(* is shown of the coordinator holds in a test.                            *)
THEOREM HelperUsesCoordinator == TestSpec => Spec
<1>1. TestInit => Init
  BY DEF TestInit
<1> QED
  BY <1>1, CoordinatorStep, PTL DEF TestSpec, Spec

(* In a test, then, the coordinator's promises are kept, however the test  *)
(* ends: the Worker lives until the finish takes it and has seen the end   *)
(* of its stream before it is written, nothing is published while it is    *)
(* being written, nothing of others is replaced and nothing left behind.   *)
THEOREM KeptInATest ==
    TestSpec =>
        /\ [](OneFinisher /\ OnlyDrainedIsWritten /\ OutputIsWrittenOut /\ NoPartialLeft)
        /\ ForeignFileKept
        /\ LifecycleKept
  BY HelperUsesCoordinator, OneIsLetIn, WritesOnlyDrained, PublishesWhatIsWritten,
     PartialIsRemoved, ForeignFileIsKept, LifecycleIsKept, PTL

-----------------------------------------------------------------------------
(* The invariant of the helper *)

(* What TypeOK has of the thread of the test. *)
TestTyped ==
    /\ pc \in [Callers -> Points] /\ Test \in Callers
    /\ status \in [Callers -> Failures \cup {"none", "ok"}]
    /\ disposition \in [Callers -> {"none", "save", "discard"}]

(* Before the helper finishes, nothing of a finish has happened. *)
Before == {"start", "configuring", "waiting", "body", "ended"}
NotYet ==
    /\ step \in Before =>
          pc[Test] \in {"idle", "fail"} /\ disposition[Test] = "none" /\ publishes = 0
    /\ step \in Before \ {"ended"} => outcome = "none"
    /\ verdict # "none" => step = "exit"

(* The finish that goes on was asked for what the helper wants. *)
AsWanted ==
    /\ disposition[Test] = "save" => Wanted = "save"
    /\ step = "finishing" /\ (pc[Test] # "idle" \/ status[Test] = "ok") =>
          disposition[Test] = Wanted

(* Only a finish that saves has files. *)
Saving ==
    /\ pc[Test] \in TryPoints \cup {"cleanup", "complete"} =>
          disposition[Test] = "save"
    /\ opens # 0 \/ partial # "absent" \/ output \notin {"absent", "foreign"} =>
          disposition[Test] = "save"

(* The way of a capture to its publication. *)
Published == output \in WrittenOut /\ publishes = 1
OnTheWay ==
    /\ pc[Test] \in FinishPoints \ {"cleanup", "complete"} => publishes = 0
    /\ pc[Test] = "write" => partial = "empty"
    /\ pc[Test] = "writeRest" => partial = "growing"
    /\ pc[Test] = "inspect" => partial \in {"empty", "whole", "short"}
    /\ pc[Test] \in {"publish", "unlink"} => partial \in {"whole", "short"}
    /\ pc[Test] = "unlink" => output \in WrittenOut
    /\ pc[Test] \in {"complete", "join"} /\ disposition[Test] = "save" => Published

(* A call that is over has succeeded only if all of it was done. *)
Reported ==
    /\ pc[Test] \in {"fail", "cancel", "cleanup"} => status[Test] \in Failures
    /\ /\ step = "finishing" /\ pc[Test] = "idle"
       /\ status[Test] = "ok" /\ disposition[Test] = "save"
       => Published

LEMMA NotYetStep ==
    TestTyped /\ NotYet /\ [TestNext]_testVars => NotYet'
<1> SUFFICES ASSUME TestTyped, NotYet, [TestNext]_testVars
    PROVE NotYet'
  OBVIOUS
<1> USE DEF TestTyped, NotYet, Before, At, End, setting, vars, helper,
            Points, FinishPoints, TryPoints, Goto,
            Return, Divert, coord, counts,
            call, external, files
<1>1. CASE TestConfigures
  BY <1>1 DEF TestConfigures, Configure, ConfigureRefused,
              ConfigureTransportFails, ConfigureSucceeds,
              ConfigureThrows
<1>2. CASE step # "exit" /\ InCall
  <2>0. UNCHANGED helper /\ FinishStep(Test) /\ step # "exit"
    BY <1>2 DEF InCall
  <2>1. CASE \/ HandshakeFound(Test) \/ NoData(Test)
             \/ FinishThrows(Test) \/ CancelAfterThrow(Test)
    BY <2>0, <2>1 DEF HandshakeFound, NoData,
                      FinishThrows, CancelAfterThrow
  <2>2. CASE \/ ShutdownBegins(Test) \/ ShutdownReturns(Test)
             \/ WaitEnds(Test)
    BY <2>0, <2>2 DEF ShutdownBegins, ShutdownReturns,
                      WaitEnds
  <2>3. CASE \/ StillConnected(Test) \/ Terminated(Test)
             \/ Save(Test)
    BY <2>0, <2>3 DEF StillConnected, Terminated, Save
  <2>4. CASE \/ Discard(Test) \/ Complete(Test)
             \/ Join(Test) \/ SetFailure(Test)
    BY <2>0, <2>4 DEF Discard, Complete, Join,
                      SetFailure
  <2>5. CASE \/ CheckOutput(Test) \/ CheckParent(Test)
             \/ ChoosePartial(Test) \/ Open(Test)
    BY <2>0, <2>5 DEF CheckOutput, CheckParent,
                      ChoosePartial, Open
  <2>6. CASE \/ WriteSome(Test) \/ WriteRest(Test)
             \/ Inspect(Test)
    BY <2>0, <2>6 DEF WriteSome, WriteRest, Inspect
  <2>7. CASE \/ Link(Test) \/ Unlink(Test)
             \/ Move(Test)
    BY <2>0, <2>7 DEF Link, Unlink, Move
  <2>8. CASE \/ Throw(Test) \/ Cleanup(Test)
    BY <2>0, <2>8 DEF Throw, Cleanup
  <2> QED
    BY <2>0, <2>1, <2>2, <2>3, <2>4, <2>5, <2>6, <2>7,
       <2>8 DEF FinishStep
<1>3. CASE TestFinishes
  BY <1>3 DEF TestFinishes, Finish, FinishRefused,
              FinishBegins
<1>4. CASE TestStartsClient \/ Poll \/ AroundTest
  BY <1>4 DEF TestStartsClient, Poll, AroundTest, StartClient,
              GetState, Handshake, WorkerStops,
              ClientDrained, ForeignFile
<1>5. CASE
           StartInert \/ StartFails \/ ConfigureFailed \/ Ready \/ NotReady \/ Body
  BY <1>5 DEF StartInert, StartFails, ConfigureFailed, Ready, NotReady, Body
<1>6. CASE EndInert \/ Finished \/ FinishFailed \/ Killed
  BY <1>6 DEF EndInert, Finished, FinishFailed, Killed
<1>7. CASE UNCHANGED testVars
  BY <1>7 DEF testVars
<1> QED
  BY <1>1, <1>2, <1>3, <1>4, <1>5, <1>6, <1>7 DEF TestNext, HelperStep

(* The outcome of the body is known before the helper asks for anything. *)
LEMMA AsWantedStep ==
    TestTyped /\ NotYet /\ AsWanted /\ [TestNext]_testVars => AsWanted'
<1> SUFFICES ASSUME TestTyped, NotYet, AsWanted, [TestNext]_testVars
    PROVE AsWanted'
  OBVIOUS
<1> USE DEF TestTyped, NotYet, AsWanted, Wanted, Failed, Before, At, End, setting,
            vars, helper, Points, FinishPoints,
            TryPoints, Goto, Return, Divert,
            coord, counts, call, external,
            files
<1>1. CASE TestConfigures
  BY <1>1 DEF TestConfigures, Configure, ConfigureRefused,
              ConfigureTransportFails, ConfigureSucceeds,
              ConfigureThrows
<1>2. CASE step # "exit" /\ InCall
  <2>0. UNCHANGED helper /\ FinishStep(Test) /\ step # "exit"
    BY <1>2 DEF InCall
  <2>1. CASE \/ HandshakeFound(Test) \/ NoData(Test)
             \/ FinishThrows(Test) \/ CancelAfterThrow(Test)
    BY <2>0, <2>1 DEF HandshakeFound, NoData,
                      FinishThrows, CancelAfterThrow
  <2>2. CASE \/ ShutdownBegins(Test) \/ ShutdownReturns(Test)
             \/ WaitEnds(Test)
    BY <2>0, <2>2 DEF ShutdownBegins, ShutdownReturns,
                      WaitEnds
  <2>3. CASE \/ StillConnected(Test) \/ Terminated(Test)
             \/ Save(Test)
    BY <2>0, <2>3 DEF StillConnected, Terminated, Save
  <2>4. CASE \/ Discard(Test) \/ Complete(Test)
             \/ Join(Test) \/ SetFailure(Test)
    BY <2>0, <2>4 DEF Discard, Complete, Join,
                      SetFailure
  <2>5. CASE \/ CheckOutput(Test) \/ CheckParent(Test)
             \/ ChoosePartial(Test) \/ Open(Test)
    BY <2>0, <2>5 DEF CheckOutput, CheckParent,
                      ChoosePartial, Open
  <2>6. CASE \/ WriteSome(Test) \/ WriteRest(Test)
             \/ Inspect(Test)
    BY <2>0, <2>6 DEF WriteSome, WriteRest, Inspect
  <2>7. CASE \/ Link(Test) \/ Unlink(Test)
             \/ Move(Test)
    BY <2>0, <2>7 DEF Link, Unlink, Move
  <2>8. CASE \/ Throw(Test) \/ Cleanup(Test)
    BY <2>0, <2>8 DEF Throw, Cleanup
  <2> QED
    BY <2>0, <2>1, <2>2, <2>3, <2>4, <2>5, <2>6, <2>7,
       <2>8 DEF FinishStep
<1>3. CASE TestFinishes
  BY <1>3 DEF TestFinishes, Finish, FinishRefused,
              FinishBegins
<1>4. CASE TestStartsClient \/ Poll \/ AroundTest
  BY <1>4 DEF TestStartsClient, Poll, AroundTest, StartClient,
              GetState, Handshake, WorkerStops,
              ClientDrained, ForeignFile
<1>5. CASE
           StartInert \/ StartFails \/ ConfigureFailed \/ Ready \/ NotReady \/ Body
  BY <1>5 DEF StartInert, StartFails, ConfigureFailed, Ready, NotReady, Body
<1>6. CASE EndInert \/ Finished \/ FinishFailed \/ Killed
  BY <1>6 DEF EndInert, Finished, FinishFailed, Killed
<1>7. CASE UNCHANGED testVars
  BY <1>7 DEF testVars
<1> QED
  BY <1>1, <1>2, <1>3, <1>4, <1>5, <1>6, <1>7 DEF TestNext, HelperStep

LEMMA SavingStep ==
    TestTyped /\ NotYet /\ Saving /\ [TestNext]_testVars => Saving'
<1> SUFFICES ASSUME TestTyped, NotYet, Saving, [TestNext]_testVars
    PROVE Saving'
  OBVIOUS
<1> USE DEF TestTyped, NotYet, Saving, Before, At, End, setting, vars,
            helper, Points, FinishPoints, TryPoints,
            Goto, Return, Divert, coord,
            counts, call, external, files
<1>1. CASE TestConfigures
  BY <1>1 DEF TestConfigures, Configure, ConfigureRefused,
              ConfigureTransportFails, ConfigureSucceeds,
              ConfigureThrows
<1>2. CASE step # "exit" /\ InCall
  <2>0. UNCHANGED helper /\ FinishStep(Test) /\ step # "exit"
    BY <1>2 DEF InCall
  <2>1. CASE \/ HandshakeFound(Test) \/ NoData(Test)
             \/ FinishThrows(Test) \/ CancelAfterThrow(Test)
    BY <2>0, <2>1 DEF HandshakeFound, NoData,
                      FinishThrows, CancelAfterThrow
  <2>2. CASE \/ ShutdownBegins(Test) \/ ShutdownReturns(Test)
             \/ WaitEnds(Test)
    BY <2>0, <2>2 DEF ShutdownBegins, ShutdownReturns,
                      WaitEnds
  <2>3. CASE \/ StillConnected(Test) \/ Terminated(Test)
             \/ Save(Test)
    BY <2>0, <2>3 DEF StillConnected, Terminated, Save
  <2>4. CASE \/ Discard(Test) \/ Complete(Test)
             \/ Join(Test) \/ SetFailure(Test)
    BY <2>0, <2>4 DEF Discard, Complete, Join,
                      SetFailure
  <2>5. CASE \/ CheckOutput(Test) \/ CheckParent(Test)
             \/ ChoosePartial(Test) \/ Open(Test)
    BY <2>0, <2>5 DEF CheckOutput, CheckParent,
                      ChoosePartial, Open
  <2>6. CASE \/ WriteSome(Test) \/ WriteRest(Test)
             \/ Inspect(Test)
    BY <2>0, <2>6 DEF WriteSome, WriteRest, Inspect
  <2>7. CASE \/ Link(Test) \/ Unlink(Test)
             \/ Move(Test)
    BY <2>0, <2>7 DEF Link, Unlink, Move
  <2>8. CASE \/ Throw(Test) \/ Cleanup(Test)
    BY <2>0, <2>8 DEF Throw, Cleanup
  <2> QED
    BY <2>0, <2>1, <2>2, <2>3, <2>4, <2>5, <2>6, <2>7,
       <2>8 DEF FinishStep
<1>3. CASE TestFinishes
  BY <1>3 DEF TestFinishes, Finish, FinishRefused,
              FinishBegins
<1>4. CASE TestStartsClient \/ Poll \/ AroundTest
  BY <1>4 DEF TestStartsClient, Poll, AroundTest, StartClient,
              GetState, Handshake, WorkerStops,
              ClientDrained, ForeignFile
<1>5. CASE
           StartInert \/ StartFails \/ ConfigureFailed \/ Ready \/ NotReady \/ Body
  BY <1>5 DEF StartInert, StartFails, ConfigureFailed, Ready, NotReady, Body
<1>6. CASE EndInert \/ Finished \/ FinishFailed \/ Killed
  BY <1>6 DEF EndInert, Finished, FinishFailed, Killed
<1>7. CASE UNCHANGED testVars
  BY <1>7 DEF testVars
<1> QED
  BY <1>1, <1>2, <1>3, <1>4, <1>5, <1>6, <1>7 DEF TestNext, HelperStep

LEMMA OnTheWayStep ==
    TestTyped /\ NotYet /\ OnTheWay /\ [TestNext]_testVars => OnTheWay'
<1> SUFFICES ASSUME TestTyped, NotYet, OnTheWay, [TestNext]_testVars
    PROVE OnTheWay'
  OBVIOUS
<1> USE DEF TestTyped, NotYet, OnTheWay, Published, WrittenOut, Before, At, End, setting,
            vars, helper, Points, FinishPoints,
            TryPoints, Goto, Return, Divert,
            coord, counts, call, external,
            files
<1>1. CASE TestConfigures
  BY <1>1 DEF TestConfigures, Configure, ConfigureRefused,
              ConfigureTransportFails, ConfigureSucceeds,
              ConfigureThrows
<1>2. CASE step # "exit" /\ InCall
  <2>0. UNCHANGED helper /\ FinishStep(Test) /\ step # "exit"
    BY <1>2 DEF InCall
  <2>1. CASE \/ HandshakeFound(Test) \/ NoData(Test)
             \/ FinishThrows(Test) \/ CancelAfterThrow(Test)
    BY <2>0, <2>1 DEF HandshakeFound, NoData,
                      FinishThrows, CancelAfterThrow
  <2>2. CASE \/ ShutdownBegins(Test) \/ ShutdownReturns(Test)
             \/ WaitEnds(Test)
    BY <2>0, <2>2 DEF ShutdownBegins, ShutdownReturns,
                      WaitEnds
  <2>3. CASE \/ StillConnected(Test) \/ Terminated(Test)
             \/ Save(Test)
    BY <2>0, <2>3 DEF StillConnected, Terminated, Save
  <2>4. CASE \/ Discard(Test) \/ Complete(Test)
             \/ Join(Test) \/ SetFailure(Test)
    BY <2>0, <2>4 DEF Discard, Complete, Join,
                      SetFailure
  <2>5. CASE \/ CheckOutput(Test) \/ CheckParent(Test)
             \/ ChoosePartial(Test) \/ Open(Test)
    BY <2>0, <2>5 DEF CheckOutput, CheckParent,
                      ChoosePartial, Open
  <2>6. CASE \/ WriteSome(Test) \/ WriteRest(Test)
             \/ Inspect(Test)
    BY <2>0, <2>6 DEF WriteSome, WriteRest, Inspect
  <2>7. CASE \/ Link(Test) \/ Unlink(Test)
             \/ Move(Test)
    BY <2>0, <2>7 DEF Link, Unlink, Move
  <2>8. CASE \/ Throw(Test) \/ Cleanup(Test)
    BY <2>0, <2>8 DEF Throw, Cleanup
  <2> QED
    BY <2>0, <2>1, <2>2, <2>3, <2>4, <2>5, <2>6, <2>7,
       <2>8 DEF FinishStep
<1>3. CASE TestFinishes
  BY <1>3 DEF TestFinishes, Finish, FinishRefused,
              FinishBegins
<1>4. CASE TestStartsClient \/ Poll \/ AroundTest
  BY <1>4 DEF TestStartsClient, Poll, AroundTest, StartClient,
              GetState, Handshake, WorkerStops,
              ClientDrained, ForeignFile
<1>5. CASE
           StartInert \/ StartFails \/ ConfigureFailed \/ Ready \/ NotReady \/ Body
  BY <1>5 DEF StartInert, StartFails, ConfigureFailed, Ready, NotReady, Body
<1>6. CASE EndInert \/ Finished \/ FinishFailed \/ Killed
  BY <1>6 DEF EndInert, Finished, FinishFailed, Killed
<1>7. CASE UNCHANGED testVars
  BY <1>7 DEF testVars
<1> QED
  BY <1>1, <1>2, <1>3, <1>4, <1>5, <1>6, <1>7 DEF TestNext, HelperStep

LEMMA ReportedStep ==
    TestTyped /\ NotYet /\ OnTheWay /\ Reported /\ [TestNext]_testVars => Reported'
<1> SUFFICES ASSUME TestTyped, NotYet, OnTheWay, Reported, [TestNext]_testVars
    PROVE Reported'
  OBVIOUS
<1> USE DEF TestTyped, NotYet, OnTheWay, Reported, Published, WrittenOut, Failures,
            Before, At, End, setting, vars, helper, Points,
            FinishPoints, TryPoints, Goto,
            Return, Divert, coord, counts,
            call, external, files
<1>1. CASE TestConfigures
  BY <1>1 DEF TestConfigures, Configure, ConfigureRefused,
              ConfigureTransportFails, ConfigureSucceeds,
              ConfigureThrows
<1>2. CASE step # "exit" /\ InCall
  <2>0. UNCHANGED helper /\ FinishStep(Test) /\ step # "exit"
    BY <1>2 DEF InCall
  <2>1. CASE \/ HandshakeFound(Test) \/ NoData(Test)
             \/ FinishThrows(Test) \/ CancelAfterThrow(Test)
    BY <2>0, <2>1 DEF HandshakeFound, NoData,
                      FinishThrows, CancelAfterThrow
  <2>2. CASE \/ ShutdownBegins(Test) \/ ShutdownReturns(Test)
             \/ WaitEnds(Test)
    BY <2>0, <2>2 DEF ShutdownBegins, ShutdownReturns,
                      WaitEnds
  <2>3. CASE \/ StillConnected(Test) \/ Terminated(Test)
             \/ Save(Test)
    BY <2>0, <2>3 DEF StillConnected, Terminated, Save
  <2>4. CASE \/ Discard(Test) \/ Complete(Test)
             \/ Join(Test) \/ SetFailure(Test)
    BY <2>0, <2>4 DEF Discard, Complete, Join,
                      SetFailure
  <2>5. CASE \/ CheckOutput(Test) \/ CheckParent(Test)
             \/ ChoosePartial(Test) \/ Open(Test)
    BY <2>0, <2>5 DEF CheckOutput, CheckParent,
                      ChoosePartial, Open
  <2>6. CASE \/ WriteSome(Test) \/ WriteRest(Test)
             \/ Inspect(Test)
    BY <2>0, <2>6 DEF WriteSome, WriteRest, Inspect
  <2>7. CASE \/ Link(Test) \/ Unlink(Test)
             \/ Move(Test)
    BY <2>0, <2>7 DEF Link, Unlink, Move
  <2>8. CASE \/ Throw(Test) \/ Cleanup(Test)
    BY <2>0, <2>8 DEF Throw, Cleanup
  <2> QED
    BY <2>0, <2>1, <2>2, <2>3, <2>4, <2>5, <2>6, <2>7,
       <2>8 DEF FinishStep
<1>3. CASE TestFinishes
  BY <1>3 DEF TestFinishes, Finish, FinishRefused,
              FinishBegins
<1>4. CASE TestStartsClient \/ Poll \/ AroundTest
  BY <1>4 DEF TestStartsClient, Poll, AroundTest, StartClient,
              GetState, Handshake, WorkerStops,
              ClientDrained, ForeignFile
<1>5. CASE
           StartInert \/ StartFails \/ ConfigureFailed \/ Ready \/ NotReady \/ Body
  BY <1>5 DEF StartInert, StartFails, ConfigureFailed, Ready, NotReady, Body
<1>6. CASE EndInert \/ Finished \/ FinishFailed \/ Killed
  BY <1>6 DEF EndInert, Finished, FinishFailed, Killed
<1>7. CASE UNCHANGED testVars
  BY <1>7 DEF testVars
<1> QED
  BY <1>1, <1>2, <1>3, <1>4, <1>5, <1>6, <1>7 DEF TestNext, HelperStep

-----------------------------------------------------------------------------
(* Files and verdicts *)

HelperInv ==
    /\ NotYet
    /\ AsWanted
    /\ Saving
    /\ OnTheWay
    /\ Reported
    /\ FailureHasItsCapture

LEMMA HelperInvInit == TestInit => HelperInv
  BY TestAssumption DEF TestInit, Init, HelperInv, NotYet, Before, AsWanted, Saving,
         OnTheWay, Reported, FailureHasItsCapture, FinishPoints,
         TryPoints

(* Only Finished makes the verdict of a test that is captured. *)
LEMMA VerdictStep ==
    TestTyped /\ NotYet /\ AsWanted /\ Reported /\ FailureHasItsCapture /\ [TestNext]_testVars =>
        FailureHasItsCapture'
<1> SUFFICES ASSUME TestTyped, NotYet, AsWanted, Reported, FailureHasItsCapture,
                    [TestNext]_testVars
    PROVE FailureHasItsCapture'
  OBVIOUS
<1> USE DEF TestTyped, NotYet, AsWanted, Reported, FailureHasItsCapture, Wanted,
            Failed, Native, Inert, Published, WrittenOut, Before, At, End, setting,
            vars, helper, Points, FinishPoints,
            TryPoints, Goto, Return, Divert,
            coord, counts, call, external,
            files
<1>1. CASE TestConfigures
  BY <1>1 DEF TestConfigures, Configure, ConfigureRefused,
              ConfigureTransportFails, ConfigureSucceeds,
              ConfigureThrows
<1>2. CASE step # "exit" /\ InCall
  <2>0. UNCHANGED helper /\ FinishStep(Test) /\ step # "exit"
    BY <1>2 DEF InCall
  <2>1. CASE \/ HandshakeFound(Test) \/ NoData(Test)
             \/ FinishThrows(Test) \/ CancelAfterThrow(Test)
    BY <2>0, <2>1 DEF HandshakeFound, NoData,
                      FinishThrows, CancelAfterThrow
  <2>2. CASE \/ ShutdownBegins(Test) \/ ShutdownReturns(Test)
             \/ WaitEnds(Test)
    BY <2>0, <2>2 DEF ShutdownBegins, ShutdownReturns,
                      WaitEnds
  <2>3. CASE \/ StillConnected(Test) \/ Terminated(Test)
             \/ Save(Test)
    BY <2>0, <2>3 DEF StillConnected, Terminated, Save
  <2>4. CASE \/ Discard(Test) \/ Complete(Test)
             \/ Join(Test) \/ SetFailure(Test)
    BY <2>0, <2>4 DEF Discard, Complete, Join,
                      SetFailure
  <2>5. CASE \/ CheckOutput(Test) \/ CheckParent(Test)
             \/ ChoosePartial(Test) \/ Open(Test)
    BY <2>0, <2>5 DEF CheckOutput, CheckParent,
                      ChoosePartial, Open
  <2>6. CASE \/ WriteSome(Test) \/ WriteRest(Test)
             \/ Inspect(Test)
    BY <2>0, <2>6 DEF WriteSome, WriteRest, Inspect
  <2>7. CASE \/ Link(Test) \/ Unlink(Test)
             \/ Move(Test)
    BY <2>0, <2>7 DEF Link, Unlink, Move
  <2>8. CASE \/ Throw(Test) \/ Cleanup(Test)
    BY <2>0, <2>8 DEF Throw, Cleanup
  <2> QED
    BY <2>0, <2>1, <2>2, <2>3, <2>4, <2>5, <2>6, <2>7,
       <2>8 DEF FinishStep
<1>3. CASE TestFinishes
  BY <1>3 DEF TestFinishes, Finish, FinishRefused,
              FinishBegins
<1>4. CASE TestStartsClient \/ Poll \/ AroundTest
  BY <1>4 DEF TestStartsClient, Poll, AroundTest, StartClient,
              GetState, Handshake, WorkerStops,
              ClientDrained, ForeignFile
<1>5. CASE
           StartInert \/ StartFails \/ ConfigureFailed \/ Ready \/ NotReady \/ Body
  BY <1>5 DEF StartInert, StartFails, ConfigureFailed, Ready, NotReady, Body
<1>6. CASE EndInert \/ Finished \/ FinishFailed \/ Killed
  BY <1>6 DEF EndInert, Finished, FinishFailed, Killed
<1>7. CASE UNCHANGED testVars
  BY <1>7 DEF testVars
<1> QED
  BY <1>1, <1>2, <1>3, <1>4, <1>5, <1>6, <1>7 DEF TestNext, HelperStep

LEMMA TestIsTyped == TypeOK => TestTyped
  BY TestAssumption DEF TypeOK, TestTyped, Points

LEMMA HelperInvHolds == TestSpec => []HelperInv
<1>1. TypeOK /\ HelperInv /\ [TestNext]_testVars => HelperInv'
  BY TestIsTyped, NotYetStep, AsWantedStep, SavingStep, OnTheWayStep, ReportedStep,
     VerdictStep DEF HelperInv
<1> QED
  BY HelperInvInit, <1>1, HelperUsesCoordinator, TypeCorrect, PTL DEF TestSpec

(* A test that has not failed leaves nothing on the disk, wherever it is   *)
(* stopped and whatever it is refused, unless every capture is wanted.     *)
THEOREM PassingLeavesNothing == TestSpec => []PassingWritesNothing
<1>1. HelperInv => PassingWritesNothing
  BY DEF HelperInv, AsWanted, Saving, Wanted, PassingWritesNothing
<1> QED
  BY HelperInvHolds, <1>1, PTL

(* The process ends as a failed test only when the file its Worker has     *)
(* written, whole unless the write came up short, is at the output path,   *)
(* published once and by this process.                                     *)
THEOREM FailureIsCaptured == TestSpec => []FailureHasItsCapture
<1>1. HelperInv => FailureHasItsCapture
  BY DEF HelperInv
<1> QED
  BY HelperInvHolds, <1>1, PTL

=============================================================================
