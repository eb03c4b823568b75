--------------------------- MODULE EmbeddedCapture ---------------------------
(***************************************************************************)
(* The capture coordinator of src/src/embedded/embedded_capture.cpp:       *)
(* configure, get_state and finish of the one capture a process may make,  *)
(* against a file system other processes use too and against Tracy's       *)
(* Worker and client, which are not part of the repository and appear      *)
(* here as the coordinator uses them.                                      *)
(*                                                                         *)
(* The coordinator's mutex is held over short sections only; each action   *)
(* is one such section or one thing done between two of them.              *)
(***************************************************************************)
EXTENDS Integers

CONSTANTS
    Callers     \* threads that configure and finish (the contract says one)

VARIABLES
    state,        \* value.state
    worker,       \* value.worker: see Workers
    diagnostic,   \* value.error is not empty
    opens, writes, publishes,     \* the three counters of the statistics
    pc,           \* where each caller is: "idle" or a point of configure/finish
    status,       \* what its current call will return, or its last one did
    disposition,  \* what its last finish was asked for
    configured,   \* the transport has a session
    cancelled,    \* the transport has been cancelled
    client,       \* the profiler: "off", "running", "draining", "shut"
    connected,    \* worker->IsConnected()
    hasData,      \* worker->HasData()
    output,       \* what is at the output path: "absent", "foreign" (not
                  \* ours), a whole "capture", or "empty", "growing", "short"
    partial,      \* the partial file: "absent", "empty", being written
                  \* ("growing"), "whole", or cut off at its end ("short")
    stuck         \* history: removing the partial file has failed

counts   == <<opens, writes, publishes>>
coord    == <<state, worker, diagnostic>>
call     == <<status, disposition>>
external == <<client, connected, hasData>>
files    == <<output, partial, stuck>>
vars     == <<coord, counts, pc, call, configured, cancelled, external, files>>

States == {"unconfigured", "configured", "capturing", "finishing",
           "finished", "failed", "discarded"}

Failures == {"invalidArgument", "invalidState", "outputExists", "ioError",
             "transportError", "noData", "internalError"}

(* "joining": taken out of the coordinator, its destructor is running. *)
Workers == {"none", "alive", "joining", "destroyed"}

(* The points of finishImpl inside its try block, in their order. *)
TryPoints == {"checkOutput", "checkParent", "choosePartial", "open", "write",
              "writeRest", "inspect", "publish", "unlink"}

(* The points at which finish has passed its guard and not yet settled. *)
FinishPoints == {"check", "shutdown", "draining", "wait", "recheck", "dispose",
                 "cleanup", "complete"} \cup TryPoints

Init ==
    /\ state = "unconfigured"
    /\ worker = "none"
    /\ diagnostic = FALSE
    /\ opens = 0 /\ writes = 0 /\ publishes = 0
    /\ pc = [c \in Callers |-> "idle"]
    /\ status = [c \in Callers |-> "none"]
    /\ disposition = [c \in Callers |-> "none"]
    /\ configured = FALSE
    /\ cancelled = FALSE
    /\ client = "off"
    /\ connected = FALSE
    /\ hasData = FALSE
    /\ output \in {"absent", "foreign"}
    /\ partial = "absent"
    /\ stuck = FALSE

Goto(c, from, to) == pc[c] = from /\ pc' = [pc EXCEPT ![c] = to]

(* The call of c is over and returns s. *)
Return(c, from, s) == Goto(c, from, "idle") /\ status' = [status EXCEPT ![c] = s]

(* The call of c goes on to the point `to' and will then return s. *)
Divert(c, from, to, s) == Goto(c, from, to) /\ status' = [status EXCEPT ![c] = s]

-----------------------------------------------------------------------------
(* configure: one critical section, and on an exception a second one *)

(* Bad arguments, a second configuration or an output that exists. *)
ConfigureRefused(c) ==
    /\ \/ Return(c, "idle", "invalidArgument")
       \/ state # "unconfigured" /\ Return(c, "idle", "invalidState")
       \/ state = "unconfigured" /\ output # "absent" /\ Return(c, "idle", "outputExists")
    /\ diagnostic' = TRUE
    /\ UNCHANGED <<state, worker, counts, disposition, configured, cancelled,
                   external, files>>

(* embedded::Configure fails: it has a session already or finds no memory. *)
ConfigureTransportFails(c) ==
    /\ state = "unconfigured"
    /\ output = "absent"
    /\ state' = "failed"
    /\ diagnostic' = TRUE
    /\ Return(c, "idle", "transportError")
    /\ UNCHANGED <<worker, counts, disposition, configured, cancelled, external, files>>

ConfigureSucceeds(c) ==
    /\ state = "unconfigured"
    /\ output = "absent"
    /\ ~configured
    /\ configured' = TRUE
    /\ worker' = "alive"
    /\ state' = "configured"
    /\ diagnostic' = FALSE
    /\ Return(c, "idle", "ok")
    /\ UNCHANGED <<counts, disposition, cancelled, external, files>>

(* An exception leaves the section: from the path and the file system      *)
(* before the transport is configured, or from the Worker after it.  The   *)
(* lock is released before the handler calls setFailure.                   *)
ConfigureThrows(c) ==
    /\ state = "unconfigured"
    /\ Divert(c, "idle", "fail", "internalError")
    /\ \/ configured' = configured
       \/ output = "absent" /\ ~configured /\ configured' = TRUE
    /\ UNCHANGED <<coord, counts, disposition, cancelled, external, files>>

(* setFailure, the last thing a failing configure or finish does. *)
SetFailure(c) ==
    /\ Goto(c, "fail", "idle")
    /\ state' = "failed"
    /\ diagnostic' = TRUE
    /\ UNCHANGED <<worker, counts, call, configured, cancelled, external, files>>

-----------------------------------------------------------------------------
(* get_state: reading CONFIGURED notices that the Worker has data *)

GetState ==
    /\ state = "configured"
    /\ worker = "alive"
    /\ hasData
    /\ state' = "capturing"
    /\ UNCHANGED <<worker, diagnostic, counts, pc, call, configured, cancelled,
                   external, files>>

-----------------------------------------------------------------------------
(* finish, up to the point where the Worker has everything *)

FinishRefused(c) ==
    /\ \/ Return(c, "idle", "invalidArgument")
       \/ state \notin {"configured", "capturing"} /\ Return(c, "idle", "invalidState")
    /\ diagnostic' = TRUE
    /\ UNCHANGED <<state, worker, counts, disposition, configured, cancelled,
                   external, files>>

(* Definitions named Slip... are plausible mistakes in the definition that *)
(* follows; the specification does not use them.                           *)
SlipFinishAgain(c) ==
    /\ Goto(c, "idle", "check")
    /\ state \in {"configured", "capturing", "finishing", "failed"}
    /\ state' = "finishing"
    /\ \E d \in {"save", "discard"} : disposition' = [disposition EXCEPT ![c] = d]
    /\ UNCHANGED <<worker, diagnostic, counts, status, configured, cancelled,
                   external, files>>

FinishBegins(c) ==
    /\ Goto(c, "idle", "check")
    /\ state \in {"configured", "capturing"}
    /\ state' = "finishing"
    /\ \E d \in {"save", "discard"} : disposition' = [disposition EXCEPT ![c] = d]
    /\ UNCHANGED <<worker, diagnostic, counts, status, configured, cancelled,
                   external, files>>

(* The two flags of Tracy are read without any lock. *)
HandshakeMade == worker = "alive" /\ hasData /\ client = "running"

HandshakeFound(c) ==
    /\ Goto(c, "check", "shutdown")
    /\ HandshakeMade
    /\ UNCHANGED <<coord, counts, call, configured, cancelled, external, files>>

(* Cancel, Disconnect, and then setFailure. *)
NoData(c) ==
    /\ Divert(c, "check", "fail", "noData")
    /\ ~HandshakeMade
    /\ cancelled' = TRUE
    /\ UNCHANGED <<coord, counts, disposition, configured, external, files>>

(* An exception outside the try block, which the outer handler catches:    *)
(* setFailure, then Cancel.  It comes from a lock, from Cancel, Disconnect *)
(* or the profiler's shutdown, or from setFailure while it reports some    *)
(* other failure of finish ("fail"; configure has no outer handler).       *)
FinishThrows(c) ==
    /\ \/ \E point \in {"check", "shutdown", "draining", "complete"} :
             Divert(c, point, "cancel", "internalError")
       \/ connected /\ Divert(c, "recheck", "cancel", "internalError")
       \/ disposition[c] = "discard" /\ Divert(c, "dispose", "cancel", "internalError")
       \/ disposition[c] # "none" /\ Divert(c, "fail", "cancel", "internalError")
    /\ state' = "failed"
    /\ diagnostic' = TRUE
    /\ UNCHANGED <<worker, counts, disposition, configured, cancelled, external, files>>

CancelAfterThrow(c) ==
    /\ Goto(c, "cancel", "idle")
    /\ cancelled' = TRUE
    /\ UNCHANGED <<coord, counts, call, configured, external, files>>

(* ___tracy_shutdown_profiler starts, and returns once the client is shut. *)
ShutdownBegins(c) ==
    /\ Goto(c, "shutdown", "draining")
    /\ client' = "draining"
    /\ UNCHANGED <<coord, counts, call, configured, cancelled, connected, hasData, files>>

ShutdownReturns(c) ==
    /\ Goto(c, "draining", "wait")
    /\ client = "shut"
    /\ UNCHANGED <<coord, counts, call, configured, cancelled, external, files>>

SlipWaitWithoutDeadline(c) ==
    /\ Goto(c, "wait", "recheck")
    /\ ~connected
    /\ UNCHANGED <<coord, counts, call, configured, cancelled, external, files>>

(* The loop ends because the Worker is gone or because its 30 seconds are  *)
(* over; which of the two it was is looked at afresh.                      *)
WaitEnds(c) ==
    /\ Goto(c, "wait", "recheck")
    /\ UNCHANGED <<coord, counts, call, configured, cancelled, external, files>>

StillConnected(c) ==
    /\ Divert(c, "recheck", "fail", "transportError")
    /\ connected
    /\ cancelled' = TRUE
    /\ UNCHANGED <<coord, counts, disposition, configured, external, files>>

SlipNoRecheck(c) ==
    /\ Goto(c, "recheck", "dispose")
    /\ UNCHANGED <<coord, counts, call, configured, cancelled, external, files>>

Terminated(c) ==
    /\ Goto(c, "recheck", "dispose")
    /\ ~connected
    /\ UNCHANGED <<coord, counts, call, configured, cancelled, external, files>>

Discard(c) ==
    /\ disposition[c] = "discard"
    /\ Goto(c, "dispose", "join")
    /\ state' = "discarded"
    /\ diagnostic' = FALSE
    /\ worker' = "joining"
    /\ UNCHANGED <<counts, call, configured, cancelled, external, files>>

Save(c) ==
    /\ disposition[c] = "save"
    /\ Goto(c, "dispose", "checkOutput")
    /\ UNCHANGED <<coord, counts, call, configured, cancelled, external, files>>

-----------------------------------------------------------------------------
(* finish, writing and publishing *)

CheckOutput(c) ==
    /\ IF output = "absent"
       THEN Goto(c, "checkOutput", "checkParent") /\ UNCHANGED status
       ELSE Divert(c, "checkOutput", "fail", "outputExists")
    /\ UNCHANGED <<coord, counts, disposition, configured, cancelled, external, files>>

(* The directory the output is to be in may be missing by now. *)
CheckParent(c) ==
    /\ \/ Goto(c, "checkParent", "choosePartial") /\ UNCHANGED status
       \/ Divert(c, "checkParent", "fail", "ioError")
    /\ UNCHANGED <<coord, counts, disposition, configured, cancelled, external, files>>

ChoosePartial(c) ==
    /\ Goto(c, "choosePartial", "open")
    /\ opens' = opens + 1
    /\ UNCHANGED <<coord, writes, publishes, call, configured, cancelled, external, files>>

Open(c) ==
    /\ Goto(c, "open", "write")
    /\ partial' = "empty"
    /\ writes' = writes + 1
    /\ UNCHANGED <<coord, opens, publishes, call, configured, cancelled, external,
                   output, stuck>>

(* Worker::Write, with a state of the file in which a crash finds it       *)
(* begun.  It has no result: where the file system takes only the first    *)
(* part of the file, or nothing, it comes to its end as it always does.    *)
WriteSome(c) ==
    /\ Goto(c, "write", "writeRest")
    /\ partial' = "growing"
    /\ UNCHANGED <<coord, counts, call, configured, cancelled, external, output, stuck>>

WriteRest(c) ==
    /\ \/ Goto(c, "writeRest", "inspect") /\ partial' \in {"whole", "short"}
       \/ Goto(c, "write", "inspect") /\ UNCHANGED partial
    /\ UNCHANGED <<coord, counts, call, configured, cancelled, external, output, stuck>>

SlipPublishEmpty(c) ==
    /\ Goto(c, "inspect", "publish")
    /\ UNCHANGED <<coord, counts, call, configured, cancelled, external, files>>

(* The file is looked at by its size only. *)
Inspect(c) ==
    /\ IF partial \in {"absent", "empty"}
       THEN Divert(c, "inspect", "cleanup", "ioError")
       ELSE Goto(c, "inspect", "publish") /\ UNCHANGED status
    /\ UNCHANGED <<coord, counts, disposition, configured, cancelled, external, files>>

SlipLinkReplaces(c) ==
    /\ Goto(c, "publish", "unlink")
    /\ output' = IF partial = "whole" THEN "capture" ELSE partial
    /\ UNCHANGED <<coord, counts, call, configured, cancelled, external, partial, stuck>>

(* POSIX systems publish by Link and Unlink, Windows by Move: a process    *)
(* publishes at most once, so that one of them is taken.  create_hard_link *)
(* does not replace a file that exists.                                    *)
Link(c) ==
    /\ output = "absent"
    /\ Goto(c, "publish", "unlink")
    /\ output' = IF partial = "whole" THEN "capture" ELSE partial
    /\ UNCHANGED <<coord, counts, call, configured, cancelled, external, partial, stuck>>

Unlink(c) ==
    /\ Goto(c, "unlink", "complete")
    /\ partial' = "absent"
    /\ publishes' = publishes + 1
    /\ UNCHANGED <<coord, opens, writes, call, configured, cancelled, external,
                   output, stuck>>

(* MoveFileExW without MOVEFILE_REPLACE_EXISTING. *)
Move(c) ==
    /\ output = "absent"
    /\ Goto(c, "publish", "complete")
    /\ output' = IF partial = "whole" THEN "capture" ELSE partial
    /\ partial' = "absent"
    /\ publishes' = publishes + 1
    /\ UNCHANGED <<coord, opens, writes, call, configured, cancelled, external, stuck>>

SlipNoCleanup(c) ==
    /\ \E point \in TryPoints : Divert(c, point, "fail", "ioError")
    /\ UNCHANGED <<coord, counts, disposition, configured, cancelled, external, files>>

(* Anything in the try block may throw; publishing onto a file must. *)
Throw(c) ==
    /\ \E point \in TryPoints, s \in {"ioError", "internalError"} :
          Divert(c, point, "cleanup", s)
    /\ UNCHANGED <<coord, counts, disposition, configured, cancelled, external, files>>

(* The handlers remove the partial file and ignore an error in doing so. *)
Cleanup(c) ==
    /\ Goto(c, "cleanup", "fail")
    /\ \/ partial' = "absent" /\ UNCHANGED stuck
       \/ partial # "absent" /\ stuck' = TRUE /\ UNCHANGED partial
    /\ UNCHANGED <<coord, counts, call, configured, cancelled, external, output>>

Complete(c) ==
    /\ Goto(c, "complete", "join")
    /\ state' = "finished"
    /\ diagnostic' = FALSE
    /\ worker' = "joining"
    /\ UNCHANGED <<counts, call, configured, cancelled, external, files>>

(* The Worker is destroyed with no lock held. *)
Join(c) ==
    /\ Return(c, "join", "ok")
    /\ worker' = "destroyed"
    /\ UNCHANGED <<state, diagnostic, counts, disposition, configured, cancelled,
                   external, files>>

-----------------------------------------------------------------------------
(* What the coordinator's surroundings do *)

StartClient ==
    /\ client = "off"
    /\ configured
    /\ client' = "running"
    /\ UNCHANGED <<coord, counts, pc, call, configured, cancelled, connected,
                   hasData, files>>

Handshake ==
    /\ client = "running"
    /\ worker = "alive"
    /\ ~cancelled
    /\ ~hasData
    /\ connected' = TRUE
    /\ hasData' = TRUE
    /\ UNCHANGED <<coord, counts, pc, call, configured, cancelled, client, files>>

(* The Worker stops: the client has gone, the transport was cancelled, or  *)
(* it has given the protocol up.                                           *)
WorkerStops ==
    /\ connected
    /\ connected' = FALSE
    /\ UNCHANGED <<coord, counts, pc, call, configured, cancelled, client,
                   hasData, files>>

ClientDrained ==
    /\ client = "draining"
    /\ client' = "shut"
    /\ UNCHANGED <<coord, counts, pc, call, configured, cancelled, connected,
                   hasData, files>>

(* Other processes create and remove a file at the output path. *)
ForeignFile ==
    /\ \/ output = "absent" /\ output' = "foreign"
       \/ output = "foreign" /\ output' = "absent"
    /\ UNCHANGED <<coord, counts, pc, call, configured, cancelled, external,
                   partial, stuck>>

-----------------------------------------------------------------------------

Configure(c) ==
    \/ ConfigureRefused(c) \/ ConfigureTransportFails(c)
    \/ ConfigureSucceeds(c) \/ ConfigureThrows(c)

Finish(c) == FinishRefused(c) \/ FinishBegins(c)

FinishStep(c) ==
    \/ HandshakeFound(c) \/ NoData(c) \/ FinishThrows(c) \/ CancelAfterThrow(c)
    \/ ShutdownBegins(c) \/ ShutdownReturns(c) \/ WaitEnds(c)
    \/ StillConnected(c) \/ Terminated(c) \/ Discard(c) \/ Save(c)
    \/ CheckOutput(c) \/ CheckParent(c) \/ ChoosePartial(c) \/ Open(c)
    \/ WriteSome(c) \/ WriteRest(c) \/ Inspect(c) \/ Link(c) \/ Unlink(c)
    \/ Move(c) \/ Throw(c) \/ Cleanup(c) \/ Complete(c) \/ Join(c)
    \/ SetFailure(c)

Surroundings ==
    StartClient \/ Handshake \/ WorkerStops \/ ClientDrained \/ ForeignFile

Next ==
    \/ \E c \in Callers : Configure(c) \/ Finish(c) \/ FinishStep(c)
    \/ GetState
    \/ Surroundings

Spec == Init /\ [][Next]_vars

(* A thread inside finish is scheduled, and the profiler's shutdown comes  *)
(* to an end: finish has no deadline of its own for it.                    *)
FairSpec ==
    Spec /\ (\A c \in Callers : WF_vars(FinishStep(c))) /\ WF_vars(ClientDrained)

-----------------------------------------------------------------------------
(* Properties *)

(* The type invariant. *)
TypeOK ==
    /\ state \in States
    /\ worker \in Workers
    /\ state \in {"configured", "capturing"} => worker = "alive" /\ configured
    /\ diagnostic \in BOOLEAN
    /\ opens \in Nat /\ writes \in Nat /\ publishes \in Nat
    /\ pc \in [Callers -> FinishPoints \cup {"idle", "fail", "cancel", "join"}]
    /\ status \in [Callers -> Failures \cup {"none", "ok"}]
    /\ disposition \in [Callers -> {"none", "save", "discard"}]
    /\ configured \in BOOLEAN /\ cancelled \in BOOLEAN
    /\ client \in {"off", "running", "draining", "shut"}
    /\ connected \in BOOLEAN /\ hasData \in BOOLEAN
    /\ output \in {"absent", "foreign", "capture", "empty", "growing", "short"}
    /\ partial \in {"absent", "empty", "growing", "whole", "short"}
    /\ stuck \in BOOLEAN

(* The guard of finish lets one caller through in the life of the process, *)
(* and the Worker it keeps a bare pointer to stays alive until that caller *)
(* itself takes it out of the coordinator.                                 *)
OneFinisher ==
    \A c \in Callers : pc[c] \in FinishPoints =>
        /\ worker = "alive"
        /\ \A d \in Callers \ {c} : pc[d] \notin FinishPoints \cup {"join"}

(* The Worker is written out only after the profiler has been shut down    *)
(* and the Worker has seen the end of the stream: nothing adds to it then. *)
OnlyDrainedIsWritten ==
    \A c \in Callers : pc[c] \in TryPoints => client = "shut" /\ ~connected

(* "... closes compression, and atomically renames a non-empty file": at   *)
(* every moment, a crash included, the output path holds nothing, what     *)
(* somebody else put there, or a file Worker::Write has come to the end    *)
(* of: never an empty file, nor one that is still being written.           *)
WrittenOut == {"capture", "short"}
OutputIsWrittenOut == output \in {"absent", "foreign"} \cup WrittenOut

(* A file somebody else has created at the output path is never replaced,  *)
(* also when it appears after finish has looked.                           *)
ForeignFileKept == [][output = "foreign" => output' \in {"absent", "foreign"}]_vars

(* When finish is over its partial file is gone, on every path, unless the *)
(* file system refused to remove it.                                       *)
NoPartialLeft ==
    (\A c \in Callers : pc[c] = "idle") /\ ~stuck => partial = "absent"

(* The lifecycle: where the coordinator's state may go from where, as long *)
(* as one thread only has configured and finished: the contract.           *)
Lifecycle ==
    {<<"unconfigured", "configured">>, <<"unconfigured", "failed">>,
     <<"configured", "capturing">>, <<"configured", "finishing">>,
     <<"capturing", "finishing">>, <<"finishing", "finished">>,
     <<"finishing", "failed">>, <<"finishing", "discarded">>}
Called == {c \in Callers : pc[c] # "idle" \/ status[c] # "none"}
Alone == \A c, d \in Called : c = d
LifecycleKept == [][Alone /\ state' # state => <<state, state'>> \in Lifecycle]_state

(* Every finish comes to an end, with the Worker still connected or not.   *)
FinishReturns == \A c \in Callers : pc[c] # "idle" ~> pc[c] = "idle"

(* "... writer failure, and rename failure are reported without publishing *)
(* a final capture": where finish reports a failure of the file system it  *)
(* has not published, and certainly not a whole capture.                   *)
FailureNeverPublishes ==
    \A c \in Callers :
        pc[c] = "idle" /\ status[c] = "ioError" /\ state = "failed"
        => output # "capture"

=============================================================================
