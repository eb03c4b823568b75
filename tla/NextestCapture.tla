--------------------------- MODULE NextestCapture ---------------------------
(***************************************************************************)
(* A test under cargo-nextest that records itself: the helper of           *)
(* src/rust/tracy-nextest-capture/src/lib.rs (Capture::start, run,         *)
(* run_result, Capture::finish) over the coordinator of EmbeddedCapture,   *)
(* whose operations are the ones of that module.  One process runs one     *)
(* test, on one thread, and may be killed at any moment.  vars are the     *)
(* variables of the coordinator and its surroundings.                      *)
(***************************************************************************)
EXTENDS EmbeddedCapture

CONSTANT
    Test      \* the thread of the test, the only one that makes calls

ASSUME TestAssumption == Test \in Callers

VARIABLES
    asked,      \* TRACY_NEXTEST_CAPTURE: see Requests
    attempt,    \* nextest's identity of the attempt is in the environment
    step,       \* where the helper is
    outcome,    \* what the test's body did
    verdict     \* how the process ended

helper == <<asked, attempt, step, outcome, verdict>>
testVars == <<vars, helper>>

(* Only a value that can be read and names no policy is an error. *)
Requests == {"unset", "unreadable", "off", "failure", "always", "other"}

(* parse_policy: off, and what is taken for it. *)
Inert == ~attempt \/ asked \in {"unset", "unreadable", "off"}

TestInit ==
    /\ Init
    /\ asked \in Requests
    /\ attempt \in BOOLEAN
    /\ step = "start"
    /\ outcome = "none"
    /\ verdict = "none"

At(here, next) == step = here /\ step' = next

(* process::exit, or the way out of main. *)
End(here, how) == At(here, "exit") /\ verdict' = how

setting == <<asked, attempt>>

-----------------------------------------------------------------------------
(* Capture::start *)

StartInert ==
    /\ Inert
    /\ At("start", "body")
    /\ UNCHANGED <<setting, outcome, verdict, vars>>

(* A value that is no policy, a missing directory, a name that is not      *)
(* UTF-8 or a native library of another version.                           *)
StartFails ==
    /\ ~Inert
    /\ End("start", "70")
    /\ UNCHANGED <<setting, outcome, vars>>

TestConfigures ==
    /\ ~Inert /\ asked # "other"
    /\ At("start", "configuring")
    /\ Configure(Test)
    /\ status'[Test] # "invalidArgument"
    /\ UNCHANGED <<setting, outcome, verdict>>

(* The call of configure or finish goes on inside the coordinator. *)
InCall ==
    /\ FinishStep(Test)
    /\ UNCHANGED helper

TestStartsClient ==
    /\ pc[Test] = "idle" /\ status[Test] = "ok"
    /\ At("configuring", "waiting")
    /\ StartClient
    /\ UNCHANGED <<setting, outcome, verdict>>

ConfigureFailed ==
    /\ pc[Test] = "idle" /\ status[Test] # "ok"
    /\ End("configuring", "70")
    /\ UNCHANGED <<setting, outcome, vars>>

(* wait_until_capturing: every get_state may notice the data. *)
Poll ==
    /\ step = "waiting"
    /\ GetState
    /\ UNCHANGED helper

Ready ==
    /\ state = "capturing"
    /\ At("waiting", "body")
    /\ UNCHANGED <<setting, outcome, verdict, vars>>

(* Definitions named Slip... are plausible mistakes in the definition that *)
(* follows; the specification does not use them.                           *)
SlipNotReady ==
    /\ state = "failed"
    /\ End("waiting", "70")
    /\ UNCHANGED <<setting, outcome, vars>>

(* Its ten seconds are over, or the coordinator has failed. *)
NotReady ==
    /\ state # "capturing"
    /\ End("waiting", "70")
    /\ UNCHANGED <<setting, outcome, vars>>

-----------------------------------------------------------------------------
(* The body and what follows it *)

Body ==
    /\ At("body", "ended")
    /\ \E o \in {"passed", "panic", "error"} : outcome' = o
    /\ UNCHANGED <<setting, verdict, vars>>

Failed == outcome \in {"panic", "error"}

Native == IF Failed THEN "failed" ELSE "passed"

EndInert ==
    /\ Inert
    /\ End("ended", Native)
    /\ UNCHANGED <<setting, outcome, vars>>

SlipWanted == IF asked = "always" \/ outcome # "none" THEN "save" ELSE "discard"
Wanted == IF Failed \/ asked = "always" THEN "save" ELSE "discard"

TestFinishes ==
    /\ ~Inert
    /\ At("ended", "finishing")
    /\ Finish(Test)
    /\ status'[Test] # "invalidArgument"
    /\ pc'[Test] # "idle" => disposition'[Test] = Wanted
    /\ UNCHANGED <<setting, outcome, verdict>>

SlipFinished ==
    /\ pc[Test] = "idle"
    /\ End("finishing", Native)
    /\ UNCHANGED <<setting, outcome, vars>>

(* The native outcome is preserved. *)
Finished ==
    /\ pc[Test] = "idle" /\ status[Test] = "ok"
    /\ End("finishing", Native)
    /\ UNCHANGED <<setting, outcome, vars>>

FinishFailed ==
    /\ pc[Test] = "idle" /\ status[Test] # "ok"
    /\ End("finishing", "70")
    /\ UNCHANGED <<setting, outcome, vars>>

-----------------------------------------------------------------------------

(* A signal, an abort, or nextest's timeout. *)
Killed ==
    /\ step # "exit"
    /\ End(step, "killed")
    /\ UNCHANGED <<setting, outcome, vars>>

AroundTest ==
    /\ step # "exit"
    /\ Handshake \/ WorkerStops \/ ClientDrained \/ ForeignFile
    /\ UNCHANGED helper

HelperStep ==
    \/ StartInert \/ StartFails \/ TestConfigures \/ TestStartsClient \/ ConfigureFailed
    \/ Poll \/ Ready \/ NotReady
    \/ EndInert \/ TestFinishes \/ Finished \/ FinishFailed
    \/ (step # "exit" /\ InCall)

TestNext ==
    \/ HelperStep \/ Body \/ Killed \/ AroundTest
    \/ step = "exit" /\ UNCHANGED testVars

TestSpec == TestInit /\ [][TestNext]_testVars

(* The thread of the test is scheduled, its body is over some time, and    *)
(* the profiler's shutdown comes to an end.                                *)
TestFairSpec ==
    /\ TestSpec
    /\ WF_testVars(HelperStep) /\ WF_testVars(Body)
    /\ WF_testVars(AroundTest /\ ClientDrained)

-----------------------------------------------------------------------------
(* Properties *)

(* "Passing tests use the native discard disposition, which ... never      *)
(* opens a trace writer": at no moment, killed or not, is there a file of  *)
(* a test that has not failed, unless every capture is asked for.          *)
PassingWritesNothing ==
    ~Failed /\ asked # "always" =>
        opens = 0 /\ partial = "absent" /\ output \in {"absent", "foreign"}

(* A captured test that ends as a failed test has published, once, the     *)
(* file that Worker::Write came to the end of: a missing handshake, a late *)
(* Worker, an occupied path, a file that could not be opened or published  *)
(* end the process otherwise.  That the file is whole is not promised: a   *)
(* write that came up short is not noticed.                                *)
FailureHasItsCapture ==
    verdict = "failed" /\ ~Inert => output \in WrittenOut /\ publishes = 1

(* The helper ends, its waits for the profiler and the Worker included.    *)
HelperEnds == <>(step = "exit")

=============================================================================
