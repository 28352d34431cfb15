------------------------------ MODULE MCTools ------------------------------
(***************************************************************************)
(* What MCCollections needs of the tools around the program, the test      *)
(* runner and the post-install script: their inputs, and how they rest.    *)
(***************************************************************************)
EXTENDS TestRunner, Install

(* Cases for the console among others, one that ends early, none at all.   *)
TestCase(console, steps) == [console |-> console, steps |-> steps]
Quiet   == TestCase(FALSE, <<"run", "judge">>)
Console == TestCase(TRUE, <<"run", "judge">>)
MCSuites == {<<Quiet, Console, TestCase(FALSE, <<"const">>), Console>>,
             <<Quiet, TestCase(FALSE, <<"run", "judge", "stop", "run", "judge">>), Quiet>>,
             <<TestCase(FALSE, <<>>), TestCase(FALSE, <<"run">>), Console>>, <<>>}

(* Three executors, one superseded; any flags.                             *)
MCFlags == [Names -> BOOLEAN]
MCManifest == <<<<0, 2, 5>>, <<0, 2, 6>>, <<0, 3, 0>>>>
MCRegistry == [v \in {<<0, 2, 5>>, <<0, 2, 6>>, <<0, 3, 0>>} |-> IF v = <<0, 3, 0>> THEN <<1, 2>> ELSE <<1>>]

RunnerIdle  == /\ suite = <<>> /\ at = End /\ waiting = FALSE /\ latch = <<>> /\ task = <<>> /\ results = <<>>
               /\ passed = 0 /\ failed = <<>>
InstallIdle == /\ file = <<>> /\ venv = "none" /\ flags = <<>> /\ stage = "off" /\ ver = 0 /\ writing = <<>>
               /\ queue = <<>> /\ exit = "none" /\ runs = MaxRuns

(* The stage has returned, the script has been started often enough.       *)
ToolsEnded == at = End /\ stage = "off" /\ runs = MaxRuns
=============================================================================
