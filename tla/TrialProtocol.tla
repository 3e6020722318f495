---------------------------- MODULE TrialProtocol ---------------------------
(* The measured iterations of a case, which benchmark.py runs, runner.py     *)
(* records and comparison.py expects: CUDA-event trials, Kineto trials, and  *)
(* the fixture each uses.                                                    *)
EXTENDS Integers

CONSTANTS EventTrials, KinetoTrials

FixtureOf(trial) == IF trial % 2 = 0 THEN "A" ELSE "B"
=============================================================================
