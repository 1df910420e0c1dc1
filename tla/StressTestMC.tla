---------------------------- MODULE StressTestMC ----------------------------
\* Instances of StressTest for TLC.
EXTENDS StressTest

CONSTANTS v, w

OneEach == v :> 1 @@ w :> 1
ThreeAndOne == v :> 3 @@ w :> 1

=============================================================================
