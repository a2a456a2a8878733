---------------------------- MODULE MCLeitstand ----------------------------
(* Instances of Leitstand for TLC: which commands and faults a run has.    *)
EXTENDS Leitstand

TwoReleases == {1, 2}
SecondBroken == {2}
SecondUnidentified == {2}

CONSTANTS operator, releaser
(* One terminal deploys and rolls back, another prepares and certifies;    *)
(* both may prepare a release.                                             *)
Divided == [x \in {operator, releaser} |->
  IF x = operator THEN {"prepare", "deploy", "rollback"} ELSE {"prepare", "ready", "certify"}]

(* Everything but a decision file named by hand, a kill between a rollback *)
(* and its record, and the two that only add ways to a failing check.      *)
Faulty == AllFaults \ {"override", "crash-rollback", "infra", "sick"}
=============================================================================
