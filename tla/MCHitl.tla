-------------------------------- MODULE MCHitl --------------------------------
(* One instance of HitlStore for TLC: one effect, approved by one human.     *)
EXTENDS HitlProperties

MCEffect == {[capability |-> "filing.submit", payload |-> "return"]}
===============================================================================
