------------------------------ MODULE MCSessions ------------------------------
(* Instances of Sessions for TLC.  A line is a turn, a report that is none, *)
(* or a line that claims the run is over.                                   *)
EXTENDS SessionsProperties

MCKind == {"message", "usage", "completed"}
===============================================================================
