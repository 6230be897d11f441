-------------------------- MODULE MCProcessSession --------------------------
(* A session of ProcessSession with a bounded child.                       *)
EXTENDS ProcessSession

(* A session never waits for good: a cancel ends it whatever the child     *)
(* does, the destructor returns, and a pipe the full event queue kept from *)
(* being read is read again.                                               *)
NeverStuck == CancelEnds /\ BackpressureEnds
=============================================================================
