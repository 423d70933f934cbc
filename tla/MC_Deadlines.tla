---------------------------- MODULE MC_Deadlines ----------------------------
(***************************************************************************)
(* A small instance of Deadlines: two slots; no resource but every ttl and  *)
(* every grace period, or one ttl and up to five resources.                *)
(***************************************************************************)
EXTENDS Deadlines

SomeRequests ==
    ((1..MaxTTL) \X (0..MaxGrace) \X {0}) \cup ({MaxTTL} \X {0, 1, 4} \X {1, 3, 4, 5})

\* Bound: a plan that has resources is applied at once.
AppliedAtOnce == request[3] = 0 \/ phase = "kept" \/ started = created
=============================================================================
