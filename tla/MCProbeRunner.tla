--------------------------- MODULE MCProbeRunner ---------------------------
(* ProbeRunner with two checks: a probe of both, and one of the first alone. *)
EXTENDS ProbeRunner

CONSTANTS c1, c2

TwoProbes == {{c1}, {c1, c2}}
=============================================================================
