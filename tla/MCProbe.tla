------------------------------ MODULE MCProbe ------------------------------
(* probe_addresses over three candidate addresses, of which two can reach  *)
(* the interchange.                                                        *)
EXTENDS Probe

CONSTANTS a1, a2, a3

MCAddresses == <<a1, a2, a3>>
=============================================================================
