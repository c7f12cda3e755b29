------------------------------ MODULE MCProvider ------------------------------
(* One call, inbound or outbound, with one repeated event and one hang-up.    *)
EXTENDS ProviderEvents
MCDirections == {"INBOUND", "OUTBOUND"}
===============================================================================
