----------------------------- MODULE MCAgentLine -----------------------------
(* An agent with two devices.                                              *)
EXTENDS AgentLine, TLC
CONSTANTS d1, d2
FirstOrBoth == {{d1}, {d1, d2}}
==============================================================================
