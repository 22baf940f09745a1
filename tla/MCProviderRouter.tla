-------------------------- MODULE MCProviderRouter --------------------------
(* Values of the constants of ProviderRouter that a .cfg cannot write.       *)
EXTENDS ProviderRouter, Sequences

CONSTANTS gemini, groq

MCProvider == {gemini, groq}

MCPriority == [p \in MCProvider |-> IF p = gemini THEN 1 ELSE 2]
=============================================================================
