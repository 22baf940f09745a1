----------------------------- MODULE MCWebClient -----------------------------
(* The calls, documents, providers and processes for WebClient.             *)
EXTENDS WebClient

CONSTANTS o1, o2, d1, d2, gemini, groq, s1, s2
=============================================================================
