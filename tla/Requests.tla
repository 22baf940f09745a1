------------------------------ MODULE Requests ------------------------------
(***************************************************************************)
(* The requests that RateLimiter, Retrieval and TokenQuota take from one   *)
(* step to the next: where each stands, and what it carries.               *)
(***************************************************************************)
EXTENDS Naturals, Sequences, FiniteSets

CONSTANTS
  Request,
  MaxWindow  \* bound: minutes

VARIABLES
  req,     \* the requests
  window,  \* the minute
  raced    \* for the properties: requests that checked a quota while another did

At(r, l) == req[r].pc = l
MoveTo(r, l) == req' = [req EXCEPT ![r].pc = l]
=============================================================================
