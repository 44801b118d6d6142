----------------------------- MODULE MCRateLimit -----------------------------
(* Model values for RateLimit.  With the first configuration the hourly limit *)
(* is the tighter one, with the second the bucket, which gets half a token    *)
(* per tick.                                                                  *)
EXTENDS RateLimit, TLC

MCConfigs ==
  {[rate |-> 2, rph |-> 3, burst |-> 3, enabled |-> TRUE],
   [rate |-> 1, rph |-> 0, burst |-> 2, enabled |-> TRUE]}
MCSkews == {-1, 2}
=============================================================================
