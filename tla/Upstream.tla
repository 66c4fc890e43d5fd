------------------------------ MODULE Upstream ------------------------------
(***************************************************************************)
(* Client.post: one request to LinkedIn and what its answer means, in the  *)
(* order of the switch.  An answer is an HTTP status, or one of two ways   *)
(* the exchange fails without a usable status.                             *)
(***************************************************************************)
EXTENDS Integers

NoResponse == 0     \* http.Do failed: refused, timed out, context done
BadBody    == 1     \* the status was fine, reading the body failed

\* The codes of the domain errors, and "ok".
Codes == {"ok", "session_expired", "upstream_rate_limited",
          "profile_not_found", "upstream_error"}

Code(status) ==
    CASE status \in {401, 403}   -> "session_expired"
      [] status = 429            -> "upstream_rate_limited"
      [] status = 404            -> "profile_not_found"
      [] status \in 300 .. 399   -> "session_expired"
      [] status >= 400           -> "upstream_error"
      [] status \in {NoResponse, BadBody} -> "upstream_error"
      [] OTHER                   -> "ok"
=============================================================================
