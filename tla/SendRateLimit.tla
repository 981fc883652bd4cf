----------------------------- MODULE SendRateLimit -----------------------------
(***************************************************************************)
(* The fixed window of send-rate-limit.ts: a Redis counter that one Lua    *)
(* script increments, gives an expiry when it is new, and compares.        *)
(***************************************************************************)
EXTENDS Naturals

(* passed is history: the checks that were allowed since the window opened.  *)
Closed == [count |-> 0, expires |-> FALSE, passed |-> 0]

(* Wrong variant: the expiry is a second command that may be lost.           *)
ExpiryLost(w) == w.expires

(* PEXPIRE when INCR returned 1.                                             *)
Expires(w) == w.expires \/ w.count = 0
Allows(w, limit) == w.count + 1 <= limit

(* The script and the comparison of its result.  A count above the limit is  *)
(* refused like the one that reaches it: the counter stays at the limit.     *)
Counted(w, limit) ==
  [count |-> IF w.count < limit THEN w.count + 1 ELSE w.count,
   expires |-> Expires(w),
   passed |-> IF Allows(w, limit) THEN w.passed + 1 ELSE w.passed]
=============================================================================
