----------------------------- MODULE RateLimit -----------------------------
(***************************************************************************)
(* The fixed-window rate limit (core/middleware/rate_limit.py) on one      *)
(* counter, the key of one caller and path.  Each call of the Django cache *)
(* is a step; its incr is two, EXISTS and INCR, and INCR creates a counter *)
(* without a TTL when there is none.                                       *)
(***************************************************************************)
EXTENDS Naturals

CONSTANTS
    Requests,
    Rate       \* the count of "count/period"

ASSUME RateLimitAssumption == Rate \in Nat

VARIABLES
    count,     \* the counter, 0 when its key does not exist
    forever,   \* whether it has no TTL
    limited,   \* whether APP_RATE_LIMIT["ENABLED"] is set and neither view nor path opts out
    ratePc,    \* where each request is in this module's code
    admitted,  \* history: requests admitted since the counter was 1 for the first time
    overwritten  \* history: a repair has set a counter that others had begun

rateVars == <<count, forever, limited, ratePc, admitted, overwritten>>

RateTypeOK ==
    /\ count \in Nat /\ admitted \in Nat
    /\ {forever, limited, overwritten} \subseteq BOOLEAN
    /\ ratePc \in [Requests -> {"new", "exists", "incr", "repair", "admitted", "limited"}]

RateInit ==
    /\ count = 0 /\ forever = FALSE /\ admitted = 0 /\ overwritten = FALSE
    /\ limited \in BOOLEAN
    /\ ratePc = [r \in Requests |-> "new"]

RateGoto(r, from, to) == ratePc[r] = from /\ ratePc' = [ratePc EXCEPT ![r] = to]

\* The counter starts at 1, with a window unless INCR made it.
StartWindow(byIncr) ==
    /\ count' = 1 /\ forever' = byIncr
    /\ admitted' = 1 /\ overwritten' = FALSE

\* Disabled, or the view or the path is opted out.
RateSkip(r) ==
    /\ ~limited
    /\ RateGoto(r, "new", "admitted")
    /\ UNCHANGED <<count, forever, admitted, overwritten>>

\* cache.add stores the first request of a window, whatever the rate.
RateAdd(r) ==
    /\ limited
    /\ \/ count = 0 /\ StartWindow(FALSE) /\ RateGoto(r, "new", "admitted")
       \/ /\ count > 0 /\ RateGoto(r, "new", "exists")
          /\ UNCHANGED <<count, forever, admitted, overwritten>>

\* cache.incr raises a ValueError when the key has expired since the add.
RateExists(r) ==
    /\ RateGoto(r, "exists", IF count = 0 THEN "repair" ELSE "incr")
    /\ UNCHANGED <<count, forever, admitted, overwritten>>

OverStrict(n) == n >= Rate
Over(n)       == n > Rate

RateIncr(r) ==
    /\ RateGoto(r, "incr", IF Over(count + 1) THEN "limited" ELSE "admitted")
    /\ IF count = 0
       THEN /\ count' = 1 /\ forever' = TRUE /\ overwritten' = FALSE
            /\ admitted' = IF Over(1) THEN 0 ELSE 1
       ELSE /\ count' = count + 1
            /\ admitted' = IF Over(count + 1) THEN admitted ELSE admitted + 1
            /\ UNCHANGED <<forever, overwritten>>

\* cache.set of 1, over whatever others have counted since.
RateRepair(r) ==
    /\ RateGoto(r, "repair", "admitted")
    /\ IF count = 0
       THEN StartWindow(FALSE)
       ELSE count' = 1 /\ forever' = FALSE /\ admitted' = admitted + 1 /\ overwritten' = TRUE

\* The window ends; a counter without a TTL never does.
WindowEnds ==
    /\ count > 0 /\ ~forever
    /\ count' = 0 /\ admitted' = 0 /\ overwritten' = FALSE
    /\ UNCHANGED <<forever, limited, ratePc>>

RateStep(r) ==
    /\ RateSkip(r) \/ RateAdd(r) \/ RateExists(r) \/ RateIncr(r) \/ RateRepair(r)
    /\ UNCHANGED limited

RateNext == (\E r \in Requests : RateStep(r)) \/ WindowEnds

RateSpec == RateInit /\ [][RateNext]_rateVars

-----------------------------------------------------------------------------
(* Properties *)

\* What the counter says of the window: it never lags behind the requests it
\* admitted, and no window admits more than its rate (its first request always),
\* unless a repair overwrote the count (rate_limit.py:170-178).
WindowKept ==
    count > 0 /\ ~overwritten =>
        /\ admitted <= count
        /\ admitted <= Rate \/ admitted = 1
        /\ count <= Rate => admitted = count

=============================================================================
