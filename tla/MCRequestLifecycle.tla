------------------------- MODULE MCRequestLifecycle -------------------------
(***************************************************************************)
(* Small instances of RequestLifecycle.                                    *)
(***************************************************************************)
EXTENDS RequestLifecycle

CONSTANTS r1, r2

Together(k1, k2) == [r \in Requests |-> IF r = r1 THEN k1 ELSE k2]

\* Two pass-throughs at once; a native stream beside a page of the dashboard; and two
\* requests that are counted but never streamed, beside one that is not counted.
MCMixes == {Together("raw", "raw"), Together("native", "public"),
            Together("invoke", "listing"), Together("other", "listing")}

\* For the gauges: a native stream alone is enough.
StreamMixes == {Together("native", "public")}
=============================================================================
