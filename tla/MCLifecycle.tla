------------------------------ MODULE MCLifecycle ------------------------------
(***************************************************************************)
(* Integers of five bits, a window in units of 4 and a ban in units of 6,  *)
(* and a handful of ways to set them.                                      *)
(***************************************************************************)
EXTENDS Lifecycle, TLC

MCKeys     == {"owner", "window", "ban", "days"}
MCRequired == {"owner"}
MCWindows  == {"window"}
MCUnit     == "owner" :> 1 @@ "window" :> 4 @@ "ban" :> 6 @@ "days" :> 1
MCDefault  == "owner" :> 1 @@ "window" :> 2 @@ "ban" :> 1 @@ "days" :> 1

Nowhere == [k \in MCKeys |-> Unset]
Line(k, v) == [key |-> k, value |-> v]

\* In the order: the defaults; a file whose second line counts; a variable over
\* a file; a blank variable over a file; windows that wrap to below and above
\* zero; a ban and a retention that wrap; no owner; junk; a malformed file.
MCGiven == {
    [env |-> [Nowhere EXCEPT !["owner"] = 3], file |-> <<>>],
    [env |-> Nowhere, file |-> <<Line("owner", 1), Line("window", 1), Line("window", 3)>>],
    [env |-> [Nowhere EXCEPT !["days"] = 3], file |-> <<Line("owner", 5), Line("days", 2)>>],
    [env |-> [Nowhere EXCEPT !["ban"] = Blank], file |-> <<Line("owner", 5), Line("ban", 2)>>],
    [env |-> [Nowhere EXCEPT !["window"] = 5, !["owner"] = 2], file |-> <<>>],
    [env |-> [Nowhere EXCEPT !["window"] = 9, !["owner"] = 2], file |-> <<>>],
    [env |-> [Nowhere EXCEPT !["ban"] = 4, !["days"] = 6, !["owner"] = 2], file |-> <<>>],
    [env |-> Nowhere, file |-> <<Line("ban", 2)>>],
    [env |-> [Nowhere EXCEPT !["owner"] = 2, !["window"] = Junk], file |-> <<>>],
    [env |-> [Nowhere EXCEPT !["owner"] = 2, !["window"] = -1], file |-> <<>>],
    [env |-> [Nowhere EXCEPT !["owner"] = 2], file |-> <<Line("days", 2), Malformed>>] }
================================================================================
