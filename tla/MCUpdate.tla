------------------------------- MODULE MCUpdate -------------------------------
(***************************************************************************)
(* Model-checking instance of Update: up to three records over two dates,  *)
(* and SET values that are a DATES value, a CHARS literal casting to the   *)
(* other date, and a CHARS literal naming a day that does not exist.       *)
(***************************************************************************)
EXTENDS Update

D1 == [tag |-> "DATES", v |-> 20240101]
D2 == [tag |-> "DATES", v |-> 20240229]

\* "2024-2-29" and "2023-2-29"
Feb29Text == [tag |-> "CHARS", v |-> <<50, 48, 50, 52, 45, 50, 45, 50, 57>>]
BadText   == [tag |-> "CHARS", v |-> <<50, 48, 50, 51, 45, 50, 45, 50, 57>>]

MCKeyDomain == {D1, D2}
MCValueDomain == {D1, Feb29Text, BadText}
=============================================================================
