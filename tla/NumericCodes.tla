----------------------------- MODULE NumericCodes -----------------------------
(***************************************************************************)
(* The check digit of a reseller's numeric codes, and a customer who types *)
(* such a code from the slip.  Both codes are followed digit by digit, each *)
(* by the interim digit of Damm's algorithm, so that the states are few    *)
(* and stand for codes of every length.                                    *)
(***************************************************************************)
EXTENDS Naturals

VARIABLES printed,  \* interim digit of the code on the slip, so far
          typed,    \* and of what has been typed
          slip      \* a digit was mistaken, or two neighbours swapped

vars == <<printed, typed, slip>>

Digits == 0..9

\* _DAMM: row by interim digit, column by digit.
DAMM == <<<<0, 3, 1, 7, 5, 9, 8, 6, 4, 2>>, <<7, 0, 9, 2, 1, 5, 4, 8, 6, 3>>,
          <<4, 2, 0, 6, 8, 7, 1, 3, 5, 9>>, <<1, 7, 5, 0, 9, 8, 3, 4, 2, 6>>,
          <<6, 1, 2, 3, 0, 4, 5, 9, 7, 8>>, <<3, 6, 7, 4, 2, 0, 9, 5, 8, 1>>,
          <<5, 8, 6, 9, 7, 2, 0, 1, 3, 4>>, <<8, 9, 4, 5, 3, 6, 2, 0, 1, 7>>,
          <<9, 4, 3, 8, 6, 1, 7, 2, 0, 5>>, <<2, 5, 8, 1, 4, 3, 6, 7, 9, 0>>>>

damm_exchanged(interim, digit) == DAMM[digit + 1][interim + 1]   \* mutant: column by row
damm_interim(interim, digit) == DAMM[interim + 1][digit + 1]

damm_check_digit(interim) == interim
damm_valid(interim) == interim = 0

Init == printed = 0 /\ typed = 0 /\ slip = FALSE

typed_right(d) ==
  /\ printed' = damm_interim(printed, d)
  /\ typed' = damm_interim(typed, d)
  /\ UNCHANGED slip

typed_wrong(d, e) ==
  /\ ~slip /\ d # e /\ slip' = TRUE
  /\ printed' = damm_interim(printed, d)
  /\ typed' = damm_interim(typed, e)

typed_swapped(d, e) ==
  /\ ~slip /\ d # e /\ slip' = TRUE
  /\ printed' = damm_interim(damm_interim(printed, d), e)
  /\ typed' = damm_interim(damm_interim(typed, e), d)

Next ==
  \/ \E d \in Digits : typed_right(d)
  \/ \E d, e \in Digits : typed_wrong(d, e) \/ typed_swapped(d, e)

Spec == Init /\ [][Next]_vars

\* A code that ends in its check digit is accepted, and with one digit
\* mistaken or two neighbours swapped, the check digit among them, refused:
\* the slip is told from a wrong code before it counts against the customer
\* (the comment above _DAMM, and the one at CHECK_DIGITS_DETAIL).
SlipsAreRefused ==
  /\ damm_valid(damm_interim(printed, damm_check_digit(printed)))
  /\ slip /\ damm_valid(printed) => ~damm_valid(typed)
===============================================================================
