----------------------------- MODULE MCAiCredits -----------------------------
(* The credits with a rate table whose second tier is cheaper by more than  *)
(* the screen that reaches it: two screens are billed less than one.        *)
EXTENDS AiCredits

RateTable == {[min |-> 1, rate |-> 3], [min |-> 2, rate |-> 1]}
==============================================================================
