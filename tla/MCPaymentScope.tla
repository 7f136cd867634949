--------------------------- MODULE MCPaymentScope ---------------------------
(* An instance of PaymentScope for TLC: a page and its payment page, and    *)
(* two frames, one of them within the other.                                *)
EXTENDS PaymentScope

CONSTANTS Cart, Pay, Benign, Other

Sites == {Cart, Pay}

Code == {Benign, Other}

Alike == Permutations(Sites) \cup Permutations(Code)

Nested == [f \in {"outer", "inner"} |-> IF f = "inner" THEN "outer" ELSE "main"]
=============================================================================
