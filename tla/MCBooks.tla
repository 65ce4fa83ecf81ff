------------------------------ MODULE MCBooks ------------------------------
(* An instance of Books for TLC *)
EXTENDS Books

CONSTANTS wallet, broker, pension, spare, salary, food, other, rent, phone, gold, coin

FourAccounts    == {wallet, broker, pension, spare}
ThreeCategories == {salary, food, other}
TwoItems        == {gold, coin}

\* Any one field, and the pairs a change of type calls for
SomeNamings == {{f} : f \in Fields} \cup {{"type", f} : f \in {"from", "to", "cat"}}
=============================================================================
