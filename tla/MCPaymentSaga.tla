----------------------------- MODULE MCPaymentSaga -----------------------------
(* PaymentSaga for TLC: payments and requests are interchangeable. *)
EXTENDS PaymentSaga, TLC

(* Requests that exclude each other reach less, so more of them are sent.       *)
Requests == [o \in BOOLEAN |-> IF o THEN 5 ELSE 6]
MCVersions == [o \in BOOLEAN |-> IF o THEN 3 ELSE 4]
FewRequests == [o \in BOOLEAN |-> 4]
FewVersions == [o \in BOOLEAN |-> 2]
FiveRequests == [o \in BOOLEAN |-> 5]
ThreeVersions == [o \in BOOLEAN |-> 3]

Symmetry == Permutations(Payment) \cup Permutations(Handler)
=============================================================================
