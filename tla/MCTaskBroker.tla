---------------------------- MODULE MCTaskBroker ----------------------------
(* Small instances of TaskBroker for TLC                                   *)
EXTENDS TaskBroker, TLC

OneOffer    == {1}
ThreeOffers == {1, 2, 3}

RequestSymmetry == Permutations(Requests)
=============================================================================
