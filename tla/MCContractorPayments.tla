------------------------ MODULE MCContractorPayments ------------------------
(* Instances of ContractorPayments for TLC. *)
EXTENDS ContractorPayments, TLC

(* Installers are interchangeable, and so are payment requests. *)
Symmetry == Permutations(Installers) \cup Permutations(Requests)
=============================================================================
