--------------------------- MODULE MCAdmission ---------------------------
(* Two sandboxes, the name of one being the name and generation of the    *)
(* other; three tickets under a cap of two.                               *)
EXTENDS Admission, TLC

MCCallers ==
    {[sandbox |-> << <<"a">> >>, generation |-> "1"],
     [sandbox |-> << <<"a">>, <<"1">> >>, generation |-> "1"]}

Symmetry ==
    Permutations(TicketNames) \cup Permutations(Grants) \cup Permutations(Processes \ Grants)
==========================================================================
