-------------------------------- MODULE IbMC --------------------------------
(* Instances of Ib.                                                        *)
EXTENDS Ib

\* An observation whose last block is full; one that ends with a short block before
\* its TRANSFER_SIZE; one of that kind without an OBS_OFFSET; and one of exactly
\* TRANSFER_SIZE bytes, on which the programs do not agree.
MCObs ==
    << [blocks |-> <<2, 2, 0>>, want |-> 0, offset |-> TRUE],
       [blocks |-> <<2, 1>>, want |-> 8, offset |-> TRUE],
       [blocks |-> <<2, 2, 1>>, want |-> 8, offset |-> FALSE],
       [blocks |-> <<2, 2>>, want |-> 4, offset |-> TRUE] >>
=============================================================================
