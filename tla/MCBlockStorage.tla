--------------------------- MODULE MCBlockStorage ---------------------------
(* Instances of BlockStorage: two cells, IDs enough for two resizes.  Two of   *)
(* the states share their name, two their properties.                          *)
EXTENDS BlockStorage

MCStates ==
  <<[name |-> "air", properties |-> <<>>],
    [name |-> "log", properties |-> <<<<0>>, <<1>>>>],
    [name |-> "log", properties |-> <<<<1>>, <<0>>>>],
    [name |-> "wood", properties |-> <<<<0>>, <<1>>>>],
    [name |-> "water", properties |-> <<<<0, 0, 0, 0>>>>]>>
=============================================================================
