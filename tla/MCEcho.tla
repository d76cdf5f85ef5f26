-------------------------------- MODULE MCEcho --------------------------------
(* Messages that are empty, fill the buffer or are longer, and addresses of one
   or two families of which some, all or none lead to the server. *)
EXTENDS Echo

CONSTANTS c1, c2

MCMessages == {<< >>, <<1, 2>>, <<3, 4, 5>>}

A(family, up) == [family |-> family, up |-> up]
MCAddressLists == { <<A(6, TRUE)>>, <<A(6, FALSE), A(6, TRUE)>>,
                    <<A(6, FALSE), A(4, TRUE)>> }
=============================================================================
