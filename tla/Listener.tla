------------------------------- MODULE Listener -------------------------------
(***************************************************************************)
(* How echo/echoserver.c makes its listening socket; transferserver.c has  *)
(* the same calls in the same order.  Every call may fail.  A failure      *)
(* gives back what is held by then and ends the program.                   *)
(***************************************************************************)
VARIABLES
  step,   \* the next call, then "listening" or "exited"
  res,    \* the list of addresses: "none", "held" or "freed"
  lfd     \* the socket: "none", "open" or "closed"

Init == step = "getaddrinfo" /\ res = "none" /\ lfd = "none"

FindAddress == /\ step = "getaddrinfo"
               /\ \/ step' = "socket" /\ res' = "held"
                  \/ step' = "exited" /\ UNCHANGED res
               /\ UNCHANGED lfd

CreateSocket == /\ step = "socket"
                /\ \/ step' = "setsockopt" /\ lfd' = "open" /\ UNCHANGED res
                   \/ step' = "exited" /\ res' = "freed" /\ UNCHANGED lfd

SetOption == /\ step = "setsockopt"
             /\ \/ step' = "bind" /\ UNCHANGED <<res, lfd>>
                \/ step' = "exited" /\ res' = "freed" /\ lfd' = "closed"

(* The addresses are freed before the result of bind is looked at. *)
Bind == /\ step = "bind"
        /\ res' = "freed"
        /\ \/ step' = "listen" /\ UNCHANGED lfd
           \/ step' = "exited" /\ lfd' = "closed"

Listen == /\ step = "listen"
          /\ \/ step' = "listening" /\ UNCHANGED lfd
             \/ step' = "exited" /\ lfd' = "closed"
          /\ UNCHANGED res

Next == FindAddress \/ CreateSocket \/ SetOption \/ Bind \/ Listen
=============================================================================
