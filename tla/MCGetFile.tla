------------------------------ MODULE MCGetFile -------------------------------
(* Workloads of a file of two bytes, a file that the server does not have and a
   path without its slash. *)
EXTENDS GetFile, TLC

there == <<S!Slash, 301>>
long == <<S!Slash, 302>>
missing == <<S!Slash, 303>>
malformed == <<304, 304>>

MCContent == (there :> <<1, 2>>) @@ (long :> <<3>>)

MCWorkloads == {<< >>, <<there>>, <<there, missing>>, <<malformed, there>>, <<long>>}
MCLongPaths == {long}
=============================================================================
