----------------------------- MODULE MCGfServer ------------------------------
(* Requests of a few clients. *)
EXTENDS GfServer

CONSTANTS c1, c2

Get(path) == <<Scheme, Slash>> \o path \o Delimiter

(* Good ones with a short and a longer path, an unknown scheme, a path
   without its slash, no path, a delimiter that is not quite there, a request
   that does not fit the buffer, one that is too short for the scheme, and two
   with more behind the delimiter. *)
MCRequests == { Get(<<301>>), Get(<<301, 302>>),
                <<OtherScheme, Slash, 301>> \o Delimiter,
                <<Scheme, 301>> \o Delimiter, <<Scheme>> \o Delimiter,
                <<Scheme, Slash, 301, CR, LF, CR, CR, LF>>,
                Get([i \in 1..5 |-> 301]),
                Delimiter,
                Get(<<301>>) \o <<302>>, Get(<< >>) \o Delimiter }

FewRequests == { Get(<<301>>), <<Scheme, 301>> \o Delimiter,
                 <<Scheme, Slash, 301, CR, LF>> }
=============================================================================
