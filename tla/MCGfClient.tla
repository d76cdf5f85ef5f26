----------------------------- MODULE MCGfClient ------------------------------
(* Responses of a small peer. *)
EXTENDS GfClient

Digit(n) == 48 + n
Body(n) == [i \in 1..n |-> 300 + i]
Header(words) == <<GETFILE>> \o words \o Delimiter

(* A file of two bytes, one of two digits' length, an empty one, one without a
   length, more bytes than announced and a body that looks like the end of a
   header. *)
Files == { Header(<<Word.OK, Digit(2)>>) \o Body(2),
           Header(<<Word.OK, Digit(1), Digit(0)>>) \o Body(10),
           Header(<<Word.OK, Digit(0)>>), Header(<<Word.OK>>) \o Body(1),
           Header(<<Word.OK, Digit(1)>>) \o Body(3),
           Header(<<Word.OK, Digit(4)>>) \o Delimiter }

Refusals == { Header(<<Word.FILE_NOT_FOUND>>), Header(<<Word.ERROR>>) }

(* Another protocol, no status, an unknown one, a length that is none, a
   delimiter that is not quite there and a header that is too long. *)
Malformed == { <<Unknown, Word.OK, Digit(0)>> \o Delimiter,
               Header(<< >>), Header(<<Unknown>>),
               Header(<<Word.OK, Digit(1), 47, Digit(2)>>) \o Body(1),
               Header(<<Word.OK, Digit(1), 58>>) \o Body(1),
               <<GETFILE, Word.OK, Digit(1), CR, LF, CR, CR, LF, CR, LF>> \o Body(1),
               <<GETFILE, Word.OK>> \o [i \in 1..9 |-> Digit(0)] \o Delimiter }

MCResponses == Files \cup Refusals \cup Malformed
=============================================================================
