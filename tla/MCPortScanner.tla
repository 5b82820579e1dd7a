--------------------------- MODULE MCPortScanner ----------------------------
(* Addresses of three octets of one bit; from 1.0.0 on they are negative as  *)
(* ints.  Ranges over the end of an octet on each side of the sign, one that *)
(* runs backwards, and those over the sign, forwards and backwards.          *)
EXTENDS PortScanner
MCRanges == {<< <<0, 0, 1>>, <<0, 1, 0>> >>, << <<1, 0, 1>>, <<1, 1, 0>> >>, << <<0, 1, 0>>, <<0, 0, 1>> >>,
             << <<0, 1, 0>>, <<1, 0, 1>> >>, << <<1, 1, 1>>, <<0, 0, 0>> >>}
MCPortTexts == {<<80, 443, 80>>, <<>>}
=============================================================================
