---------------------------- MODULE MCFileStream ----------------------------
(***************************************************************************)
(* Responses that create, patch, write one file twice, touch a protected   *)
(* file, hold a line that begins with the marker, and suggest packages     *)
(* between and after their blocks.                                         *)
(***************************************************************************)
EXTENDS FileStream

CONSTANTS a, b, c

MCTexts == {
  << <<"create", b>>, <<"text", 1>>, <<"blank", 0>>, <<"like", 1>>, <<"text", 2>>, <<"mark", 0>>,
     <<"install", 1>>, <<"patch", a>>, <<"text", 3>>, <<"mark", 0>> >>,
  << <<"text", 9>>, <<"patch", a>>, <<"text", 4>>, <<"mark", 0>>,
     <<"patch", a>>, <<"text", 5>>, <<"mark", 0>>, <<"blank", 0>>, <<"install", 2>> >>,
  << <<"create", b>>, <<"text", 6>>, <<"mark", 0>>, <<"patch", b>>, <<"text", 7>>, <<"mark", 0>>,
     <<"create", c>>, <<"mark", 0>> >>,
  << <<"create", b>>, <<"like", 2>>, <<"create", c>>, <<"text", 8>>, <<"mark", 0>> >> }
=============================================================================
