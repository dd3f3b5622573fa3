------------------------------- MODULE MCTty --------------------------------
(***************************************************************************)
(* An instance of Tty: a terminal that is switched between lines, with and *)
(* without flow control, and single characters, always with echo.          *)
(***************************************************************************)
EXTENDS Tty

SomeOptions == {{"LINE", "TANDEM", "ECHO"}, {"LINE", "ECHO"}, {"ECHO"}}
=============================================================================
