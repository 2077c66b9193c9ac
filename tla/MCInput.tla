------------------------------- MODULE MCInput -------------------------------
(* Six devices, each with the keys and parts that set it apart, and one of   *)
(* them in simple mode.                                                      *)
EXTENDS Input

AllDevices == {rg35xxplus_input, m17_input, simple_mode, my282_input, rgb30_input,
               magicmini_input, sdl_input}
=============================================================================
