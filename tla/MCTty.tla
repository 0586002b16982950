------------------------------- MODULE MCTty -------------------------------
(* Terminals with small buffers.  Cooked is what reset_termios sets, raw   *)
(* what kilo installs; swapped is canonical with both translations, so that*)
(* a carriage return is an ordinary byte of a line there and a newline in  *)
(* cooked mode.                                                            *)
EXTENDS Tty

cooked == {"ICRNL", "ONLCR", "ICANON", "ECHO"}
raw == {"ONLCR"}
swapped == {"ICANON", "ICRNL", "INLCR", "ECHONL"}

MixedSettings == {cooked, raw, swapped}
=============================================================================
