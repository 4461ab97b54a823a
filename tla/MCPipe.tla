------------------------------- MODULE MCPipe -------------------------------
(* An instance of Pipe for TLC: calls longer than the pipe, and counters that *)
(* wrap after two rounds of it.                                              *)
EXTENDS Pipe

Strings == {<<0, 1, 1>>, <<1>>}
=============================================================================
