------------------------------- MODULE MCPipe -------------------------------
(* Two readers and two writers.  *)
EXTENDS Pipe

CONSTANTS a, b

\* A piece of a line, a line, and two lines in one string, as printf %b writes them.
Strings == {<<a>>, <<a, NewLine>>, <<NewLine, NewLine>>}
\* What write_line ends with a newline of its own: a word, and one that has a newline.
Body == {<<b>>, <<NewLine>>}
Characters == {a, b, NewLine}
=============================================================================
