----------------------------- MODULE MCMessages -----------------------------
(***************************************************************************)
(* A small instance of Messages for TLC: a plain message and messages that *)
(* differ from it in a field, by a zero byte, by the longest version or  *)
(* by a body that does or does not fit, and records of other producers.    *)
(***************************************************************************)
EXTENDS Messages

A == 65
B == 66

MCBodySize == 4
MCUserAgent == <<B>>

Plain == [key |-> <<A>>, command |-> <<A>>, version |-> 1, contentType |-> <<B>>,
          contents |-> <<A, B, A>>]

\* A version that setVersion() has not set is any number.
MCComposed ==
  {Plain,
   [Plain EXCEPT !.key = <<>>, !.contents = <<>>],
   [Plain EXCEPT !.key = <<A, Nul, B>>, !.command = <<Nul, A>>],
   [Plain EXCEPT !.version = -999, !.contents = <<A, Nul, B, B>>],
   [Plain EXCEPT !.version = 10000],
   [Plain EXCEPT !.contents = <<A, A, A, A>>],
   [Plain EXCEPT !.contents = <<A, Nul, A, A, A>>]}

Record(k, hs, b) == [key |-> k, headers |-> hs, body |-> b]
MCForeign ==
  {Record(NoText, <<>>, <<A>>),
   Record(<<A>>, <<>>, <<>>),
   Record(<<B>>, <<>>, NoText),
   Record(<<B>>, << <<"x-command", <<A>> >>, <<"x-trace", NoText>>,
                    <<"x-command", <<B, Nul, A>> >>, <<"x-command", NoText>> >>, <<B>>)}
=============================================================================
