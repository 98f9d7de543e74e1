----------------------------- MODULE MCLineChat -----------------------------
(* A small instance of LineChat for TLC: lengths of two bits, payloads of up to two. *)
EXTENDS LineChat

Zero == <<0>>

\* A nickname, and one that is too long.
ShortAndLong == {Zero, <<1, 0, 1>>}

\* A text of the greatest length, one that is too long, and the commands, which have none.
ShortLines ==
  {Message(TEXT, <<1, 0>>), Message(TEXT, <<1, 0, 1>>), Message(PING, <<>>),
   Message(BYE, <<>>)}
=============================================================================
