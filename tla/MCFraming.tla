------------------------------- MODULE MCFraming -------------------------------
(***************************************************************************)
(* Instances of Framing for TLC.                                           *)
(***************************************************************************)
EXTENDS Framing, SequencesExt

CONSTANTS a, b, MaxLines

Line(m) == m \o <<CR, LF>>

\* Lines of none to three bytes, one with a line feed and one with a NUL of its own.
SomeLines ==
  {Line(m) : m \in {<<>>, <<a>>, <<a, b>>, <<a, LF>>, <<a, NUL>>, <<a, b, b>>}}

\* Up to MaxLines lines, the last of which may lack its delimiter or a part of it.
SomeStreams ==
  LET Whole == {FlattenSeq(t) : t \in UNION {[1..n -> SomeLines] : n \in 0..MaxLines}} IN
  Whole \cup {SubSeq(s, 1, Len(s) - 1) : s \in Whole \ {<<>>}}

\* A fresh buffer holds an empty string, a word, or a whole line, and garbage; or no
\* string, with a delimiter or without.
SomeBuffs ==
  {Copied([i \in Indices |-> b], 0, s) :
     s \in {<<NUL>>, <<b, NUL>>, <<b, CR, LF, NUL>>, <<b, CR, LF>>, <<>>}}
==============================================================================
