----------------------------- MODULE MCInputPath -----------------------------
(***************************************************************************)
(* InputPath for TLC.                                                      *)
(***************************************************************************)
EXTENDS InputPath

\* The keys of the chord and the right Ctrl key, which shares the Windows scancode
\* of the left one but for its prefix.
SomeKeys == Chord \cup {228}

\* State constraint: three inputs are held at most (the chord), and while more
\* than one is held at most one event is on its way.
FewAtOnce ==
    /\ Cardinality(down) <= 3
    /\ Cardinality(down) > 1 => Len(channel) <= 1
    /\ Cardinality(down) = 3 => Chord \subseteq pressed
    /\ Cardinality(Inputs \ followed) <= 2
==============================================================================
