---------------------------- MODULE MCHalEvents ----------------------------
(* Small instances of HalEvents for TLC. *)
EXTENDS HalEvents, TLC

\* Connections, publishers and, as long as no name is a prefix of another,
\* event names are interchangeable; used for safety runs only.
Symmetry ==
    Permutations(Conns) \union Permutations(Publishers)
      \union Permutations(Events)

\* Of the event names "a" and "ab" the first is a prefix of the second.
ShortIsPrefix == {<< "a", "ab" >>}
============================================================================
