-------------------------- MODULE MCOnlineCompiler --------------------------
(* Circuits on few atoms and pairs.  The groups of one CZ layer lie in     *)
(* several dependency layers, gates are deferred for want of a pair, and   *)
(* atoms wait for gates in the next CZ layer and beyond it.                *)
EXTENDS OnlineCompiler

\* Three atoms in a ring, with a one-qubit gate; three gates for two pairs,
\* then everybody with somebody else; the same with atoms that wait longer.
Ring == << <<0, 1>>, <<1, 2>>, <<0>>, <<2, 0>>, <<0, 1>> >>
Crowd == << <<0, 1>>, <<2, 3>>, <<4, 5>>, <<1, 2>>, <<5, 0>>, <<3, 4>> >>
Longer == << <<0, 1>>, <<2, 3>>, <<4, 5>>, <<4, 2>>, <<2, 1>>, <<5, 0>> >>
Waiting == << <<0, 1>>, <<2, 3>>, <<1, 2>>, <<2, 3>>, <<3, 0>> >>

\* A gate of a CZ layer that comes dependency layers after the others of it,
\* twice: between the halves of a pair's two gates, and after an atom was
\* kept for the next layer.
Split == << <<0, 1>>, <<2, 3>>, <<2, 3>>, <<0>>, <<0, 1>> >>
Late == << <<0, 1>>, <<1, 2>>, <<3>>, <<3>>, <<3, 4>>, <<1>>, <<1, 2>> >>

\* And every circuit of three gates of these, repetitions included.
Short == [1..3 -> {<<0, 1>>, <<2, 1>>, <<0, 2>>, <<2, 3>>, <<3, 0>>, <<0>>, <<1>>}]

MCCircuits == {<<>>, Ring, Crowd, Longer, Waiting, Split, Late} \cup Short
=============================================================================
