----------------------------- MODULE MCInflate ------------------------------
(* A small instance of Inflate for TLC. *)
EXTENDS Inflate

\* No piece; one that does not fit; an empty one; ones that just fit, fill the
\* array and overflow it.
MCFiles ==
    {<<>>,
     <<<<"a">>, <<"b">>, <<"c">>>>,
     <<<<>>, <<"a", "b", "c">>, <<"a", "a">>, <<"b", "c">>>>}
MCCurlTimeouts == {-1, 0, 999, 1000, 1999, 2000}

\* Up to two entries of up to two blocks, empty blocks and entries among them.
Blocks == {<<>>, <<"a">>, <<"b", "c">>}
Entries == {<<>>, <<<<"a">>>>} \cup {<<x, y>> : x \in Blocks \ {<<"a">>}, y \in Blocks}
MCArchives == {<<>>} \cup {<<x>> : x \in Entries} \cup {<<x, y>> : x, y \in Entries}
=============================================================================
