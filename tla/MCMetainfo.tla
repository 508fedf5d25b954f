----------------------------- MODULE MCMetainfo -----------------------------
(***************************************************************************)
(* Path components for model checking Metainfo.                            *)
(***************************************************************************)
EXTENDS Metainfo

\* All of up to two characters over four that matter, and three more: one in
\* upper case, one that sorts before a separator, and one with a device's name.
MCComponents ==
    BoundedSeq({NUL, Dot, Slash, LowerA}, 2)
        \cup {<<UpperA>>, <<LowerA, Bang>>, <<UpperA, UpperA, Dot, LowerA>>}

MCFileLengths == {-1, 0, 3, MaxInt64}

MCDevices == {<<LowerA, LowerA>>}

=============================================================================
