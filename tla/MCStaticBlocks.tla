--------------------------- MODULE MCStaticBlocks ---------------------------
(***************************************************************************)
(* A small instance of StaticBlocks for TLC: host, two guests and up to    *)
(* three slots fit, more guests with fewer slots, and the stream may end   *)
(* in every field.  The ids are those of two persons, which may coincide,  *)
(* and one with three digits.  Memory may fail at any allocation.  The     *)
(* option strings are: none; one shorter than the options; one that        *)
(* decodes to the options alone, so that what follows is not written; and  *)
(* one with a path of one character and no creator, as games write it.     *)
(***************************************************************************)
EXTENDS StaticBlocks

MCIds    == { 1, 2, 100 }
MCBuilds == { 4531, 6059 }

\* Keys 1 and 171: all characters stored plus one, and every second of them.
MCEcdStrs ==
    { <<>>,
      <<1, 1, 1, 1, 1>>,
      <<171, 5, 1, 7, 1, 9, 1, 3,  1, 1, 1, 1, 1, 1, 1>>,
      <<171, 5, 1, 7, 1, 9, 1, 3,  129, 1, 1, 1, 1, 1, 1, 97,  1, 1>> }
=============================================================================
