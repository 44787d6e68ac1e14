---------------------------- MODULE MCInputBuffer ----------------------------
(***************************************************************************)
(* InputBuffer with a buffer of a few bytes and every input that fits.     *)
(***************************************************************************)
EXTENDS InputBuffer

CONSTANTS a, b

MCLetter == {a, b}

MCBurst == UNION {[1 .. n -> MCLetter \cup {NL}] : n \in 0 .. USERBUF_SIZE}

=============================================================================
