------------------------------ MODULE Selection ------------------------------
(***************************************************************************)
(* A sequence without some of its values: the rows a DELETE leaves in a    *)
(* queue, the callers who still wait for a lock when one gives up, the     *)
(* requests that are still inside a window.                                *)
(***************************************************************************)
EXTENDS Naturals, Sequences

Without(s, D) ==
    LET F[i \in 0..Len(s)] ==
            IF i = 0 THEN <<>>
            ELSE IF s[i] \in D THEN F[i - 1] ELSE Append(F[i - 1], s[i])
    IN  F[Len(s)]
=============================================================================
