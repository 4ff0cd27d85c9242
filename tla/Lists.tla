--------------------------------- MODULE Lists ---------------------------------
(***************************************************************************)
(* Removal from a list, as a recursive function, which can be proved about.*)
(***************************************************************************)
EXTENDS Integers, Sequences

\* The list s without the elements of `gone`, the others in their order.
Without(s, gone) ==
    LET kept[i \in 0 .. Len(s)] ==
          IF i = 0 THEN <<>>
          ELSE IF s[i] \in gone THEN kept[i - 1]
          ELSE Append(kept[i - 1], s[i])
    IN kept[Len(s)]
===============================================================================
