-------------------------------- MODULE Slots --------------------------------
(***************************************************************************)
(* The commands in a sequence of slots, some of which are empty.           *)
(***************************************************************************)
EXTENDS Integers, Sequences

\* The commands in the first n slots, in their order: a recursive function, where
\* SelectSeq would do, because the provers have to expand it.
CommandsIn(slots, empty, n) ==
  LET among[k \in 0..n] ==
        IF k = 0 THEN << >>
        ELSE IF slots[k] = empty THEN among[k - 1] ELSE Append(among[k - 1], slots[k])
  IN  among[n]
=============================================================================
