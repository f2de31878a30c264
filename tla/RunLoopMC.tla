------------------------------ MODULE RunLoopMC ------------------------------
(* Instances of RunLoop for TLC.                                           *)
EXTENDS RunLoop

\* A delay whose sum with any time of the clock is past its end.
Huge == 1000

RunCall == {"run"}

NoTimeout == {0}
ShortTimeouts == {0, 1}
ShortIntervals == {0, 1}
HugeIntervals == {0, 1, Huge}

=============================================================================
