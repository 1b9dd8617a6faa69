------------------------------- MODULE FanBoards -------------------------------
(***************************************************************************)
(* The fan sensors of a board, as the Andigilog plug-in has them from its  *)
(* property list, and how SetPwmMode finds the fan of a bit.               *)
(*                                                                         *)
(* A board is the sequence of sensors from start_fan to the last: for each *)
(* the PWM that drives it, NoPwm, or NoKey for one that has no key.  A     *)
(* place is Measures[start_fan + place].                                   *)
(***************************************************************************)
EXTENDS Integers, Sequences, FiniteSets

NoPwm == -1
NoKey == -2

Places(board) == 0 .. Len(board) - 1
Keyed(board)  == {place \in Places(board) : board[place + 1] # NoKey}

\* The sensors with keys are fans, numbered in their order as the bits in FS!.
FanAt(board, place) == Cardinality({k \in Keyed(board) : k < place})
FansOf(board)       == {FanAt(board, place) : place \in Keyed(board)}
PwmOn(board, fan)   == board[(CHOOSE place \in Keyed(board) : FanAt(board, place) = fan) + 1]

(***************************************************************************)
(* SetPwmMode walks over bits and places together, but looks for the next  *)
(* place with a key only at a bit that differs.  Past the last of them is  *)
(* the place after the sensors.                                            *)
(***************************************************************************)
NextKeyed(board, place) ==
    CHOOSE k \in Keyed(board) \cup {Len(board)} :
        k >= place /\ \A l \in Keyed(board) : l >= place => l >= k
Stop(board, place, isDifferent) == IF isDifferent THEN NextKeyed(board, place) ELSE place

\* Where it stops at each of the bits that differ.
Walk(board, bits, differ) ==
    LET at[bit \in 0 .. bits - 1] ==
            IF bit = 0 THEN 0 ELSE Stop(board, at[bit - 1], bit - 1 \in differ) + 1
    IN  [bit \in differ |-> Stop(board, at[bit], TRUE)]

(***************************************************************************)
(* The walk finds the fan of every bit, whichever bits differ.  It does so *)
(* on just the boards where no sensor without a key lies before a fan that *)
(* has another fan after it: those of the property lists are such.         *)
(***************************************************************************)
NoGaps(board) ==
    \A k, l, m \in 1 .. Len(board) :
        k < l /\ l < m /\ board[l] # NoKey /\ board[m] # NoKey => board[k] # NoKey
WalkFinds(board) ==
    \A differ \in SUBSET FansOf(board) : \A fan \in differ :
        LET place == Walk(board, Cardinality(FansOf(board)) + 1, differ)[fan]
        IN  place \in Keyed(board) /\ FanAt(board, place) = fan
=============================================================================
