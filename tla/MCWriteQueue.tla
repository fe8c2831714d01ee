---------------------------- MODULE MCWriteQueue ----------------------------
(***************************************************************************)
(* Instance of WriteQueue for TLC: two writes the Bridge accepts and one   *)
(* it cannot be sent, over two seconds.                                    *)
(***************************************************************************)
EXTENDS WriteQueue

CONSTANTS n1, n2, bad

MCNotes == {n1, n2, bad}
MCGood == {n1, n2}
Both == {"none", "valid"}
NoToken == {"none"}
AnyNetwork == {"offline", "online"}
Online == {"online"}
=============================================================================
