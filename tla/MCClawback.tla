----------------------------- MODULE MCClawback -----------------------------
(***************************************************************************)
(* Values of the constants for the run of the console and the trees.        *)
(* Parties 1 and 2, the intents' key 3; tokens 7 and 8.                     *)
(***************************************************************************)
EXTENDS ClawbackProperties

TwoAssets == {<<7>>, <<8>>}
\* None; two that one owner can transfer; one each of a party and of a sanctioned one.
Three == { << >>, <<NoteOf(7, 1, 1, 9), NoteOf(7, 1, 1, 7)>>,
           <<NoteOf(7, 2, 2, 7), NoteOf(7, 1, 3, 10)>> }
TwoEnrolled == <<1, 2>>
OneSanctioned == <<3>>
OneRegistered == << [sac |-> 7, decimals |-> 7, limit |-> 2] >>
OneSplit == <<1>>
OneDeposit == { [asset |-> <<7>>, value |-> 1, owner |-> 2] }
=============================================================================
