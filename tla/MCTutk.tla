-------------------------------- MODULE MCTutk --------------------------------
(* Five frames of one to three packets: two video channels and one of audio.   *)
EXTENDS TutkMediaProps

MCFirst     == <<1, 3, 4, 7, 8, 10>>
MCChannelOf == <<"I", "A", "P", "I", "I">>
=============================================================================
