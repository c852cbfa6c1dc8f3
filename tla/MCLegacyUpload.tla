---------------------------- MODULE MCLegacyUpload ----------------------------
(* Instances of LegacyUpload.  As with 16 and 256 bytes, the small burst is    *)
(* shorter than the bytes that call for a large one, and one word is too short *)
(* for a small one: 31 words go out as six small bursts and a word on the Mac, *)
(* as a large burst, a small one and a word on Windows.                        *)
EXTENDS LegacyUpload

MCMac      == [unlocks |-> TRUE,  checks |-> TRUE,  bursts |-> {5}]
MCWindows  == [unlocks |-> FALSE, checks |-> FALSE, bursts |-> {5, 25}]
MCPrograms == {MCMac, MCWindows}
MCFlash    == {Cell(i) : i \in 1..(Len(Image) + 5)}
MCImage3   == <<21, 22, 23>>
MCImage31  == [i \in 1..31 |-> 20 + i]
===============================================================================
