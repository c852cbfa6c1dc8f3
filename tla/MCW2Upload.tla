------------------------------ MODULE MCW2Upload ------------------------------
(* Instances of W2Upload: an image of two or three words, in chunks of two.   *)
EXTENDS W2Upload

MCTokens ==
    ({"key"} \X {"newline", "a", "w"}) \cup ({"num", "part"} \X Nat)

MCFlash   == {Cell(i) : i \in 1..Len(Image)}
MCImage2  == <<7, 13>>
MCImage3  == <<7, 13, 9>>
MCFlushed == {<<>>}
MCStale   == {<<>>, <<TRUE>>}

MCFaultless     == {{}}
MCFailing       == {{"error"}}
MCStaleOrFaulty == {{"stale"}, {"error"}, {"short"}}
===============================================================================
