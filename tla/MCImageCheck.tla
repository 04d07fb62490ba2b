---------------------------- MODULE MCImageCheck ----------------------------
(* Eleven addresses: slots of three bytes and more, a header of two, and    *)
(* payloads of up to four bytes read two at a time.                         *)
EXTENDS ImageCheck

SmallAndWhole == {7, Word - 1}
=============================================================================
