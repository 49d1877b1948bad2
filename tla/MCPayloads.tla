----------------------------- MODULE MCPayloads -----------------------------
(***************************************************************************)
(* Bytes whose base64 is made of hex digits (0 0 0 is AAAA, 211 77 52 is   *)
(* 0000), of the two characters the alphabets differ in (251, 255), and    *)
(* neither; every string of up to three of them.  Texts of up to four      *)
(* characters over a hex digit, letters, both alphabets' extras, '=' and   *)
(* one character of no alphabet.                                           *)
(***************************************************************************)
EXTENDS Payloads

MCStrings(set, max) == UNION {[1 .. n -> set] : n \in 0 .. max}

MCByteStrings == MCStrings({0, 52, 77, 211, 251, 255}, 3)
MCTexts == MCStrings({0, 1, 16, 32, 52, Plus, Underscore, Equals, OtherChar}, 4)
MCVerifyStrings ==
    MCStrings({0, 255}, 2) \cup {<<0, 0, 0>>, <<211, 77, 52>>, <<251, 255, 255>>, <<77, 52>>, <<77>>}
MCSignatureBytes == {<<0, 0, 0>>, <<255, 251>>, <<52, 77, 211>>}
=============================================================================
