------------------------------ MODULE Payloads ------------------------------
(***************************************************************************)
(* How bytes travel as text (http/handlers.rs): a client encodes payload   *)
(* and signature, the HTTP endpoints guess the encoding (decode_payload),  *)
(* the gRPC endpoints take bytes as they are, and a signature comes back   *)
(* in hex.  A character is its index in the base64 alphabet (A-Z, a-z,     *)
(* 0-9, +, /), with four more values for what is not in it.  The base64    *)
(* and hex crates are external: their engines STANDARD and URL_SAFE_NO_PAD *)
(* refuse wrong padding and non-zero trailing bits.                        *)
(*                                                                         *)
(* A client has a payload signed in one form and verified in another.      *)
(***************************************************************************)
EXTENDS Integers, Sequences, SequencesExt

CONSTANTS
    ByteStrings,     \* payloads clients have signed
    Texts,           \* texts sent as payload that no encoder made
    VerifyStrings,   \* those of ByteStrings that are verified too
    SignatureBytes   \* signatures the backend may return

Byte == 0 .. 255
Char == 0 .. 67

ASSUME PayloadsAssumption ==
    /\ ByteStrings \subseteq Seq(Byte)
    /\ Texts \subseteq Seq(Char)
    /\ VerifyStrings \subseteq ByteStrings
    /\ SignatureBytes \subseteq Seq(Byte)

Plus == 62      Slash == 63
Minus == 64     Underscore == 65
Equals == 66    OtherChar == 67

VARIABLES
    meant,   \* the bytes the client means, or the text no encoder made
    form,    \* how it sends them: an encoding, "grpc", or "text"
    signed,  \* what the sign endpoint made of them, and the signature
    check    \* a verify request and its answer

vars == <<meant, form, signed, check>>

Refused == [ok |-> FALSE]
Decoded(bytes) == [ok |-> TRUE, bytes |-> bytes]

-----------------------------------------------------------------------------
(* hex::decode and the two base64 engines *)

Digits == 52 .. 61
HexDigits == Digits \cup 0 .. 5 \cup 26 .. 31

HexValue(c) ==
    CASE c \in Digits -> c - 52
      [] c \in 0 .. 5 -> c + 10
      [] c \in 26 .. 31 -> c - 16

LooksLikeHex(text) == Len(text) % 2 = 0 /\ ToSet(text) \subseteq HexDigits

FromHex(text) ==
    [k \in 1 .. Len(text) \div 2 |-> 16 * HexValue(text[2 * k - 1]) + HexValue(text[2 * k])]

\* Byte i of a group of three is made of the sextets i and i + 1 of four.
FromSextets(x) ==
    [k \in 1 .. (3 * Len(x)) \div 4 |->
        LET i == (k - 1) % 3
            at == 4 * ((k - 1) \div 3) + i + 1
        IN ((x[at] * 4^(i + 1)) % 256) + (x[at + 1] \div 4^(2 - i))]

\* Variant: trailing bits are ignored.
SextetsFitLoosely(x) == Len(x) % 4 # 1

\* A last group is not a single sextet, and its unused bits are zero.
SextetsFit(x) ==
    /\ Len(x) % 4 # 1
    /\ Len(x) % 4 = 2 => Last(x) % 16 = 0
    /\ Len(x) % 4 = 3 => Last(x) % 4 = 0

\* The text without the one or two '=' it ends in.
Unpadded(text) ==
    LET n == Len(text)
    IN SubSeq(text, 1, IF n > 1 /\ text[n - 1] = Equals THEN n - 2
                       ELSE IF n > 0 /\ text[n] = Equals THEN n - 1 ELSE n)

Padding(n) == [k \in 1 .. (4 - (n % 4)) % 4 |-> Equals]

\* STANDARD.decode: '=' only at the end, and exactly as many as are due.
Standard(text) ==
    LET x == Unpadded(text)
    IN IF /\ ToSet(x) \subseteq 0 .. Slash
          /\ SextetsFit(x)
          /\ text = x \o Padding(Len(x))
         THEN Decoded(FromSextets(x)) ELSE Refused

UrlSextet(c) == CASE c = Minus -> 62 [] c = Underscore -> 63 [] OTHER -> c

\* URL_SAFE_NO_PAD.decode: no '=' at all.
UrlSafeNoPad(text) ==
    LET x == [k \in DOMAIN text |-> UrlSextet(text[k])]
    IN IF /\ ToSet(text) \subseteq (0 .. 61) \cup {Minus, Underscore}
          /\ SextetsFit(x)
         THEN Decoded(FromSextets(x)) ELSE Refused

\* Variant: base64 is tried before hex.
DecodePayloadHexLast(text) ==
    IF Standard(text).ok THEN Standard(text)
    ELSE IF LooksLikeHex(text) THEN Decoded(FromHex(text))
    ELSE UrlSafeNoPad(text)

\* Variant: one engine is asked to decode both alphabets.
DecodePayloadStandardOnly(text) ==
    IF LooksLikeHex(text) THEN Decoded(FromHex(text)) ELSE Standard(text)

\* decode_payload: hex first, then base64, then base64url without padding.
DecodePayload(text) ==
    IF LooksLikeHex(text) THEN Decoded(FromHex(text))
    ELSE IF Standard(text).ok THEN Standard(text)
    ELSE UrlSafeNoPad(text)

-----------------------------------------------------------------------------
(* What clients encode with; hex::encode of the responses is "hex" *)

HexChar(v, letters) == IF v < 10 THEN 52 + v ELSE letters + v - 10

ToHex(bytes, letters) ==
    [k \in 1 .. 2 * Len(bytes) |->
        LET b == bytes[(k + 1) \div 2]
        IN HexChar(IF k % 2 = 1 THEN b \div 16 ELSE b % 16, letters)]

\* A byte beyond the end counts as zero.
At(bytes, k) == IF k \in DOMAIN bytes THEN bytes[k] ELSE 0

\* Sextet i of a group of four is made of the bytes i - 1 and i of three.
ToSextets(bytes) ==
    [k \in 1 .. (4 * Len(bytes) + 2) \div 3 |->
        LET i == (k - 1) % 4
            at == 3 * ((k - 1) \div 4) + i
        IN ((At(bytes, at) * 4^(3 - i)) % 64) + (At(bytes, at + 1) \div 4^(i + 1))]

UrlChar(x) == CASE x = 62 -> Minus [] x = 63 -> Underscore [] OTHER -> x
UrlText(x) == [k \in DOMAIN x |-> UrlChar(x[k])]

Encodings == {"hex", "HEX", "base64", "base64url", "base64urlPadded"}

Encode(encoding, bytes) ==
    LET x == ToSextets(bytes)
    IN CASE encoding = "hex" -> ToHex(bytes, 26)
         [] encoding = "HEX" -> ToHex(bytes, 0)
         [] encoding = "base64" -> x \o Padding(Len(x))
         [] encoding = "base64url" -> UrlText(x)
         [] encoding = "base64urlPadded" -> UrlText(x) \o Padding(Len(x))

-----------------------------------------------------------------------------
(* The endpoints *)

Forms == Encodings \cup {"grpc"}

\* The bytes an endpoint works with: decoded over HTTP, as they are over gRPC.
Received(how, what) ==
    CASE how = "grpc" -> Decoded(what)
      [] how = "text" -> DecodePayload(what)
      [] OTHER -> DecodePayload(Encode(how, what))

NotYet == [state |-> "none"]

Init ==
    /\ \/ meant \in ByteStrings /\ form \in Forms
       \/ meant \in Texts /\ form = "text"
    /\ signed = NotYet
    /\ check = NotYet

\* handle_sign and SigningService/Sign, once the checks have passed: the
\* response has the signature in hex.
SignRequest ==
    /\ signed = NotYet
    /\ LET got == Received(form, meant)
       IN IF got.ok
            THEN \E sig \in SignatureBytes :
                   signed' = [state |-> "signed", bytes |-> got.bytes,
                              signature_hex |-> Encode("hex", sig), signature |-> sig]
            ELSE signed' = [state |-> "INVALID_PAYLOAD"]
    /\ UNCHANGED <<meant, form, check>>

\* The backend accepts the signature it made of these bytes, and no other.
VerifyAnswer(payload, signature) ==
    IF ~payload.ok THEN "INVALID_PAYLOAD"
    ELSE IF ~signature.ok THEN "INVALID_SIGNATURE"
    ELSE IF payload.bytes = signed.bytes /\ signature.bytes = signed.signature
         THEN "valid" ELSE "invalid"

\* handle_verify decodes payload and signature alike; SigningService/Verify
\* takes both as bytes.
VerifyRequest ==
    /\ signed.state = "signed" /\ form # "text" /\ meant \in VerifyStrings
    /\ check = NotYet
    /\ \E payload \in VerifyStrings, signature \in SignatureBytes, how, sigHow \in Forms :
          /\ (how = "grpc") <=> (sigHow = "grpc")
          /\ check' = [state |-> VerifyAnswer(Received(how, payload), Received(sigHow, signature)),
                       payload |-> payload, how |-> how,
                       signature |-> signature, sigHow |-> sigHow]
    /\ UNCHANGED <<meant, form, signed>>

Next == SignRequest \/ VerifyRequest

Spec == Init /\ [][Next]_vars

-----------------------------------------------------------------------------
(* Properties *)

\* A base64 text that could be hex, which decode_payload takes for hex.
Mistakable(how, bytes) ==
    how \in {"base64", "base64url", "base64urlPadded"} /\ LooksLikeHex(Encode(how, bytes))

\* An endpoint works with the bytes the client encoded, or refuses them, and
\* that only for base64url with padding; the one exception is a base64 text of
\* hex digits and even length, which, unless empty, always stands for other
\* bytes than were meant. (decode_payload, hex first)
SignedAsMeant ==
    signed # NotYet /\ form # "text" =>
        IF Mistakable(form, meant)
          THEN signed.state = "signed" /\ (meant = <<>> \/ signed.bytes # meant)
          ELSE \/ signed.state = "signed" /\ signed.bytes = meant
               \/ signed.state = "INVALID_PAYLOAD" /\ form = "base64urlPadded"

\* Every text that is accepted is what one of the encoders makes of the bytes
\* it stands for, up to the case of hex: no payload or signature has more text
\* forms than encodings. (decode_payload and the strictness of its engines)
Lowered(text) == [k \in DOMAIN text |-> IF text[k] \in 0 .. 5 THEN text[k] + 26 ELSE text[k]]
AcceptedTextsAreCanonical ==
    signed.state = "signed" /\ form = "text" =>
        \/ LooksLikeHex(meant) /\ Lowered(meant) = Encode("hex", signed.bytes)
        \/ \E encoding \in {"base64", "base64url"} : meant = Encode(encoding, signed.bytes)

\* A signature made over one transport in one encoding reaches the backend as
\* the same bytes over the other and in every other encoding, for the payload
\* that was meant and for no other.  The backend is taken to accept what it
\* signed, which Signatures!RoundTrip limits to the token and to ECDSA.
\* (handle_sign, handle_verify, Sign, Verify)
VerifiesInEveryForm ==
    (/\ check # NotYet
     /\ ~Mistakable(form, meant)
     /\ ~Mistakable(check.how, check.payload)
     /\ ~Mistakable(check.sigHow, check.signature)) =>
        \/ check.state \in {"INVALID_PAYLOAD", "INVALID_SIGNATURE"}
             /\ "base64urlPadded" \in {check.how, check.sigHow}
        \/ (check.state = "valid") <=> (check.payload = meant /\ check.signature = signed.signature)
=============================================================================
