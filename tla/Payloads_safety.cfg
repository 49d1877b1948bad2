SPECIFICATION Spec
CONSTANTS
    ByteStrings <- MCByteStrings
    Texts <- MCTexts
    VerifyStrings <- MCVerifyStrings
    SignatureBytes <- MCSignatureBytes
INVARIANTS
    SignedAsMeant
    AcceptedTextsAreCanonical
    VerifiesInEveryForm
CHECK_DEADLOCK FALSE
