SPECIFICATION AlgSpec
CONSTANTS
    Short = 2
    Field = 1
    Field8 = 2
    Payloads <- SomePayloads
    Illegal <- TooShort
    MaxSent = 3
    MinSize = 3
    ReadMin = 3
    MaxBuffer = 8
    Nothing = 99
    Block = 5
    LengthBytes = 3
    LoMax = 20
    MaxChunk = 11
    MaxMessage = 23
INVARIANTS
    StringsAgree SettingsAreKept DigestsAgree CiphersAgree StreamIsFramed
PROPERTY
    TextsAgree
CHECK_DEADLOCK FALSE
