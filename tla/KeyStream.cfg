\* Keys with up to two attributes and an empty or short comment, two items.
SPECIFICATION StreamSpec
CONSTANTS
  Sigil = 7
  NonceSigil = 8
  KnownCodecs = {5, 6, 7, 8}
  NotText = 9
  MaxAttributes = 30
  MaxDecodedSize = 13
  MaxVarbytes = 13
  KeyCodecs = {5}
  Comments <- MCComments
  Ids = {1, 29}
  Payloads <- MCPayloads
  OtherCodecs = {6, 40}
  OtherComments <- MCOtherComments
  OtherIds = {0, 29, 30}
  OtherPayloads <- MCOtherPayloads
  MaxPairs = 2
  MaxItems = 2
CHECK_DEADLOCK FALSE
INVARIANTS StreamTypeOK ReadIsWritten WholeItemsAreRead ReadItemsTravel DocumentsAgree
