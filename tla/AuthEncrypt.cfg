SPECIFICATION Spec
CONSTANTS
  Ciphers = {"chacha20", "xchacha20"}
  Keys = {1, 2}
  Nounces <- MCNounces
  Aads <- MCAads
  Plains <- MCPlains
  Types = {"bytestring", "unit"}
  Parses <- MCParses
  CipherBlock = 4
  AuthBlock = 2
  Limit = 3
  MaxLocked = 2
  NoAnswer = NoAnswer
  Nothing = Nothing
INVARIANTS TypeOK StreamApart OnlyAuthenticDecrypted
PROPERTY ImplementsSealedBox
