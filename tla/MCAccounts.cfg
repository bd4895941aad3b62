SPECIFICATION Spec
CONSTANTS
  ann = ann
  Ann = Ann
  ben = ben
  Requests = {r1, r2, r3}
  Spellings <- MCSpellings
  normalize <- MCNormalize
  AgentAddresses <- MCAgentAddresses
  NoRow = NoRow
  AccessLife = 2
  RefreshLife = 3
INVARIANTS
  TypeOK
  OneUserPerAddress
  AnswersAreTrue
  AgentWhileServing
  SessionsEnd
  InductiveInvariant
PROPERTIES
  ImplementsAddressBook
