SPECIFICATION Spec
CONSTANTS
  WordSize = 1024
  ReadSize = 100
  transform <- Transform
  state0 <- InitialState
  encode_state <- encode_words
  Tasks <- AllTasks
INVARIANTS
  TypeOK
  HoldsWhatItWasFed
  PaddedAsSpecified
  CredentialsArrive
  AnswersAsDocumented
