SPECIFICATION Spec
CONSTANT
  None = None
PROPERTIES
  EveryKeyIsServed
  EndingIsFinal
  SessionsEnd
