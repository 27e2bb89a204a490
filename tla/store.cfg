SPECIFICATION Spec
CONSTANTS
  a1 = a1
  t1 = t1
  Agents = {a1}
  Tasks = {t1}
  Runs = {"run1", "run2"}
  Silent = {"run2"}
  NoText = ""
  Garbled = "garbled"
  MaxEvents = 2
INVARIANTS
  TypeOK
  FileCurrent
  AcknowledgedTaskKept
  TextsOfRuns
  NextPollComplete
PROPERTIES
  FileTasksKept
  StoreContractKept
