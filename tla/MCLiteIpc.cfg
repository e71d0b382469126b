\* Two threads of a call; b serves, loses its connection and restarts.
CONSTANTS
  a = a
  b = b
  Nodes = {a, b}
  Process <- MCProcess
  Qos <- MCQos
  Listeners = {}
  Callers <- MCClient
  Stopping = {b}
  Breaking = {b}
  MagicMod = 3
  MaxMessages = 2
SPECIFICATION Spec
INVARIANTS TypeOK SlotServesCall
PROPERTIES ExecutedOnce ImplementsRemoteCall
