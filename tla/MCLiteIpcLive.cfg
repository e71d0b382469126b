\* One node whose handlers call the node itself, and that listens to its own statuses.
CONSTANTS
  a = a
  b = b
  Nodes = {a}
  Process <- MCProcess
  Qos <- MCQos
  Listeners = {a}
  Callers <- MCSelf
  Stopping = {a}
  Breaking = {a}
  MagicMod = 3
  MaxMessages = 2
SPECIFICATION FairSpec
PROPERTIES NodesGoOn
