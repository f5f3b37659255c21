SPECIFICATION Spec
CONSTANTS
  Empty = Empty
  Redacted = Redacted
  console = console
  phone = phone
  url = url
  chat = chat
  path = path
  Clients <- MCClients
  Remote <- MCRemote
  Urls <- MCUrls
  Chats <- MCChats
  Programs <- MCPrograms
  Bodies <- MCBodies
  FlagSets <- MCFlagSets
  Edits <- MCEdits
  Faults = {"write", "chmod", "kill", "power"}
  MaxEvents = 4
  MaxTokens = 2
INVARIANTS
  AlwaysStartable
  ServedIsCoherent
  TokenWasPrinted
PROPERTIES
  RestartKeepsAcknowledged
  SavedBeforeServed
  OnlyNamedFieldsChange
  SecretsSurvive
  ChangesAreAuthorised
CHECK_DEADLOCK FALSE
