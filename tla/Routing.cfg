\* Config files with up to two providers and two models.
SPECIFICATION Spec
CONSTANTS
  Protocols = {"chat", "msgs"}
  ProviderLists <- SomeProviderLists
  ModelLists <- SomeModelLists
  ClientModels = {"m", "n", "z"}
INVARIANTS RoutedAsConfigured NoProviderTwice NothingUnreachable
CHECK_DEADLOCK FALSE
