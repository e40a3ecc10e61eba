CONSTANTS
  Slots = {"llm", "asr", "tts"}
  Platforms = {"unset", "workstation", "other"}
  NvcfHosts = {"grpc.nvcf.nvidia.com"}
  NoKey = "no key"
  Local <- MCLocal
  Cloud <- MCCloud
  ComposeHosts <- MCComposeHosts
  Suffixed <- MCSuffixed
  Addresses <- MCAddresses
  Bodies <- MCBodies
  RequestData <- MCRequestData
  PromptCatalogs <- MCPromptCatalogs
SPECIFICATION Spec
INVARIANTS
  CheckedIsUsed
  DefaultsAgree
  NoMixedSelection
  PromptShownIsUsed
CHECK_DEADLOCK FALSE
