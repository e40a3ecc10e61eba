CONSTANTS
  Requests = {r1, r2, r3}
  Tts = {"magpie", "zeroshot", "kokoro"}
  Asr = {"nemotron", "auto"}
  Llms = {"nano", "custom"}
  InProcess = {"kokoro"}
  DefaultTts = "magpie"
  NoVoice = NoVoice
  None = None
  Codes = {"en-US", "EN-US", "ES-US", "de-DE"}
  EnUS = "en"
  EsUS = "es"
  ServerOf <- MCServerOf
  Canon <- MCCanon
  Base <- MCBase
  Declared <- MCDeclared
  Subvoices <- MCSubvoices
  Heard <- MCHeard
  Understood <- MCUnderstood
SPECIFICATION Spec
SYMMETRY Interchangeable
INVARIANTS
  AnswerIsOwn
  OfferedIsServed
  VoiceWasOffered
CHECK_DEADLOCK FALSE
