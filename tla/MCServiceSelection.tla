------------------------- MODULE MCServiceSelection -------------------------
(* Two platforms whose language models differ under one key and whose      *)
(* speech service is the same, a third that repeats the second; engines in *)
(* the process on one of them; a cloud catalogue for models and voices.    *)
EXTENDS ServiceSelection, TLC

Entry(server, managed, function, model, voice, promptFile) ==
  [server |-> server, managed |-> managed, function |-> function, model |-> model, voice |-> voice,
   promptFile |-> promptFile]

Nim == Entry(Address("nvidia-llm", 8000), FALSE, "", "nano", "", "")
Vllm == Entry(Address("nvidia-llm-vllm", 8000), FALSE, "", "nano-fp4", "", "")
Router == Entry(Address("openrouter.ai", 443), TRUE, "", "gemini", "", "")
Whisper == Entry(InProcess, TRUE, "", "turbo", "", "")
ZeroShot == Entry(Address("tts-service", 50051), FALSE, "", "zeroshot", "Female", "prompt.wav")
Nvcf == Address("grpc.nvcf.nvidia.com", 443)

MCLocal ==
  [llm |-> << <<"workstation", << <<"nano", Nim>>, <<"router", Router>> >> >>,
              <<"jetson", << <<"nano", Vllm>> >> >>,
              <<"dgxspark", << <<"nano", Vllm>> >> >> >>,
   asr |-> << <<"workstation", << <<"whisper", Whisper>> >> >>, <<"dgxspark", <<>> >> >>,
   tts |-> << <<"workstation", << <<"magpie", ZeroShot>> >> >>, <<"jetson", << <<"magpie", ZeroShot>> >> >> >>]

MCCloud ==
  [llm |-> << <<"nano", Entry(Address("integrate.api.nvidia.com", 443), FALSE, "", "nano-cloud", "", "")>> >>,
   asr |-> << <<"nemotron", Entry(Nvcf, FALSE, "f-asr", "nemotron", "", "")>> >>,
   tts |-> << <<"magpie", Entry(Nvcf, FALSE, "f-tts", "magpie", "Aria", "")>> >>]

MCComposeHosts == UNION {OverrideHosts[s] : s \in Overridden} \cup {"pi-agent"}
MCSuffixed(k, platform) == k \o "-" \o platform

MCAddresses ==
  {Address("nvidia-llm", 8000), Address("nvidia-llm-vllm", 8000), Address("tts-service", 50051),
   Address("localhost", 18000), Address("localhost", 50151)}

Id(source, key) == [source |-> source, key |-> key]
Ask(id, server, model, voice) ==
  [id |-> id, server |-> server, function |-> "", model |-> model, voice |-> voice, promptFile |-> "mine.wav"]

RawModel == Ask(Id("raw", "nano"), NoAddress, "", "")
LlmChoices ==
  {RawModel, Ask(Id("self-hosted", "nano"), Address("nvidia-llm", 8000), "stale", ""),
   Ask(Id("self-hosted", "nano-jetson"), NoAddress, "", ""), Ask(Id("custom", "c1"), Address("10.0.0.7", 8000), "own", "")}
DefaultVoice == Ask(NoId, NoAddress, "", "Female")
TtsChoices ==
  {DefaultVoice, Ask(Id("cloud-nim", "magpie"), NoAddress, "stale", "Diego"),
   Ask(Id("self-hosted", "magpie"), NoAddress, "stale", ""), Ask(NoId, Address("tts-service", 50051), "own", "")}

(* One of the two slots is chosen, the other left as it is.                *)
Choose(llm, tts) == [llm |-> llm, asr |-> Ask(NoId, NoAddress, "", ""), tts |-> tts]
MCBodies == {Choose(l, DefaultVoice) : l \in LlmChoices} \cup {Choose(RawModel, t) : t \in TtsChoices}

(* A client that supplies every field, of every slot.                      *)
Theirs == Ask(NoId, Address("10.0.0.9", 9000), "theirs", "Theirs")
MCRequestData == {[s \in Slots |-> [Theirs EXCEPT !.promptFile = "theirs.wav"]]}

MCPromptCatalogs ==
  {<< <<"chief", "plain">>, <<"casual", kind>> >> : kind \in {"marked", "other"}} \cup {<< <<"casual", "other">> >>}
=============================================================================
