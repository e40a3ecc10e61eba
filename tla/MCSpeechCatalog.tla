-------------------------- MODULE MCSpeechCatalog --------------------------
(* Two functions of one server, of which one is zero-shot, and the engine  *)
(* in the process; an ASR service that declares two languages, one that    *)
(* declares none; two language models.                                     *)
EXTENDS SpeechCatalog, TLC

MCServerOf == "magpie" :> "nvcf" @@ "zeroshot" :> "nvcf" @@ "kokoro" :> "in-process"

MCCanon == "en-US" :> "en" @@ "EN-US" :> "en" @@ "ES-US" :> "es" @@ "de-DE" :> "de"
MCBase == "en" :> "en" @@ "es" :> "es" @@ "de" :> "de"

MCDeclared == "magpie" :> {"en-US"} @@ "zeroshot" :> {"en-US", "de-DE"} @@ "kokoro" :> {"en-US"}
MCSubvoices ==
  "magpie" :> {<<"Aria", "EN-US">>, <<"Diego", "ES-US">>}
    @@ "zeroshot" :> {<<"Female", None>>, <<"Male", None>>}
    @@ "kokoro" :> {<<"af_heart", "en-US">>}
MCHeard == "nemotron" :> {"EN-US", "ES-US"} @@ "auto" :> {}
MCUnderstood == "nano" :> {"en", "de"} @@ "custom" :> None

Interchangeable == Permutations(Requests)
=============================================================================
