---------------------------- MODULE PromptCatalog ----------------------------
(***************************************************************************)
(* The prompts of an example: prompts.yaml, read by src/utils.py, the      *)
(* default of the registry (src/examples_registry.py) and the list of      *)
(* /api/prompts (src/server.py).  A catalogue is a sequence of             *)
(* <<key, kind>>: a "plain" prompt, one "marked" as default, an "internal" *)
(* one, or an "other" entry, which has no content.                         *)
(***************************************************************************)
EXTENDS Naturals, Sequences, SequencesExt

CONSTANT NoKey

HasContent(entry) == entry[2] # "other"
PromptKeys(catalog) == {entry[1] : entry \in ToSet(catalog)}

(* default_prompt_key *)
DefaultPromptKey(catalog) ==
  LET marked == SelectInSeq(catalog, LAMBDA e : e[2] = "marked")
      first == SelectInSeq(catalog, HasContent)
      i == IF marked # 0 THEN marked ELSE first
  IN IF i = 0 THEN NoKey ELSE catalog[i][1]

(* resolve_prompt for a session without a prompt of its own: its key, the  *)
(* one of PROMPT_SELECTOR, or the default, which replaces an unknown one.  *)
(* NoKey for a KeyError: no entry has content, or the one found has none.  *)
ResolvedPrompt(catalog, key, selector) ==
  LET fallback == DefaultPromptKey(catalog)
      requested == IF key # NoKey THEN key ELSE IF selector # NoKey THEN selector ELSE fallback
      found == IF requested \in PromptKeys(catalog) THEN requested ELSE fallback
  IN IF fallback # NoKey /\ \E entry \in ToSet(catalog) : entry[1] = found /\ HasContent(entry)
     THEN found ELSE NoKey

(* _sanitize_session_config puts the default of the registry into a        *)
(* session that names neither a prompt nor a key.                          *)
SessionPrompt_Forgotten(key, registered) == key
SessionPrompt(key, registered) == IF key = NoKey THEN registered ELSE key

(* GET /api/prompts: the prompts offered, and which is marked as default. *)
ListedPrompts(catalog) ==
  {e[1] : e \in {x \in ToSet(catalog) : x[2] \in {"plain", "marked"}}}

ListedDefault(catalog, registered) ==
  LET key == IF registered \in PromptKeys(catalog) THEN registered ELSE DefaultPromptKey(catalog)
  IN ListedPrompts(catalog) \cap {key}
=============================================================================
