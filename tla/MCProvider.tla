----------------------------- MODULE MCProvider -----------------------------
(* Two tool calls that may alternate, three pieces, events of up to two     *)
(* data lines; for each provider a model it has and one it has not, and one *)
(* that cannot stream.                                                      *)
EXTENDS ProviderCall

MCUsages == {[in |-> 3, out |-> 5, reasoning |-> 2]}

MCConversations ==
  {<<"user">>, <<"system", "user">>, <<"user", "system", "assistant", "system">>}

MCModels ==
  {<<"anthropic", "claude-opus-4-7">>, <<"anthropic", "gpt-5.5">>, <<"openai", "gpt-5.5">>,
   <<"openai", "gpt-5.5-pro">>, <<"moonshot", "kimi-k2.6">>}

MCRequests ==
  {[op |-> op, adapter |-> m[1], model |-> m[2], roles |-> roles, temperature |-> t, cache |-> c] :
     op \in {"complete", "stream", "json"}, m \in MCModels, roles \in MCConversations,
     t \in BOOLEAN, c \in BOOLEAN}
=============================================================================
