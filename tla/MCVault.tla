------------------------------- MODULE MCVault -------------------------------
(* CredentialVault on small instances.                                          *)
EXTENDS CredentialVault, TLC

OpenAI == [type |-> "llm", provider |-> "openai"]
Google == [type |-> "llm", provider |-> "google"]

NoKinds == << >>
OneKind == <<OpenAI>>
TwoKinds == <<OpenAI, Google>>
GoogleOnly == {Google}

(* Bounds: one schedule and one failed file at a time.                          *)
OneScheduled == \A i, j \in Ids : next[i] # None /\ next[j] # None => i = j
OneUnsaved == Cardinality(unsaved) <= 1
Bounds == OneScheduled /\ OneUnsaved
=============================================================================
