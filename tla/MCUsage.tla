------------------------------- MODULE MCUsage -------------------------------
(***************************************************************************)
(* Two calls over three profiles, of which one names a provider the router *)
(* was not given, and a key nobody registered.                             *)
(***************************************************************************)
EXTENDS UsageReports, TLC

CONSTANTS c1, c2

MCCalls == {c1, c2}
MCRegistered == {"fast", "strong", "hosted"}
MCModelKeys == MCRegistered \cup {"typo"}
MCProvider == "fast" :> "mock" @@ "strong" :> "mock" @@ "hosted" :> "gemini"

\* 15 cents per million tokens: one token is stored as 0, two as 0, four as 1.
MCPriceIn == "fast" :> 15 @@ "strong" :> 300 @@ "hosted" :> 10
MCPriceOut == "fast" :> 60 @@ "strong" :> 1500 @@ "hosted" :> 40
MCTokenCounts == {<<1, 0>>, <<4, 1>>}

MCChains == {<< >>, <<"fast", "hosted", "strong">>, <<"fast", "typo", "strong">>}
MCFlaws == {{}, {"reference"}, {"definition", "input"}, {"prompt"}, {"output"}}

Symmetry == Permutations(MCCalls)
=============================================================================
