-------------------------- MODULE MCNetworkCombobox --------------------------
(***************************************************************************)
(* Instances of NetworkCombobox for TLC: three of the nine presets, with   *)
(* the terms that bear on the texts typed.                                 *)
(***************************************************************************)
EXTENDS NetworkCombobox, FiniteSets

CONSTANTS ethereum, optimism, bnb

Presets == {ethereum, optimism, bnb}

Of(e, o, b) ==
  [p \in Presets |-> CASE p = ethereum -> e [] p = optimism -> o [] p = bnb -> b]

Ids == Of("eip155:1", "eip155:10", "eip155:56")
Names == Of("Ethereum Mainnet", "Optimism", "BNB Smart Chain")
LowerNames == Of("ethereum mainnet", "optimism", "bnb smart chain")
SearchTerms == [p \in Presets |-> {Ids[p], LowerNames[p]} \cup
              Of({"mainnet", "usdt", "eth"}, {"usdt", "eth"}, {"usdt"})[p]]
Places == Of(1, 4, 6)
Ranks == Of(2, 3, 1)

\* Part of an id, an id with a preset's for a start, an id like no other, an id in
\* capitals, and texts with and without a preset.
WithColon == {Ids[p] : p \in Presets} \cup {"eip155:5", "eip155:100", "EIP155:10"}
Searches == {"", "m", "eth", "usdt", "chain", "solana"}
AllTexts ==
  WithColon \cup Searches \cup {Names[p] : p \in Presets} \cup UNION {SearchTerms[p] : p \in Presets}

InLowerCase ==
  [t \in AllTexts |->
     IF t = "EIP155:10" THEN "eip155:10"
     ELSE IF \E p \in Presets : t = Names[p]
          THEN LowerNames[CHOOSE p \in Presets : t = Names[p]]
     ELSE t]

StartPairs ==
  {<<"eip155:10", "eip155:1">>, <<"eip155:56", "eip155:5">>, <<"mainnet", "m">>,
   <<"ethereum mainnet", "eth">>}
ContainPairs ==
  {<<"ethereum mainnet", "m">>, <<"optimism", "m">>, <<"bnb smart chain", "m">>,
   <<"bnb smart chain", "chain">>, <<"ethereum mainnet", "mainnet">>}
=============================================================================
