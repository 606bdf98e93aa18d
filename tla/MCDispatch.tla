----------------------------- MODULE MCDispatch -----------------------------
(* TLC instance of Dispatch: a local tier, a cloud default and a frontier    *)
(* rescue tier; the second configuration has dropped the local provider and  *)
(* made another tier the default, the third has no default tier at all.      *)
EXTENDS Dispatch

LocalTier == [name |-> "local", provider |-> "ollama", retries |-> 0,
              slap |-> "on", attempts |-> 0]
CloudTier == [name |-> "cloud", provider |-> "openrouter", retries |-> 2,
              slap |-> "on", attempts |-> 3]
FrontierTier == [name |-> "frontier", provider |-> "anthropic", retries |-> 0,
                 slap |-> "off", attempts |-> 0]

Tiers == {LocalTier, CloudTier, FrontierTier}

OneConfig ==
    {[tiers |-> Tiers, default |-> CloudTier, rescue |-> NoTier,
      registry |-> {"ollama", "openrouter", "anthropic"},
      retries |-> 1, attempts |-> 1]}

TwoConfigs ==
    OneConfig \cup
    {[tiers |-> Tiers, default |-> LocalTier, rescue |-> FrontierTier,
      registry |-> {"ollama", "anthropic"},
      retries |-> 1, attempts |-> 2]}

ThreeConfigs ==
    TwoConfigs \cup
    {[tiers |-> Tiers, default |-> NoTier, rescue |-> LocalTier,
      registry |-> {"openrouter", "anthropic"}, retries |-> 1, attempts |-> 1]}
=============================================================================
