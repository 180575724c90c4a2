---------------------------- MODULE MCPriceStream ----------------------------
(***************************************************************************)
(* Constants of the small instances on which TLC checks PriceStream.       *)
(***************************************************************************)
EXTENDS PriceStream, TLC

CONSTANTS weth, gold, c1

OneAsset == {weth}
TwoAssets == {weth, gold}
OneStream == {c1}

\* One id asked for twice, both, none, and one that does not validate.
AnyRequest == {<<weth, weth>>, <<gold, weth>>, << >>, <<weth, BadId>>}
OneId == {<<weth>>}

=============================================================================
