------------------------------ MODULE AssetLink ------------------------------
(* How a projector links an upstream ticker to a loaded :Asset                *)
(* (projection/asset_link.py).  Loaded assets are a function from the symbol  *)
(* in their IRI to their company number, Null when they have none; v_ticker_  *)
(* history is a set of rows [symbol, canonical, cik, from, ...].              *)
EXTENDS FiniteSets

CONSTANT Null

(* The numbers the ticker history gives a symbol, historical or canonical.    *)
NumbersOf(history, symbol) ==
  {r.cik : r \in {h \in history : symbol \in {h.symbol, h.canonical} /\ h.cik # Null}}

(* ticker_cik_map: a symbol that two companies used has no number.            *)
TickerCik(history, symbol) ==
  IF Cardinality(NumbersOf(history, symbol)) = 1
  THEN CHOOSE c \in NumbersOf(history, symbol) : TRUE ELSE Null

Numbered(cik, assets) == {s \in DOMAIN assets : assets[s] = cik}

(* resolve_asset: the exact symbol, else the only asset with the number.  The *)
(* set of assets to link: empty or one.                                       *)
ResolveAsset(symbol, cik, assets) ==
  IF symbol \in DOMAIN assets THEN {symbol}
  ELSE IF cik # Null /\ Cardinality(Numbered(cik, assets)) = 1 THEN Numbered(cik, assets)
  ELSE {}
=============================================================================
