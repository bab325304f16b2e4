--------------------------- MODULE MCExchangeInfo ---------------------------
(* Small instances of ExchangeInfo for TLC. *)
EXTENDS ExchangeInfo

AnEntry(s, b, q, types) == [symbol |-> s, baseAsset |-> b, quoteAsset |-> q, orderTypes |-> types]

\* Three assets that change their roles, a name that comes twice, a repeated
\* order type and one the code does not know.
MCName == {"ethbtc", "bnbbtc", "bnbeth"}
MCAsset == {"btc", "eth", "bnb"}
MCResponses ==
    {<<AnEntry("ethbtc", "eth", "btc", <<"LIMIT", "MARKET">>),
       AnEntry("bnbbtc", "bnb", "btc", <<"TAKE_PROFIT_LIMIT", "LIMIT", "TAKE_PROFIT_LIMIT">>)>>,
     <<AnEntry("bnbeth", "bnb", "eth", <<"STOP_LOSS", "TRAILING_STOP", "STOP_LOSS_LIMIT">>),
       AnEntry("bnbeth", "eth", "bnb", <<"LIMIT_MAKER">>),
       AnEntry("ethbtc", "eth", "btc", <<>>)>>}
=============================================================================
