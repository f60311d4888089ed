------------------------------ MODULE Operations ------------------------------
(***************************************************************************)
(* The operations of the SDK as requests: the method and path each one      *)
(* sends, the transport method it goes through (Get and GetPage retry, Send *)
(* never does), and the transport it uses: "t" carries the client's         *)
(* credential, "pub" carries none.  And what each costs: the table          *)
(* generated from the pinned spec and its lookup.                           *)
(*                                                                          *)
(* A path is a sequence of segments; "{}" stands for a path parameter.      *)
(* Queries are left out: costOf and the route check cut them off.           *)
(***************************************************************************)
EXTENDS Integers, Sequences, FiniteSets

Read(p) == [verb |-> "GET", path |-> p, by |-> "Get", on |-> "t"]
PageOf(p) == [Read(p) EXCEPT !.by = "GetPage"]
Write(v, p) == [verb |-> v, path |-> p, by |-> "Send", on |-> "t"]
Unsigned(v, p) == [Write(v, p) EXCEPT !.on = "pub"]
InMarket(resource) == <<"markets", "{}", resource>>

-----------------------------------------------------------------------------
(* orders.go *)
CreateOrder == Write("POST", <<"orders">>)
PreviewOrder == Write("POST", <<"orders", "preview">>)
CreateOrders == Write("POST", <<"orders", "batch">>)
EditOrder == Write("PATCH", <<"orders", "{}">>)
CancelOrder == Write("DELETE", <<"orders", "{}">>)
CancelAllOrders == Write("DELETE", <<"orders">>)
FetchOrder == Read(<<"orders", "{}">>)
FetchOpenOrders == Read(<<"orders">>)
FetchOrders == PageOf(<<"orders", "history">>)
FetchMyTrades == PageOf(<<"fills">>)
(* positions.go *)
FetchPositions == Read(<<"positions">>)
FetchPositionsHistory == PageOf(<<"positions", "closed">>)
(* account.go *)
FetchBalance == Read(<<"account">>)
FetchCancelOnDisconnect == Read(<<"account", "cancel-on-disconnect">>)
SetCancelOnDisconnect == Write("PUT", <<"account", "cancel-on-disconnect">>)
ClaimCredit == Write("POST", <<"account", "credit">>)
Deposit == Write("POST", <<"account", "deposit">>)
AddMargin == Write("POST", <<"account", "margin">>)
FetchEquityHistory == PageOf(<<"account", "equity-history">>)
FetchTradingFees == Read(<<"account", "fees">>)
FetchPortfolioHistory == Read(<<"account", "portfolio-history">>)
FetchRateLimitStatus == Read(<<"account", "rate-limit">>)
FetchAccountState == Read(<<"account", "state">>)
FetchAccountSummary == Read(<<"account", "summary">>)
FetchAdlHistory == Read(<<"account", "{}", "adl-history">>)
(* funds.go *)
FetchDeposits == Read(<<"deposits">>)
CreateDeposit == Write("POST", <<"deposits">>)
FetchWithdrawals == Read(<<"withdrawals">>)
ClaimFaucet == Write("POST", <<"faucet">>)
FetchBridgeAssets == Read(<<"bridge", "assets">>)
FetchBridgeDeposits == Read(<<"bridge", "deposits">>)
FetchBridgeDeposit == Read(<<"bridge", "deposits", "{}">>)
(* market.go *)
FetchMarkets == Read(<<"markets">>)
FetchMarketsSummary == Read(<<"markets", "summary">>)
FetchMarkPrice == Read(InMarket("mark-price"))
FetchMarketRiskParams == Read(InMarket("risk-params"))
FetchMarketStatus == Read(InMarket("status"))
FetchAdlEvents == Read(InMarket("adl-events"))
FetchStatus == Read(<<"status">>)
FetchStats == Read(<<"stats">>)
FetchStatsHistory == Read(<<"stats", "history">>)
FetchFundingHistory == Read(<<"funding">>)
FetchFundingRateHistory == Read(InMarket("funding"))
FetchFundingSamples == Read(InMarket("funding-samples"))
FetchTickers == Read(<<"tickers">>)
FetchTicker == Read(InMarket("ticker"))
FetchOrderBook == Read(InMarket("orderbook"))
FetchTrades == PageOf(InMarket("trades"))
FetchOHLCV == Read(InMarket("candles"))
(* session.go, agents.go, auth.go, admin.go *)
Login == Unsigned("POST", <<"auth", "login">>)
CreateAPIKey == Write("POST", <<"keys">>)
FetchAPIKeys == Read(<<"keys">>)
DeleteAPIKey == Write("DELETE", <<"keys", "{}">>)
RegisterAgent == Unsigned("POST", <<"agents", "register">>)
FetchAgents == Read(<<"agents">>)
RevokeAgent == Unsigned("DELETE", <<"agents", "{}">>)
DepositTarget == Read(<<"account", "deposit-target">>)
FetchTiers == Read(<<"admin", "tiers">>)
SetTier == Write("PUT", <<"admin", "tiers">>)
DeleteTier == Write("DELETE", <<"admin", "tiers", "{}">>)

Trading == {CreateOrder, PreviewOrder, CreateOrders, EditOrder, CancelOrder, CancelAllOrders,
    FetchOrder, FetchOpenOrders, FetchOrders, FetchMyTrades, FetchPositions, FetchPositionsHistory}
OfAccount == {FetchBalance, FetchCancelOnDisconnect, SetCancelOnDisconnect, ClaimCredit, Deposit,
    AddMargin, FetchEquityHistory, FetchTradingFees, FetchPortfolioHistory, FetchRateLimitStatus,
    FetchAccountState, FetchAccountSummary, FetchAdlHistory, FetchDeposits, CreateDeposit,
    FetchWithdrawals, ClaimFaucet, FetchBridgeAssets, FetchBridgeDeposits, FetchBridgeDeposit}
OfMarkets == {FetchMarkets, FetchMarketsSummary, FetchMarkPrice, FetchMarketRiskParams,
    FetchMarketStatus, FetchAdlEvents, FetchStatus, FetchStats, FetchStatsHistory,
    FetchFundingHistory, FetchFundingRateHistory, FetchFundingSamples, FetchTickers, FetchTicker,
    FetchOrderBook, FetchTrades, FetchOHLCV}
OfCredentials == {Login, CreateAPIKey, FetchAPIKeys, DeleteAPIKey, RegisterAgent, FetchAgents,
    RevokeAgent, DepositTarget, FetchTiers, SetTier, DeleteTier}
AllOps == Trading \cup OfAccount \cup OfMarkets \cup OfCredentials

\* Whether the operation changes state at the exchange (PreviewOrder does not, and is sent like
\* one that does).
Mutates(op) == op.verb # "GET"

-----------------------------------------------------------------------------
(* weights.gen.go: every root-mount operation of the pinned spec. *)
Row(v, p, c, w) == [verb |-> v, path |-> p, class |-> c, weight |-> w, perOrders |-> 0]
Heavy == {<<"account", "portfolio-history">>, <<"account", "summary">>, <<"fills">>, <<"orders", "history">>}
LightReads == {<<"account">>, <<"agents">>, <<"deposits">>, <<"funding">>, <<"keys">>, <<"markets">>,
    <<"orders">>, <<"positions">>, <<"stats">>, <<"status">>, <<"stream">>, <<"tickers">>,
    <<"withdrawals">>, <<"ws">>, <<"account", "cancel-on-disconnect">>, <<"account", "equity-history">>,
    <<"account", "fees">>, <<"account", "rate-limit">>, <<"account", "state">>, <<"admin", "tiers">>,
    <<"account", "{}", "adl-history">>, <<"markets", "summary">>, <<"orders", "{}">>,
    <<"positions", "closed">>, <<"stats", "history">>}
    \cup {<<"markets", "{}", x>> : x \in {"adl-events", "candles", "funding", "funding-samples",
        "mark-price", "orderbook", "risk-params", "status", "ticker", "trades"}}
PlainPosts == {<<"deposits">>, <<"faucet">>, <<"keys">>, <<"ws-tokens">>, <<"account", "credit">>,
    <<"account", "deposit">>, <<"account", "margin">>, <<"agents", "register">>, <<"auth", "login">>,
    <<"ws", "token">>}
specCosts ==
    {Row("GET", p, "request", 1) : p \in LightReads} \cup {Row("GET", p, "request", 5) : p \in Heavy}
    \cup {Row("POST", p, "request", 1) : p \in PlainPosts}
    \cup {Row("DELETE", p, "request", 1) : p \in {<<"admin", "tiers", "{}">>, <<"agents", "{}">>, <<"keys", "{}">>}}
    \cup {Row("PUT", p, "request", 1) : p \in {<<"account", "cancel-on-disconnect">>, <<"admin", "tiers">>}}
    \cup {Row("DELETE", p, "cancel", 1) : p \in {<<"orders">>, <<"orders", "{}">>}}
    \cup {Row("POST", p, "order", 1) : p \in {<<"orders">>, <<"orders", "preview">>}}
    \cup {Row("PATCH", <<"orders", "{}">>, "order", 1),
          [Row("POST", <<"orders", "batch">>, "order", 1) EXCEPT !.perOrders = 40]}

\* A template matches a path segment by segment, "{}" any segment but an empty one.
matchTemplate(tmpl, path) ==
    /\ Len(tmpl) = Len(path)
    /\ \A i \in 1..Len(tmpl) : tmpl[i] = path[i] \/ (tmpl[i] = "{}" /\ path[i] # "")

\* The row of a request: the literal one if there is one, else the one whose template matches.
lookup(verb, path) ==
    LET rows == {r \in specCosts : r.verb = verb}
        literal == {r \in rows : r.path = path}
    IN  IF literal # {} THEN literal ELSE {r \in rows : matchTemplate(r.path, path)}

NotAList == -1  \* a batch body the server cannot parse

\* The budget a request is charged to and its weight; orders is the length of its batch.
costOf(verb, path, orders) ==
    LET rows == lookup(verb, path)
        r == CHOOSE x \in rows : TRUE
        extra == IF r.perOrders > 0 /\ orders # NotAList THEN orders \div r.perOrders ELSE 0
    IN  CASE verb = "POST" /\ path = <<"auth", "login">> -> [class |-> "login", weight |-> 1]
        []   OTHER -> IF rows = {} THEN [class |-> "request", weight |-> 1]
                      ELSE [class |-> r.class, weight |-> r.weight + extra]

\* The routes an agent key may not call: a write to any withdrawal route, any transfer.
MovesFunds(verb, path) ==
    \/ path[1] = "transfers"
    \/ verb # "GET" /\ \E i \in 1..Len(path) : path[i] = "withdrawals"
===============================================================================
