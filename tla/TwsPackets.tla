------------------------------ MODULE TwsPackets -------------------------------
(* The packets of src/src/tws_decode.c: for each receive_* function, which    *)
(* token it takes at each of its YIELDs, under which conditions, and which    *)
(* memory it allocates and frees.  TwsDecode interprets these tables.         *)
(*                                                                            *)
(* A step of a packet takes one token.  Its kind says what becomes of it:     *)
(*   num      a number, or a token that is skipped; it has a name where some  *)
(*            version does not assign the number                              *)
(*   version  the version of the packet, which conditions compare             *)
(*   flag     a value that conditions test                                    *)
(*   str      RSTRING: a copy in the slot, or NULL for an empty token         *)
(*   dup      a literal that is copied into the slot, whatever the token      *)
(*   count    the length of the array in the slot, allocated if positive      *)
(*   alloc    a boolean: if it is set the slot is allocated                   *)
(*   same     no YIELD: RSTRING of the token of the step before               *)
(* Memory slots are named <<structure, field>>.                               *)
EXTENDS TwsSteps

\* client->event.version is set from the first token, or the token is ignored.
Version == Step("version", <<"event", "version">>)
Strs(struct, fields) == [i \in DOMAIN fields |-> Step("str", <<struct, fields[i]>>)[1]]
Named(struct, field) == Step("num", <<struct, field>>)

Of(struct, fields) == {<<struct, f>> : f \in fields}

\* Structures that are array elements: their slots exist once the array does.
ElementStructs ==
    {"comboLegs", "orderComboLegs", "smartComboRoutingParams", "algoParams", "orderMiscOptions",
     "secIdList", "items", "elements"}

(* made: slots allocated before the first YIELD; zeroed: structures cleared   *)
(* by then; nulled: slots assigned NULL; freed: slots freed after the         *)
(* callback; shown: slots of the event that the function never assigns;       *)
(* derefs: arrays whose elements are initialised through a pointer inside     *)
(* them that is still NULL.                                                   *)
Plain(steps) ==
    [steps |-> steps, made |-> {}, zeroed |-> {}, nulled |-> {}, freed |-> {}, shown |-> {},
     derefs |-> {}]
Freed(steps, slots) == [Plain(steps) EXCEPT !.freed = slots]

--------------------------------------------------------------------------------
(* What tws_type.c frees; tws_init_* clears the whole structure.              *)

ContractFreed ==
    Of("contract", {"symbol", "secType", "expiry", "right", "multiplier", "exchange", "currency",
        "localSymbol", "tradingClass", "primaryExch", "secIdType", "secId", "comboLegsDescrip",
        "comboLegs", "underComp"})
    \cup Of("comboLegs", {"action", "exchange", "designatedLocation"})

OrderFreed ==
    Of("order", {"action", "orderType", "tif", "activeStartTime", "activeStopTime", "ocaGroup",
        "orderRef", "goodAfterTime", "goodTillDate", "rule80A", "faGroup", "faProfile",
        "faPercentage", "faMethod", "openClose", "designatedLocation", "deltaNeutralOrderType",
        "deltaNeutralSettlingFirm", "deltaNeutralClearingAccount", "deltaNeutralClearingIntent",
        "deltaNeutralOpenClose", "deltaNeutralDesignatedLocation", "scaleTable", "hedgeType",
        "hedgeParam", "account", "settlingFirm", "clearingAccount", "clearingIntent",
        "algoStrategy", "algoParams", "smartComboRoutingParams", "orderMiscOptions"})
    \cup Of("algoParams", {"tag", "val"}) \cup Of("smartComboRoutingParams", {"tag", "val"})

\* tws_init_order copies two defaults into the structure.
OrderMade == Of("order", {"openClose", "deltaNeutralOpenClose"})

OrderStateFreed ==
    Of("orderState", {"warningText", "commissionCurrency", "equityWithLoan", "maintMargin",
        "initMargin", "status"})

ContractDetailsFreed ==
    Of("contractDetails", {"marketName", "orderTypes", "validExchanges", "longName",
        "contractMonth", "industry", "category", "subcategory", "timeZoneId", "tradingHours",
        "liquidHours", "evRule", "secIdList", "cusip", "ratings", "descAppend", "bondType",
        "couponType", "maturity", "issueDate", "nextOptionType", "nextOptionDate", "notes"})
    \cup Of("secIdList", {"tag", "val"}) \cup ContractFreed

ExecutionFreed ==
    Of("exec", {"execId", "time", "acctNumber", "exchange", "side", "orderRef", "evRule"})

--------------------------------------------------------------------------------
(* Market data                                                                *)

\* sizeTickType, derived from the type of the price, is only set where there is a size.
TickPrice ==
    Plain(Version \o Num(3) \o Since(2, Named("tick_price", "sizeTickType")) \o Since(3, Num(1)))
TickSize == Plain(Num(4))

TickOptionComputation ==
    LET model == <<"tick_option_computation", "tickType">>   \* is MODEL_OPTION
    IN  Plain(Version \o Num(1) \o Step("flag", model) \o Num(2)
              \o Since(6, Num(2)) \o Before(6, When(model, Num(2))) \o Since(6, Num(4)))

TickGeneric == Plain(Num(4))

TickString_Mutated == Plain(Num(3) \o Strs("tick_string", <<"value">>))
TickString == Freed(Num(3) \o Strs("tick_string", <<"value">>), Of("tick_string", {"value"}))

TickEfp ==
    Freed(Num(4) \o Strs("tick_efp", <<"formatteBasisPoints">>) \o Num(2)
          \o Strs("tick_efp", <<"futureExpiry">>) \o Num(2),
          Of("tick_efp", {"formatteBasisPoints", "futureExpiry"}))

TickSnapshotEnd == Plain(Num(2))
MarketDataType == Plain(Num(3))
MarketDepth == Plain(Version \o Num(6))

\* marketMaker is not freed.
MarketDepthL2 ==
    Plain(Version \o Num(2) \o Strs("market_depth_l2", <<"marketMaker">>) \o Num(4))

RealtimeBars == Plain(Num(10))

\* startDateStr and endDateStr before version 2, and items for an empty reply, keep
\* what the union held.
HistoricalData ==
    Freed(Version \o Num(1) \o Since(2, Strs("historical_data", <<"startDateStr", "endDateStr">>))
          \o Each(<<"historical_data", "items">>,
                  Strs("items", <<"date">>) \o Num(7) \o Since(3, Num(1))),
          Of("historical_data", {"startDateStr", "endDateStr", "items"}) \cup Of("items", {"date"}))

--------------------------------------------------------------------------------
(* Account, portfolio, executions                                             *)

\* account is not freed.
Position ==
    [Freed(Version \o Strs("position", <<"account">>) \o Num(1)
           \o Strs("contract", <<"symbol", "secType", "expiry">>) \o Num(1)
           \o Strs("contract", <<"right", "multiplier", "exchange", "currency", "localSymbol">>)
           \o Since(2, Strs("contract", <<"tradingClass">>)) \o Num(1) \o Since(3, Num(1)),
           ContractFreed \cup Of("position", {"contract"}))
     EXCEPT !.made = Of("position", {"contract"}), !.zeroed = {"contract"}]

PositionEnd == Plain(Num(1))

AccountSummary ==
    Freed(Num(2) \o Strs("account_summary", <<"account", "tag", "value", "currency">>),
          Of("account_summary", {"account", "tag", "value", "currency"}))

AccountSummaryEnd == Plain(Num(2))

AcctValue_Mutated ==
    Freed(Version \o Strs("acct_value", <<"key", "val", "currency">>)
          \o Since(2, Strs("acct_value", <<"accoutName">>)),
          Of("acct_value", {"key", "val", "currency", "accoutName"}))

AcctValue ==
    [Freed(Version \o Strs("acct_value", <<"key", "val", "currency">>)
           \o Since(2, Strs("acct_value", <<"accoutName">>)),
           Of("acct_value", {"key", "val", "currency", "accoutName"}))
     EXCEPT !.nulled = Of("acct_value", {"accoutName"})]

PortfolioValue ==
    [Freed(Version \o Since(6, Num(1)) \o Strs("contract", <<"symbol", "secType", "expiry">>)
           \o Num(1) \o Strs("contract", <<"right">>)
           \o Since(7, Strs("contract", <<"multiplier", "primaryExch">>))
           \o Strs("contract", <<"currency">>) \o Since(2, Strs("contract", <<"localSymbol">>))
           \o Since(8, Strs("contract", <<"tradingClass">>)) \o Num(3) \o Since(3, Num(3))
           \o Since(4, Strs("portfolio_value", <<"accountName">>)),
           ContractFreed \cup Of("portfolio_value", {"contract", "accountName"}))
     EXCEPT !.made = Of("portfolio_value", {"contract"}), !.zeroed = {"contract"},
            !.nulled = Of("portfolio_value", {"accountName"})]

AcctUpdateTime ==
    Freed(Num(1) \o Strs("acct_update_time", <<"timeStamp">>), Of("acct_update_time", {"timeStamp"}))

AcctDownloadEnd ==
    Freed(Num(1) \o Strs("acct_download_end", <<"accountName">>),
          Of("acct_download_end", {"accountName"}))

ManagedAccts ==
    Freed(Num(1) \o Strs("managed_accts", <<"acctList">>), Of("managed_accts", {"acctList"}))

ExecutionData ==
    [Freed(Version \o Since(7, Num(1)) \o Num(1) \o Since(5, Num(1))
           \o Strs("contract", <<"symbol", "secType", "expiry">>) \o Num(1)
           \o Strs("contract", <<"right">>) \o Since(9, Strs("contract", <<"multiplier">>))
           \o Strs("contract", <<"exchange", "currency", "localSymbol">>)
           \o Since(10, Strs("contract", <<"tradingClass">>))
           \o Strs("exec", <<"execId", "time", "acctNumber", "exchange", "side">>) \o Num(2)
           \o Since(2, Num(1)) \o Since(3, Num(1)) \o Since(4, Num(1)) \o Since(6, Num(2))
           \o Since(8, Strs("exec", <<"orderRef">>))
           \o Since(9, Strs("exec", <<"evRule">>) \o Num(1)),
           ExecutionFreed \cup ContractFreed \cup Of("execution_data", {"exec", "contract"}))
     EXCEPT !.made = Of("execution_data", {"exec", "contract"}), !.zeroed = {"contract", "exec"}]

ExecutionDataEnd == Plain(Num(2))

CommissionReport ==
    Freed(Num(1) \o Strs("report", <<"execId">>) \o Num(1) \o Strs("report", <<"currency">>) \o Num(3),
          Of("report", {"execId", "currency"}))

--------------------------------------------------------------------------------
(* Orders                                                                     *)

\* permId to clientId keep what the union held in the versions that lack them.
OrderStatus ==
    [Freed(Version \o Num(1) \o Strs("order_status", <<"status">>) \o Num(3)
           \o Since(2, Named("order_status", "permId")) \o Since(3, Named("order_status", "parentId"))
           \o Since(4, Named("order_status", "lastFillPrice"))
           \o Since(5, Named("order_status", "clientId"))
           \o Since(6, Strs("order_status", <<"whyHeld">>)),
           Of("order_status", {"status", "whyHeld"}))
     EXCEPT !.nulled = Of("order_status", {"whyHeld"})]

\* receive_open_order in five parts: the contract and the basic fields ...
OpenOrderBasic ==
    Version \o Num(1) \o Since(17, Num(1)) \o Strs("contract", <<"symbol", "secType", "expiry">>)
    \o Num(1) \o Strs("contract", <<"right">>) \o Since(32, Strs("contract", <<"multiplier">>))
    \o Strs("contract", <<"exchange", "currency">>) \o Since(2, Strs("contract", <<"localSymbol">>))
    \o Since(32, Strs("contract", <<"tradingClass">>))
    \o Strs("order", <<"action">>) \o Num(1) \o Strs("order", <<"orderType">>) \o Num(2)
    \o Strs("order", <<"tif", "ocaGroup", "account", "openClose">>) \o Num(1)
    \o Strs("order", <<"orderRef">>) \o Since(3, Num(1)) \o Since(4, Num(4))

\* ... the extended ones ...
OpenOrderExtended ==
    Since(5, Strs("order", <<"goodAfterTime">>)) \o Since(6, Num(1))
    \o Since(7, Strs("order", <<"faGroup", "faMethod", "faPercentage", "faProfile">>))
    \o Since(8, Strs("order", <<"goodTillDate">>))
    \o Since(9, Strs("order", <<"rule80A">>) \o Num(1) \o Strs("order", <<"settlingFirm">>) \o Num(1)
                \o Strs("order", <<"designatedLocation">>) \o Num(15))
    \o Since(10, Num(2))

\* ... volatility orders ...
OpenOrderVolatility ==
    LET type == <<"order", "deltaNeutralOrderType">>
        fields == Num(1) \o Strs("order", <<"deltaNeutralSettlingFirm", "deltaNeutralClearingAccount",
                                            "deltaNeutralClearingIntent">>)
        short == Strs("order", <<"deltaNeutralOpenClose">>) \o Num(2)
                 \o Strs("order", <<"deltaNeutralDesignatedLocation">>)
    IN  Since(11, Num(2)) \o Since(11, Before(12, Step("dup", type)))
        \o Since(12, Step("str", type) \o Num(1))
        \o Since(27, When(type, fields)) \o Since(31, When(type, short)) \o Since(11, Num(2))
        \o Since(13, Num(1)) \o Since(30, Num(1))
        \o Since(14, Num(2) \o Strs("contract", <<"comboLegsDescrip">>))

\* ... combination and scale orders; orderComboLegs is never freed ...
OpenOrderCombo ==
    Since(29, Each(<<"contract", "comboLegs">>,
                   Num(2) \o Strs("comboLegs", <<"action", "exchange">>) \o Num(2)
                   \o Strs("comboLegs", <<"designatedLocation">>) \o Num(1))
              \o Each(<<"order", "orderComboLegs">>, Num(1)))
    \o Since(26, Each(<<"order", "smartComboRoutingParams">>,
                      Strs("smartComboRoutingParams", <<"tag", "val">>)))
    \o Since(15, Num(2) \o Step("flag", <<"order", "scalePriceIncrement">>))
    \o Since(28, When(<<"order", "scalePriceIncrement">>, Num(7)))

\* ... hedges, delta neutral legs, algorithms, and the state of the order.  Without
\* a hedge type hedgeParam is read from the empty token of hedgeType: NULL.
OpenOrderState ==
    Since(24, Strs("order", <<"hedgeType">>)
              \o When(<<"order", "hedgeType">>, Strs("order", <<"hedgeParam">>)))
    \o Since(25, Num(1)) \o Since(19, Strs("order", <<"clearingAccount", "clearingIntent">>))
    \o Since(22, Num(1))
    \o Since(20, Step("alloc", <<"contract", "underComp">>)
                 \o When(<<"contract", "underComp">>, Num(3)))
    \o Since(21, Strs("order", <<"algoStrategy">>)
                 \o When(<<"order", "algoStrategy">>,
                         Each(<<"order", "algoParams">>, Strs("algoParams", <<"tag", "val">>))))
    \o Since(16, Num(1)
                 \o Strs("orderState", <<"status", "initMargin", "maintMargin", "equityWithLoan">>)
                 \o Num(3) \o Strs("orderState", <<"commissionCurrency", "warningText">>))

OpenOrder ==
    LET structures == Of("open_order", {"contract", "order", "orderState"})
    IN  [Freed(OpenOrderBasic \o OpenOrderExtended \o OpenOrderVolatility \o OpenOrderCombo
               \o OpenOrderState,
               ContractFreed \cup OrderFreed \cup OrderStateFreed \cup structures)
         EXCEPT !.made = structures \cup OrderMade, !.zeroed = {"contract", "order", "orderState"}]

OpenOrderEnd == Plain(Num(1))
NextValidId == Plain(Num(2))
DeltaNeutralValidation == Plain(Num(5))

--------------------------------------------------------------------------------
(* Contracts, scanners, news and the rest                                     *)

\* The elements' contractDetails stay NULL, and are initialised and filled in: there
\* is never one to destroy.
ScannerData ==
    LET elements == <<"scanner_data", "elements">>
    IN  [Freed(Version \o Num(1)
               \o Each(elements,
                       Num(1) \o Since(3, Num(1)) \o Strs("contract", <<"symbol", "secType", "expiry">>)
                       \o Num(1) \o Strs("contract", <<"right", "exchange", "currency", "localSymbol">>)
                       \o Strs("contractDetails", <<"marketName">>)
                       \o Strs("contract", <<"tradingClass">>)
                       \o Strs("elements", <<"distance", "benchmark", "projection">>)
                       \o Since(2, Strs("elements", <<"legsStr">>))),
               {elements} \cup Of("elements", {"distance", "benchmark", "projection", "legsStr"}))
         EXCEPT !.derefs = {elements}]

ScannerParameters ==
    Freed(Num(1) \o Strs("scanner_parameters", <<"xml">>), Of("scanner_parameters", {"xml"}))

\* Both kinds of details: allocated, cleared, destroyed and freed in the same way.
Details(steps) ==
    [Freed(steps, ContractDetailsFreed \cup Of("contract_data", {"contractDetails"}))
     EXCEPT !.made = Of("contract_data", {"contractDetails"}),
            !.zeroed = {"contractDetails", "contract"}]

SecIdList == <<"contractDetails", "secIdList">>

ContractData ==
    Details(Version \o Since(3, Num(1)) \o Strs("contract", <<"symbol", "secType", "expiry">>)
            \o Num(1) \o Strs("contract", <<"right", "exchange", "currency", "localSymbol">>)
            \o Strs("contractDetails", <<"marketName">>) \o Strs("contract", <<"tradingClass">>)
            \o Num(2) \o Strs("contract", <<"multiplier">>)
            \o Strs("contractDetails", <<"orderTypes", "validExchanges">>)
            \o Since(2, Num(1)) \o Since(4, Num(1))
            \o Since(5, Strs("contractDetails", <<"longName">>) \o Strs("contract", <<"primaryExch">>))
            \o Since(6, Strs("contractDetails", <<"contractMonth", "industry", "category",
                         "subcategory", "timeZoneId", "tradingHours", "liquidHours">>))
            \o Since(8, Strs("contractDetails", <<"evRule">>) \o Num(1))
            \o Since(7, Each(SecIdList, Strs("secIdList", <<"tag", "val">>))))

\* The loop over secIdList has no YIELD: tag and val are copies of the count's token.
BondContractData ==
    Details(Version \o Since(3, Num(1)) \o Strs("contract", <<"symbol", "secType">>)
            \o Strs("contractDetails", <<"cusip">>) \o Num(1)
            \o Strs("contractDetails", <<"maturity", "issueDate", "ratings", "bondType",
                                         "couponType">>)
            \o Num(3) \o Strs("contractDetails", <<"descAppend">>)
            \o Strs("contract", <<"exchange", "currency">>)
            \o Strs("contractDetails", <<"marketName">>) \o Strs("contract", <<"tradingClass">>)
            \o Num(2) \o Strs("contractDetails", <<"orderTypes", "validExchanges">>)
            \o Since(2, Strs("contractDetails", <<"nextOptionDate", "nextOptionType">>) \o Num(1)
                        \o Strs("contractDetails", <<"notes">>))
            \o Since(4, Strs("contractDetails", <<"longName">>))
            \o Since(6, Strs("contractDetails", <<"evRule">>) \o Num(1))
            \o Since(5, Each(SecIdList, Step("same", <<"secIdList", "tag">>)
                                        \o Step("same", <<"secIdList", "val">>))))

ContractDataEnd == Plain(Num(2))

ErrMsg ==
    LET text == Strs("err_msg", <<"errorMsg">>)
    IN  Freed(Version \o Before(2, text) \o Since(2, Num(2) \o text), Of("err_msg", {"errorMsg"}))

NewsBulletins ==
    Freed(Num(3) \o Strs("news_bulletins", <<"newsMessage", "originationgExch">>),
          Of("news_bulletins", {"newsMessage", "originationgExch"}))

ReceiveFa == Freed(Num(2) \o Strs("receive_fa", <<"xml">>), Of("receive_fa", {"xml"}))
CurrentTime == Plain(Num(2))

FundamentalData ==
    Freed(Num(2) \o Strs("fundamental_data", <<"data">>), Of("fundamental_data", {"data"}))

VerifyMessageApi ==
    Freed(Num(1) \o Strs("verify_message_api", <<"apiData">>), Of("verify_message_api", {"apiData"}))

\* TwsClient models the START_API it sends.
VerifyCompleted ==
    Freed(Num(2) \o Strs("verify_completed", <<"errorText">>), Of("verify_completed", {"errorText"}))

DisplayGroupList ==
    Freed(Num(2) \o Strs("display_group_list", <<"groups">>), Of("display_group_list", {"groups"}))

DisplayGroupUpdated ==
    Freed(Num(2) \o Strs("display_group_updated", <<"contractInfo">>),
          Of("display_group_updated", {"contractInfo"}))

--------------------------------------------------------------------------------
(* The login: the server's version, and its time unless the server is old.    *)
(* Its error event is an ERR_MSG of which only errorCode is assigned.         *)

MIN_REQ_SERVER_VERSION == 70
Login == [Plain(Version \o Since(20, Num(1))) EXCEPT !.shown = Of("err_msg", {"id", "errorMsg"})]

--------------------------------------------------------------------------------
(* The switch of decode_response_package, and the login                       *)

AllPackets == [
    LOGIN |-> Login, TICK_PRICE |-> TickPrice, TICK_SIZE |-> TickSize, POSITION |-> Position,
    POSITION_END |-> PositionEnd, ACCOUNT_SUMMARY |-> AccountSummary,
    ACCOUNT_SUMMARY_END |-> AccountSummaryEnd, TICK_OPTION_COMPUTATION |-> TickOptionComputation,
    TICK_GENERIC |-> TickGeneric, TICK_STRING |-> TickString, TICK_EFP |-> TickEfp,
    ORDER_STATUS |-> OrderStatus, ACCT_VALUE |-> AcctValue, PORTFOLIO_VALUE |-> PortfolioValue,
    ACCT_UPDATE_TIME |-> AcctUpdateTime, ERR_MSG |-> ErrMsg, OPEN_ORDER |-> OpenOrder,
    NEXT_VALID_ID |-> NextValidId, SCANNER_DATA |-> ScannerData, CONTRACT_DATA |-> ContractData,
    BOND_CONTRACT_DATA |-> BondContractData, EXECUTION_DATA |-> ExecutionData,
    MARKET_DEPTH |-> MarketDepth, MARKET_DEPTH_L2 |-> MarketDepthL2,
    NEWS_BULLETINS |-> NewsBulletins, MANAGED_ACCTS |-> ManagedAccts, RECEIVE_FA |-> ReceiveFa,
    HISTORICAL_DATA |-> HistoricalData, SCANNER_PARAMETERS |-> ScannerParameters,
    CURRENT_TIME |-> CurrentTime, REAL_TIME_BARS |-> RealtimeBars,
    FUNDAMENTAL_DATA |-> FundamentalData, CONTRACT_DATA_END |-> ContractDataEnd,
    OPEN_ORDER_END |-> OpenOrderEnd, ACCT_DOWNLOAD_END |-> AcctDownloadEnd,
    EXECUTION_DATA_END |-> ExecutionDataEnd, DELTA_NEUTRAL_VALIDATION |-> DeltaNeutralValidation,
    TICK_SNAPSHOT_END |-> TickSnapshotEnd, MARKET_DATA_TYPE |-> MarketDataType,
    COMMISSION_REPORT |-> CommissionReport, VERIFY_MESSAGE_API |-> VerifyMessageApi,
    VERIFY_COMPLETED |-> VerifyCompleted, DISPLAY_GROUP_LIST |-> DisplayGroupList,
    DISPLAY_GROUP_UPDATED |-> DisplayGroupUpdated ]

\* The number that comes first in a packet.
PacketIds == [
    TICK_PRICE |-> 1, TICK_SIZE |-> 2, ORDER_STATUS |-> 3, ERR_MSG |-> 4, OPEN_ORDER |-> 5,
    ACCT_VALUE |-> 6, PORTFOLIO_VALUE |-> 7, ACCT_UPDATE_TIME |-> 8, NEXT_VALID_ID |-> 9,
    CONTRACT_DATA |-> 10, EXECUTION_DATA |-> 11, MARKET_DEPTH |-> 12,
    MARKET_DEPTH_L2 |-> 13, NEWS_BULLETINS |-> 14, MANAGED_ACCTS |-> 15, RECEIVE_FA |-> 16,
    HISTORICAL_DATA |-> 17, BOND_CONTRACT_DATA |-> 18, SCANNER_PARAMETERS |-> 19,
    SCANNER_DATA |-> 20, TICK_OPTION_COMPUTATION |-> 21, TICK_GENERIC |-> 45,
    TICK_STRING |-> 46, TICK_EFP |-> 47, CURRENT_TIME |-> 49, REAL_TIME_BARS |-> 50,
    FUNDAMENTAL_DATA |-> 51, CONTRACT_DATA_END |-> 52, OPEN_ORDER_END |-> 53,
    ACCT_DOWNLOAD_END |-> 54, EXECUTION_DATA_END |-> 55, DELTA_NEUTRAL_VALIDATION |-> 56,
    TICK_SNAPSHOT_END |-> 57, MARKET_DATA_TYPE |-> 58, COMMISSION_REPORT |-> 59,
    POSITION |-> 61, POSITION_END |-> 62, ACCOUNT_SUMMARY |-> 63,
    ACCOUNT_SUMMARY_END |-> 64, VERIFY_MESSAGE_API |-> 65, VERIFY_COMPLETED |-> 66,
    DISPLAY_GROUP_LIST |-> 67, DISPLAY_GROUP_UPDATED |-> 68 ]
================================================================================
