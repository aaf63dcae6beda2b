------------------------------ MODULE TwsRequests ------------------------------
(* The requests of src/src/tws_encode.c: which field each function sends, in  *)
(* which order, under which conditions.  TwsEncode interprets these tables.   *)
(*                                                                            *)
(* A step of a request sends one field.  Its kind says how:                   *)
(*   num      send_int32, send_double, send_bool: a number, never empty       *)
(*   max      send_int32_max, send_double_max: empty for a value not set      *)
(*   str      send_str: empty for NULL                                        *)
(*   flag     a field that conditions test: a number that is 0 or not         *)
(*   flagstr  ... or a string                                                 *)
(*   flagmax  ... or a number that may not be set                             *)
(*   count    the length of an array                                          *)
(*   tags     the length of an array that send_tag_list sends                 *)
(*   options  send_options_list: a list of tags and values as one field       *)
EXTENDS TwsSteps, TLC

Maxs(n) == [i \in 1..n |-> Step("max", NONE)[1]]
Texts(n) == [i \in 1..n |-> Step("str", NONE)[1]]
Options == Step("options", NONE)

\* send_tag_list: the length and the pairs.
TagList(array) ==
    Step("tags", array) \o [i \in 1..2 |-> [Texts(2)[i] EXCEPT !.loop = array]]

\* Every request begins with its id and its version.
Request(steps) == Num(2) \o steps

--------------------------------------------------------------------------------
(* Contracts                                                                  *)

WITH_PRIMARY_EXCH == Texts(1)
WITHOUT_PRIMARY_EXCH == <<>>

\* Whether secType is BAG.
IsBag == <<"contract", "secType">>

\* send_contract_base
ContractBase(primaryExch) ==
    Num(1) \o Texts(1) \o Step("flagstr", IsBag) \o Texts(1) \o Num(1) \o Texts(3)
    \o primaryExch \o Texts(3)

\* send_contract_combolegs, with what only orders send of a leg.
ComboLegs(orderLeg) ==
    When(IsBag, Each(<<"contract", "comboLegs">>, Num(2) \o Texts(2) \o orderLeg))
OrderLeg == Num(2) \o Texts(1) \o Num(1)

\* send_under_comp
UnderComp ==
    LET underComp == <<"contract", "underComp">>
    IN  Step("flag", underComp) \o When(underComp, Num(3))

--------------------------------------------------------------------------------
(* Market data, contracts, scanners                                           *)

ReqMktData ==
    Num(1) \o ContractBase(WITH_PRIMARY_EXCH) \o ComboLegs(<<>>) \o UnderComp
    \o Texts(1) \o Num(1) \o Options
ReqHistoricalData ==
    Num(1) \o ContractBase(WITH_PRIMARY_EXCH) \o Num(1) \o Texts(3) \o Num(1) \o Texts(1) \o Num(1)
    \o ComboLegs(<<>>) \o Options
ReqRealTimeBars ==
    Num(1) \o ContractBase(WITH_PRIMARY_EXCH) \o Num(1) \o Texts(1) \o Num(1) \o Options
ReqContractData == Num(1) \o ContractBase(WITHOUT_PRIMARY_EXCH) \o Num(1) \o Texts(2)
ReqMktDepth == Num(1) \o ContractBase(WITHOUT_PRIMARY_EXCH) \o Num(1) \o Options
ReqFundamentalData == Num(2) \o Texts(7)
ReqCalculation == Num(1) \o ContractBase(WITH_PRIMARY_EXCH) \o Num(2)
ReqScannerSubscription ==
    Num(1) \o Maxs(1) \o Texts(3) \o Maxs(5) \o Texts(6) \o Maxs(2) \o Texts(1) \o Maxs(1)
    \o Texts(2) \o Options

--------------------------------------------------------------------------------
(* Orders                                                                     *)

ExerciseOptions ==
    Num(1) \o ContractBase(WITHOUT_PRIMARY_EXCH) \o Num(2) \o Texts(1) \o Num(1)

\* tws_client_place_order in four parts: the contract and the basic fields ...
PlaceOrderBasic ==
    Num(1) \o ContractBase(WITH_PRIMARY_EXCH) \o Texts(2)
    \o Texts(1) \o Num(1) \o Texts(1) \o Maxs(2) \o Texts(4) \o Num(1) \o Texts(1) \o Num(8)

\* ... combinations and the extended fields ...
PlaceOrderExtended ==
    ComboLegs(OrderLeg)
    \o When(IsBag, Each(<<"order", "orderComboLegs">>, Maxs(1)))
    \o When(IsBag, TagList(<<"order", "smartComboRoutingParams">>))
    \o Texts(1) \o Num(1) \o Texts(6) \o Num(1) \o Texts(1) \o Num(2) \o Texts(2) \o Num(1)
    \o Maxs(2) \o Num(2) \o Maxs(1) \o Num(1) \o Maxs(5) \o Num(1)

\* ... volatility and scale orders ...
PlaceOrderVolatility ==
    LET type == <<"order", "deltaNeutralOrderType">>
        increment == <<"order", "scalePriceIncrement">>
    IN  Maxs(2) \o Step("flagstr", type) \o Maxs(1)
        \o When(type, Num(1) \o Texts(4) \o Num(2) \o Texts(1))
        \o Num(1) \o Maxs(5) \o Step("flagmax", increment)
        \o When(increment, Maxs(3) \o Num(1) \o Maxs(2) \o Num(1)) \o Texts(3)

\* ... hedges, algorithms and the rest.
PlaceOrderRest ==
    LET hedge == <<"order", "hedgeType">>
        algo == <<"order", "algoStrategy">>
    IN  Step("flagstr", hedge) \o When(hedge, Texts(1)) \o Num(1) \o Texts(2) \o Num(1) \o UnderComp
        \o Step("flagstr", algo) \o When(algo, TagList(<<"order", "algoParams">>)) \o Num(1) \o Options

PlaceOrder == PlaceOrderBasic \o PlaceOrderExtended \o PlaceOrderVolatility \o PlaceOrderRest

--------------------------------------------------------------------------------
(* The public commands, and START_API                                         *)

\* The requests that have nothing, or one number, behind their version.
Bare ==
    {"REQ_SCANNER_PARAMETERS", "REQ_OPEN_ORDERS", "CANCEL_NEWS_BULLETINS", "REQ_ALL_OPEN_ORDERS",
     "REQ_MANAGED_ACCTS", "REQ_CURRENT_TIME", "REQ_GLOBAL_CANCEL", "REQ_POSITIONS", "CANCEL_POSITIONS"}
OneNumber ==
    {"CANCEL_SCANNER_SUBSCRIPTION", "CANCEL_HISTORICAL_DATA", "CANCEL_REAL_TIME_BARS",
     "CANCEL_MKT_DATA", "CANCEL_MKT_DEPTH", "CANCEL_ORDER", "REQ_IDS", "REQ_NEWS_BULLETINS",
     "SET_SERVER_LOGLEVEL", "REQ_AUTO_OPEN_ORDERS", "REQ_FA", "CANCEL_FUNDAMENTAL_DATA",
     "CANCEL_CALC_IMPLIED_VOLAT", "CANCEL_CALC_OPTION_PRICE", "REQ_MARKET_DATA_TYPE",
     "CANCEL_ACCOUNT_SUMMARY", "QUERY_DISPLAY_GROUPS", "UNSUBSCRIBE_FROM_GROUP_EVENTS", "START_API"}

Others == [
    REQ_MKT_DATA |-> ReqMktData, PLACE_ORDER |-> PlaceOrder,
    REQ_ACCOUNT_DATA |-> Num(1) \o Texts(1), REQ_EXECUTIONS |-> Num(2) \o Texts(6),
    REQ_CONTRACT_DATA |-> ReqContractData, REQ_MKT_DEPTH |-> ReqMktDepth,
    REPLACE_FA |-> Num(1) \o Texts(1), REQ_HISTORICAL_DATA |-> ReqHistoricalData,
    EXERCISE_OPTIONS |-> ExerciseOptions, REQ_SCANNER_SUBSCRIPTION |-> ReqScannerSubscription,
    REQ_REAL_TIME_BARS |-> ReqRealTimeBars, REQ_FUNDAMENTAL_DATA |-> ReqFundamentalData,
    REQ_CALC_IMPLIED_VOLAT |-> ReqCalculation, REQ_CALC_OPTION_PRICE |-> ReqCalculation,
    REQ_ACCOUNT_SUMMARY |-> Num(1) \o Texts(2), VERIFY_REQUEST |-> Texts(2),
    VERIFY_MESSAGE |-> Texts(1), SUBSCRIBE_TO_GROUP_EVENTS |-> Num(2),
    UPDATE_DISPLAY_GROUP |-> Num(1) \o Texts(1) ]

AllRequests ==
    [r \in Bare |-> Request(<<>>)] @@ [r \in OneNumber |-> Request(Num(1))]
    @@ [r \in DOMAIN Others |-> Request(Others[r])]
================================================================================
