------------------------- MODULE EobiV13_0Describe --------------------------
(***************************************************************************)
(* The members of the messages of Eurex EOBI 13.0 in the order in which    *)
(* they are described, which is their order on the wire. Components are    *)
(* taken apart.                                                            *)
(***************************************************************************)
EXTENDS WireLayout

MessageHeaderComp == <<"bodyLen", "templateID", "msgSeqNum">>

InstrmtLegGrpComp ==
    <<"legSymbol", "pad4", "legSecurityID", "legPrice", "legRatioQty",
      "legSecurityType", "legSide", "pad2">>

RelatedInstrumentGrpComp == <<"relatedSecurityID">>

RemainingOrderDetailsComp == <<"trdRegTSPrevTimePriority", "displayQty", "price">>

MDInstrumentEntryGrpComp ==
    <<"mDEntryPx", "mDEntrySize", "mDOriginType", "mDEntryType", "tradeCondition",
      "trdType", "multiLegReportingType", "multiLegPriceModel",
      "nonDisclosedTradeVolume">>

MDTradeEntryGrpComp == <<"mDEntryPx", "mDEntrySize", "mDEntryType", "pad7">>

SecMassStatGrpComp ==
    <<"securityID", "highPx", "lowPx", "securityStatus", "securityTradingStatus",
      "marketCondition", "securityTradingEvent", "soldOutIndicator",
      "tESSecurityStatus", "pad2">>

OrderDetailsComp ==
    <<"trdRegTSTimePriority", "displayQty", "side", "ordType", "hHIIndicator", "pad5",
      "price">>

AddComplexInstrument ==
    Members(MessageHeaderComp
        \o <<"securityID", "transactTime", "securityDesc", "securitySubType",
             "productComplex", "impliedMarketIndicator", "quantityScalingFactor",
             "legRatioMultiplier", "noLegs", "pad2", "lastFragment">>
        \o InstrmtLegGrpComp)

AddFlexibleInstrument ==
    Members(MessageHeaderComp
        \o <<"securityID", "transactTime", "securityDesc", "securityType",
             "putOrCall", "exerciseStyle", "settlMethod", "maturityDate",
             "strikePrice", "optAttribute", "contractDate",
             "securityReferenceDataSupplement", "pad4">>)

AddScaledSimpleInstrument ==
    Members(MessageHeaderComp
        \o <<"securityID", "transactTime", "securityDesc", "securityType", "pad1",
             "quantityScalingFactor", "pad4">>
        \o RelatedInstrumentGrpComp)

AuctionBBO ==
    Members(MessageHeaderComp
        \o <<"transactTime", "securityID", "bidPx", "offerPx", "bidSize",
             "offerSize", "potentialSecurityTradingEvent", "bidOrdType",
             "offerOrdType", "pad5">>)

AuctionClearingPrice ==
    Members(MessageHeaderComp
        \o <<"transactTime", "securityID", "lastPx", "lastQty", "imbalanceQty",
             "securityTradingStatus", "potentialSecurityTradingEvent", "pad6">>)

CrossRequest ==
    Members(MessageHeaderComp
        \o <<"securityID", "lastPx", "lastQty", "side", "crossRequestType",
             "inputSource", "pad5", "transactTime">>)

ExecutionSummary ==
    Members(MessageHeaderComp
        \o <<"securityID", "requestTime", "execID", "lastQty", "aggressorSide",
             "pad1", "tradeCondition", "tradingHHIIndicator", "pad3", "lastPx">>
        \o RemainingOrderDetailsComp
        \o <<"restingHiddenQty", "restingCxlQty", "aggressorTime">>)

FullOrderExecution ==
    Members(MessageHeaderComp
        \o <<"side", "ordType", "algorithmicTradeIndicator", "hHIIndicator",
             "trdMatchID", "price", "trdRegTSTimePriority", "securityID", "lastQty",
             "lastPx">>)

Heartbeat == Members(MessageHeaderComp \o <<"lastMsgSeqNumProcessed", "pad4">>)

InstrumentStateChange ==
    Members(MessageHeaderComp
        \o <<"securityID", "securityStatus", "securityTradingStatus",
             "marketCondition", "fastMarketIndicator", "securityTradingEvent",
             "soldOutIndicator", "pad2", "highPx", "lowPx", "transactTime",
             "tESSecurityStatus", "pad7">>)

InstrumentSummary ==
    Members(MessageHeaderComp
        \o <<"securityID", "lastUpdateTime", "trdRegTSExecutionTime", "totNoOrders",
             "securityStatus", "securityTradingStatus", "marketCondition",
             "fastMarketIndicator", "securityTradingEvent", "soldOutIndicator",
             "highPx", "lowPx", "productComplex", "noMDEntries", "tESSecurityStatus",
             "pad5">>
        \o MDInstrumentEntryGrpComp)

MassInstrumentStateChange ==
    Members(MessageHeaderComp
        \o <<"instrumentScopeProductComplex", "securityMassStatus",
             "securityMassTradingStatus", "massMarketCondition",
             "fastMarketIndicator", "securityMassTradingEvent",
             "massSoldOutIndicator", "tESSecurityMassStatus", "transactTime",
             "lastFragment", "noRelatedSym", "pad6">>
        \o SecMassStatGrpComp)

OrderAdd ==
    Members(MessageHeaderComp \o <<"requestTime", "securityID">> \o OrderDetailsComp)

OrderDelete ==
    Members(MessageHeaderComp \o <<"requestTime", "transactTime", "securityID">>
        \o OrderDetailsComp)

OrderMassDelete == Members(MessageHeaderComp \o <<"securityID", "transactTime">>)

OrderModify ==
    Members(MessageHeaderComp
        \o <<"requestTime", "trdRegTSPrevTimePriority", "prevPrice",
             "prevDisplayQty", "securityID">>
        \o OrderDetailsComp \o <<"prevPriceHHIIndicator", "pad7">>)

OrderModifySamePrio ==
    Members(MessageHeaderComp
        \o <<"requestTime", "transactTime", "prevDisplayQty", "securityID">>
        \o OrderDetailsComp)

PacketHeader ==
    Members(MessageHeaderComp
        \o <<"applSeqNum", "marketSegmentID", "partitionID", "completionIndicator",
             "applSeqResetIndicator", "dSCP", "pad4", "transactTime">>)

PartialOrderExecution ==
    Members(MessageHeaderComp
        \o <<"side", "ordType", "algorithmicTradeIndicator", "hHIIndicator",
             "trdMatchID", "price", "trdRegTSTimePriority", "securityID", "lastQty",
             "lastPx">>)

ProductStateChange ==
    Members(MessageHeaderComp
        \o <<"tradingSessionID", "tradingSessionSubID", "tradSesStatus",
             "marketCondition", "fastMarketIndicator", "tESTradSesStatus", "pad2",
             "transactTime">>)

ProductSummary ==
    Members(MessageHeaderComp
        \o <<"lastMsgSeqNumProcessed", "tradingSessionID", "tradingSessionSubID",
             "tradSesStatus", "marketCondition", "fastMarketIndicator",
             "tESTradSesStatus", "pad6">>)

QuoteRequest ==
    Members(MessageHeaderComp
        \o <<"securityID", "lastQty", "side", "pad7", "transactTime">>)

SnapshotOrder == Members(MessageHeaderComp \o OrderDetailsComp)

TESTradeReport ==
    Members(MessageHeaderComp
        \o <<"securityID", "transactTime", "lastQty", "lastPx", "trdMatchID",
             "trdType", "tradeCondition", "multiLegReportingType",
             "multiLegPriceModel", "pad6", "nonDisclosedTradeVolume", "transBkdTime",
             "numberOfBuySides", "numberOfSellSides", "pad4">>)

TopOfBook ==
    Members(MessageHeaderComp
        \o <<"transactTime", "securityID", "bidPx", "offerPx", "bidSize",
             "offerSize", "numberOfBuyOrders", "numberOfSellOrders", "pad4">>)

TradeReport ==
    Members(MessageHeaderComp
        \o <<"securityID", "transactTime", "lastQty", "lastPx", "trdMatchID",
             "matchType", "matchSubType", "algorithmicTradeIndicator", "pad1",
             "tradeCondition", "pad6">>)

TradeReversal ==
    Members(MessageHeaderComp
        \o <<"securityID", "transactTime", "lastQty", "lastPx",
             "trdRegTSExecutionTime", "trdMatchID", "tradeCondition", "mDOriginType",
             "noMDEntries">>
        \o MDTradeEntryGrpComp)

members ==
    [AddComplexInstrument |-> AddComplexInstrument,
     AddFlexibleInstrument |-> AddFlexibleInstrument,
     InstrumentSummary |-> InstrumentSummary,
     AddScaledSimpleInstrument |-> AddScaledSimpleInstrument,
     PartialOrderExecution |-> PartialOrderExecution, AuctionBBO |-> AuctionBBO,
     FullOrderExecution |-> FullOrderExecution, TradeReversal |-> TradeReversal,
     AuctionClearingPrice |-> AuctionClearingPrice, CrossRequest |-> CrossRequest,
     ExecutionSummary |-> ExecutionSummary, Heartbeat |-> Heartbeat,
     InstrumentStateChange |-> InstrumentStateChange,
     MassInstrumentStateChange |-> MassInstrumentStateChange, OrderAdd |-> OrderAdd,
     OrderDelete |-> OrderDelete, OrderMassDelete |-> OrderMassDelete,
     TopOfBook |-> TopOfBook, OrderModify |-> OrderModify,
     OrderModifySamePrio |-> OrderModifySamePrio, PacketHeader |-> PacketHeader,
     SnapshotOrder |-> SnapshotOrder, ProductStateChange |-> ProductStateChange,
     ProductSummary |-> ProductSummary, QuoteRequest |-> QuoteRequest,
     TESTradeReport |-> TESTradeReport, TradeReport |-> TradeReport]
=============================================================================
