--------------------------- MODULE CmeV9Describe ----------------------------
(***************************************************************************)
(* The members of the messages of CME MDP 3.0, SBE schema version 9, in    *)
(* the order in which they are described, which is their order on the wire.*)
(* Composites are taken apart, except the decimals, which are one mantissa *)
(* each.                                                                   *)
(***************************************************************************)
EXTENDS WireLayout

messageHeader == <<"blockLength", "templateId", "schemaId", "version">>

MaturityMonthYear == <<"year", "month", "day", "week">>

ChannelReset4NoMDEntries == <<"applID">>

ChannelReset4 ==
    MembersAndGroups(<<"msg_size">> \o messageHeader
        \o <<"transactTime", "matchEventIndicator">>,
        <<ChannelReset4NoMDEntries>>)

AdminHeartbeat12 == Members(<<"msg_size">> \o messageHeader)

AdminLogin15 == Members(<<"msg_size">> \o messageHeader \o <<"heartBtInt">>)

AdminLogout16 == Members(<<"msg_size">> \o messageHeader \o <<"text">>)

MDInstrumentDefinitionFuture27NoEvents == <<"eventType", "eventTime">>

MDInstrumentDefinitionFuture27NoMDFeedTypes == <<"mDFeedType", "marketDepth">>

MDInstrumentDefinitionFuture27NoInstAttrib == <<"instAttribValue">>

MDInstrumentDefinitionFuture27NoLotTypeRules == <<"lotType", "minLotSize">>

MDInstrumentDefinitionFuture27 ==
    MembersAndGroups(<<"msg_size">> \o messageHeader
        \o <<"matchEventIndicator", "totNumReports", "securityUpdateAction",
             "lastUpdateTime", "mDSecurityTradingStatus", "applID", "marketSegmentID",
             "underlyingProduct", "securityExchange", "securityGroup", "asset",
             "symbol", "securityID", "securityType", "cFICode">>
        \o MaturityMonthYear
        \o <<"currency", "settlCurrency", "matchAlgorithm", "minTradeVol",
             "maxTradeVol", "minPriceIncrement", "displayFactor", "mainFraction",
             "subFraction", "priceDisplayFormat", "unitOfMeasure", "unitOfMeasureQty",
             "tradingReferencePrice", "settlPriceType", "openInterestQty",
             "clearedVolume", "highLimitPrice", "lowLimitPrice", "maxPriceVariation",
             "decayQuantity", "decayStartDate", "originalContractSize",
             "contractMultiplier", "contractMultiplierUnit", "flowScheduleType",
             "minPriceIncrementAmount", "userDefinedInstrument",
             "tradingReferenceDate">>,
        <<MDInstrumentDefinitionFuture27NoEvents,
          MDInstrumentDefinitionFuture27NoMDFeedTypes,
          MDInstrumentDefinitionFuture27NoInstAttrib,
          MDInstrumentDefinitionFuture27NoLotTypeRules>>)

MDInstrumentDefinitionSpread29NoEvents == <<"eventType", "eventTime">>

MDInstrumentDefinitionSpread29NoMDFeedTypes == <<"mDFeedType", "marketDepth">>

MDInstrumentDefinitionSpread29NoInstAttrib == <<"instAttribValue">>

MDInstrumentDefinitionSpread29NoLotTypeRules == <<"lotType", "minLotSize">>

MDInstrumentDefinitionSpread29NoLegs ==
    <<"legSecurityID", "legSide", "legRatioQty", "legPrice", "legOptionDelta">>

MDInstrumentDefinitionSpread29 ==
    MembersAndGroups(<<"msg_size">> \o messageHeader
        \o <<"matchEventIndicator", "totNumReports", "securityUpdateAction",
             "lastUpdateTime", "mDSecurityTradingStatus", "applID", "marketSegmentID",
             "underlyingProduct", "securityExchange", "securityGroup", "asset",
             "symbol", "securityID", "securityType", "cFICode">>
        \o MaturityMonthYear
        \o <<"currency", "securitySubType", "userDefinedInstrument",
             "matchAlgorithm", "minTradeVol", "maxTradeVol", "minPriceIncrement",
             "displayFactor", "priceDisplayFormat", "priceRatio", "tickRule",
             "unitOfMeasure", "tradingReferencePrice", "settlPriceType",
             "openInterestQty", "clearedVolume", "highLimitPrice", "lowLimitPrice",
             "maxPriceVariation", "mainFraction", "subFraction",
             "tradingReferenceDate">>,
        <<MDInstrumentDefinitionSpread29NoEvents,
          MDInstrumentDefinitionSpread29NoMDFeedTypes,
          MDInstrumentDefinitionSpread29NoInstAttrib,
          MDInstrumentDefinitionSpread29NoLotTypeRules,
          MDInstrumentDefinitionSpread29NoLegs>>)

SecurityStatus30 ==
    Members(<<"msg_size">> \o messageHeader
        \o <<"transactTime", "securityGroup", "asset", "securityID", "tradeDate",
             "matchEventIndicator", "securityTradingStatus", "haltReason",
             "securityTradingEvent">>)

MDIncrementalRefreshBook32NoMDEntries ==
    <<"mDEntryPx", "mDEntrySize", "securityID", "rptSeq", "numberOfOrders",
      "mDPriceLevel", "mDUpdateAction", "mDEntryType", "padding">>

MDIncrementalRefreshBook32NoOrderIDEntries ==
    <<"orderID", "mDOrderPriority", "mDDisplayQty", "referenceID",
      "orderUpdateAction", "padding">>

MDIncrementalRefreshBook32 ==
    MembersAndGroups(<<"msg_size">> \o messageHeader
        \o <<"transactTime", "matchEventIndicator", "block_padding">>,
        <<MDIncrementalRefreshBook32NoMDEntries,
          MDIncrementalRefreshBook32NoOrderIDEntries>>)

MDIncrementalRefreshDailyStatistics33NoMDEntries ==
    <<"mDEntryPx", "mDEntrySize", "securityID", "rptSeq", "tradingReferenceDate",
      "settlPriceType", "mDUpdateAction", "mDEntryType", "padding">>

MDIncrementalRefreshDailyStatistics33 ==
    MembersAndGroups(<<"msg_size">> \o messageHeader
        \o <<"transactTime", "matchEventIndicator", "block_padding">>,
        <<MDIncrementalRefreshDailyStatistics33NoMDEntries>>)

MDIncrementalRefreshLimitsBanding34NoMDEntries ==
    <<"highLimitPrice", "lowLimitPrice", "maxPriceVariation", "securityID", "rptSeq">>

MDIncrementalRefreshLimitsBanding34 ==
    MembersAndGroups(<<"msg_size">> \o messageHeader
        \o <<"transactTime", "matchEventIndicator", "block_padding">>,
        <<MDIncrementalRefreshLimitsBanding34NoMDEntries>>)

MDIncrementalRefreshSessionStatistics35NoMDEntries ==
    <<"mDEntryPx", "securityID", "rptSeq", "openCloseSettlFlag", "mDUpdateAction",
      "mDEntryType", "mDEntrySize", "padding">>

MDIncrementalRefreshSessionStatistics35 ==
    MembersAndGroups(<<"msg_size">> \o messageHeader
        \o <<"transactTime", "matchEventIndicator", "block_padding">>,
        <<MDIncrementalRefreshSessionStatistics35NoMDEntries>>)

MDIncrementalRefreshVolume37NoMDEntries ==
    <<"mDEntrySize", "securityID", "rptSeq", "mDUpdateAction", "padding">>

MDIncrementalRefreshVolume37 ==
    MembersAndGroups(<<"msg_size">> \o messageHeader
        \o <<"transactTime", "matchEventIndicator", "block_padding">>,
        <<MDIncrementalRefreshVolume37NoMDEntries>>)

SnapshotFullRefresh38NoMDEntries ==
    <<"mDEntryPx", "mDEntrySize", "numberOfOrders", "mDPriceLevel",
      "tradingReferenceDate", "openCloseSettlFlag", "settlPriceType", "mDEntryType">>

SnapshotFullRefresh38 ==
    MembersAndGroups(<<"msg_size">> \o messageHeader
        \o <<"lastMsgSeqNumProcessed", "totNumReports", "securityID", "rptSeq",
             "transactTime", "lastUpdateTime", "tradeDate", "mDSecurityTradingStatus",
             "highLimitPrice", "lowLimitPrice", "maxPriceVariation">>,
        <<SnapshotFullRefresh38NoMDEntries>>)

QuoteRequest39NoRelatedSym ==
    <<"symbol", "securityID", "orderQty", "quoteType", "side", "padding">>

QuoteRequest39 ==
    MembersAndGroups(<<"msg_size">> \o messageHeader
        \o <<"transactTime", "quoteReqID", "matchEventIndicator", "block_padding">>,
        <<QuoteRequest39NoRelatedSym>>)

MDInstrumentDefinitionOption41NoEvents == <<"eventType", "eventTime">>

MDInstrumentDefinitionOption41NoMDFeedTypes == <<"mDFeedType", "marketDepth">>

MDInstrumentDefinitionOption41NoInstAttrib == <<"instAttribValue">>

MDInstrumentDefinitionOption41NoLotTypeRules == <<"lotType", "minLotSize">>

MDInstrumentDefinitionOption41NoUnderlyings ==
    <<"underlyingSecurityID", "underlyingSymbol">>

MDInstrumentDefinitionOption41NoRelatedInstruments ==
    <<"relatedSecurityID", "relatedSymbol">>

MDInstrumentDefinitionOption41 ==
    MembersAndGroups(<<"msg_size">> \o messageHeader
        \o <<"matchEventIndicator", "totNumReports", "securityUpdateAction",
             "lastUpdateTime", "mDSecurityTradingStatus", "applID", "marketSegmentID",
             "underlyingProduct", "securityExchange", "securityGroup", "asset",
             "symbol", "securityID", "securityType", "cFICode", "putOrCall">>
        \o MaturityMonthYear
        \o <<"currency", "strikePrice", "strikeCurrency", "settlCurrency",
             "minCabPrice", "matchAlgorithm", "minTradeVol", "maxTradeVol",
             "minPriceIncrement", "minPriceIncrementAmount", "displayFactor",
             "tickRule", "mainFraction", "subFraction", "priceDisplayFormat",
             "unitOfMeasure", "unitOfMeasureQty", "tradingReferencePrice",
             "settlPriceType", "clearedVolume", "openInterestQty", "lowLimitPrice",
             "highLimitPrice", "userDefinedInstrument", "tradingReferenceDate">>,
        <<MDInstrumentDefinitionOption41NoEvents,
          MDInstrumentDefinitionOption41NoMDFeedTypes,
          MDInstrumentDefinitionOption41NoInstAttrib,
          MDInstrumentDefinitionOption41NoLotTypeRules,
          MDInstrumentDefinitionOption41NoUnderlyings,
          MDInstrumentDefinitionOption41NoRelatedInstruments>>)

MDIncrementalRefreshTradeSummary42NoMDEntries ==
    <<"mDEntryPx", "mDEntrySize", "securityID", "rptSeq", "numberOfOrders",
      "aggressorSide", "mDUpdateAction", "mDTradeEntryID", "padding">>

MDIncrementalRefreshTradeSummary42NoOrderIDEntries ==
    <<"orderID", "lastQty", "padding">>

MDIncrementalRefreshTradeSummary42 ==
    MembersAndGroups(<<"msg_size">> \o messageHeader
        \o <<"transactTime", "matchEventIndicator", "block_padding">>,
        <<MDIncrementalRefreshTradeSummary42NoMDEntries,
          MDIncrementalRefreshTradeSummary42NoOrderIDEntries>>)

MDIncrementalRefreshOrderBook43NoMDEntries ==
    <<"orderID", "mDOrderPriority", "mDEntryPx", "mDDisplayQty", "securityID",
      "mDUpdateAction", "mDEntryType", "padding">>

MDIncrementalRefreshOrderBook43 ==
    MembersAndGroups(<<"msg_size">> \o messageHeader
        \o <<"transactTime", "matchEventIndicator", "block_padding">>,
        <<MDIncrementalRefreshOrderBook43NoMDEntries>>)

SnapshotFullRefreshOrderBook44NoMDEntries ==
    <<"orderID", "mDOrderPriority", "mDEntryPx", "mDDisplayQty", "mDEntryType">>

SnapshotFullRefreshOrderBook44 ==
    MembersAndGroups(<<"msg_size">> \o messageHeader
        \o <<"lastMsgSeqNumProcessed", "totNumReports", "securityID", "noChunks",
             "currentChunk", "transactTime">>,
        <<SnapshotFullRefreshOrderBook44NoMDEntries>>)

MDIncrementalRefreshBook46NoMDEntries ==
    <<"mDEntryPx", "mDEntrySize", "securityID", "rptSeq", "numberOfOrders",
      "mDPriceLevel", "mDUpdateAction", "mDEntryType", "padding">>

MDIncrementalRefreshBook46NoOrderIDEntries ==
    <<"orderID", "mDOrderPriority", "mDDisplayQty", "referenceID",
      "orderUpdateAction", "padding">>

MDIncrementalRefreshBook46 ==
    MembersAndGroups(<<"msg_size">> \o messageHeader
        \o <<"transactTime", "matchEventIndicator", "block_padding">>,
        <<MDIncrementalRefreshBook46NoMDEntries,
          MDIncrementalRefreshBook46NoOrderIDEntries>>)

MDIncrementalRefreshOrderBook47NoMDEntries ==
    <<"orderID", "mDOrderPriority", "mDEntryPx", "mDDisplayQty", "securityID",
      "mDUpdateAction", "mDEntryType", "padding">>

MDIncrementalRefreshOrderBook47 ==
    MembersAndGroups(<<"msg_size">> \o messageHeader
        \o <<"transactTime", "matchEventIndicator", "block_padding">>,
        <<MDIncrementalRefreshOrderBook47NoMDEntries>>)

MDIncrementalRefreshTradeSummary48NoMDEntries ==
    <<"mDEntryPx", "mDEntrySize", "securityID", "rptSeq", "numberOfOrders",
      "aggressorSide", "mDUpdateAction", "mDTradeEntryID", "padding">>

MDIncrementalRefreshTradeSummary48NoOrderIDEntries ==
    <<"orderID", "lastQty", "padding">>

MDIncrementalRefreshTradeSummary48 ==
    MembersAndGroups(<<"msg_size">> \o messageHeader
        \o <<"transactTime", "matchEventIndicator", "block_padding">>,
        <<MDIncrementalRefreshTradeSummary48NoMDEntries,
          MDIncrementalRefreshTradeSummary48NoOrderIDEntries>>)

MDIncrementalRefreshDailyStatistics49NoMDEntries ==
    <<"mDEntryPx", "mDEntrySize", "securityID", "rptSeq", "tradingReferenceDate",
      "settlPriceType", "mDUpdateAction", "mDEntryType", "padding">>

MDIncrementalRefreshDailyStatistics49 ==
    MembersAndGroups(<<"msg_size">> \o messageHeader
        \o <<"transactTime", "matchEventIndicator", "block_padding">>,
        <<MDIncrementalRefreshDailyStatistics49NoMDEntries>>)

MDIncrementalRefreshLimitsBanding50NoMDEntries ==
    <<"highLimitPrice", "lowLimitPrice", "maxPriceVariation", "securityID", "rptSeq">>

MDIncrementalRefreshLimitsBanding50 ==
    MembersAndGroups(<<"msg_size">> \o messageHeader
        \o <<"transactTime", "matchEventIndicator", "block_padding">>,
        <<MDIncrementalRefreshLimitsBanding50NoMDEntries>>)

MDIncrementalRefreshSessionStatistics51NoMDEntries ==
    <<"mDEntryPx", "securityID", "rptSeq", "openCloseSettlFlag", "mDUpdateAction",
      "mDEntryType", "mDEntrySize", "padding">>

MDIncrementalRefreshSessionStatistics51 ==
    MembersAndGroups(<<"msg_size">> \o messageHeader
        \o <<"transactTime", "matchEventIndicator", "block_padding">>,
        <<MDIncrementalRefreshSessionStatistics51NoMDEntries>>)

SnapshotFullRefresh52NoMDEntries ==
    <<"mDEntryPx", "mDEntrySize", "numberOfOrders", "mDPriceLevel",
      "tradingReferenceDate", "openCloseSettlFlag", "settlPriceType", "mDEntryType">>

SnapshotFullRefresh52 ==
    MembersAndGroups(<<"msg_size">> \o messageHeader
        \o <<"lastMsgSeqNumProcessed", "totNumReports", "securityID", "rptSeq",
             "transactTime", "lastUpdateTime", "tradeDate", "mDSecurityTradingStatus",
             "highLimitPrice", "lowLimitPrice", "maxPriceVariation">>,
        <<SnapshotFullRefresh52NoMDEntries>>)

SnapshotFullRefreshOrderBook53NoMDEntries ==
    <<"orderID", "mDOrderPriority", "mDEntryPx", "mDDisplayQty", "mDEntryType">>

SnapshotFullRefreshOrderBook53 ==
    MembersAndGroups(<<"msg_size">> \o messageHeader
        \o <<"lastMsgSeqNumProcessed", "totNumReports", "securityID", "noChunks",
             "currentChunk", "transactTime">>,
        <<SnapshotFullRefreshOrderBook53NoMDEntries>>)

MDInstrumentDefinitionFuture54NoEvents == <<"eventType", "eventTime">>

MDInstrumentDefinitionFuture54NoMDFeedTypes == <<"mDFeedType", "marketDepth">>

MDInstrumentDefinitionFuture54NoInstAttrib == <<"instAttribValue">>

MDInstrumentDefinitionFuture54NoLotTypeRules == <<"lotType", "minLotSize">>

MDInstrumentDefinitionFuture54 ==
    MembersAndGroups(<<"msg_size">> \o messageHeader
        \o <<"matchEventIndicator", "totNumReports", "securityUpdateAction",
             "lastUpdateTime", "mDSecurityTradingStatus", "applID", "marketSegmentID",
             "underlyingProduct", "securityExchange", "securityGroup", "asset",
             "symbol", "securityID", "securityType", "cFICode">>
        \o MaturityMonthYear
        \o <<"currency", "settlCurrency", "matchAlgorithm", "minTradeVol",
             "maxTradeVol", "minPriceIncrement", "displayFactor", "mainFraction",
             "subFraction", "priceDisplayFormat", "unitOfMeasure", "unitOfMeasureQty",
             "tradingReferencePrice", "settlPriceType", "openInterestQty",
             "clearedVolume", "highLimitPrice", "lowLimitPrice", "maxPriceVariation",
             "decayQuantity", "decayStartDate", "originalContractSize",
             "contractMultiplier", "contractMultiplierUnit", "flowScheduleType",
             "minPriceIncrementAmount", "userDefinedInstrument",
             "tradingReferenceDate">>,
        <<MDInstrumentDefinitionFuture54NoEvents,
          MDInstrumentDefinitionFuture54NoMDFeedTypes,
          MDInstrumentDefinitionFuture54NoInstAttrib,
          MDInstrumentDefinitionFuture54NoLotTypeRules>>)

MDInstrumentDefinitionOption55NoEvents == <<"eventType", "eventTime">>

MDInstrumentDefinitionOption55NoMDFeedTypes == <<"mDFeedType", "marketDepth">>

MDInstrumentDefinitionOption55NoInstAttrib == <<"instAttribValue">>

MDInstrumentDefinitionOption55NoLotTypeRules == <<"lotType", "minLotSize">>

MDInstrumentDefinitionOption55NoUnderlyings ==
    <<"underlyingSecurityID", "underlyingSymbol">>

MDInstrumentDefinitionOption55NoRelatedInstruments ==
    <<"relatedSecurityID", "relatedSymbol">>

MDInstrumentDefinitionOption55 ==
    MembersAndGroups(<<"msg_size">> \o messageHeader
        \o <<"matchEventIndicator", "totNumReports", "securityUpdateAction",
             "lastUpdateTime", "mDSecurityTradingStatus", "applID", "marketSegmentID",
             "underlyingProduct", "securityExchange", "securityGroup", "asset",
             "symbol", "securityID", "securityType", "cFICode", "putOrCall">>
        \o MaturityMonthYear
        \o <<"currency", "strikePrice", "strikeCurrency", "settlCurrency",
             "minCabPrice", "matchAlgorithm", "minTradeVol", "maxTradeVol",
             "minPriceIncrement", "minPriceIncrementAmount", "displayFactor",
             "tickRule", "mainFraction", "subFraction", "priceDisplayFormat",
             "unitOfMeasure", "unitOfMeasureQty", "tradingReferencePrice",
             "settlPriceType", "clearedVolume", "openInterestQty", "lowLimitPrice",
             "highLimitPrice", "userDefinedInstrument", "tradingReferenceDate">>,
        <<MDInstrumentDefinitionOption55NoEvents,
          MDInstrumentDefinitionOption55NoMDFeedTypes,
          MDInstrumentDefinitionOption55NoInstAttrib,
          MDInstrumentDefinitionOption55NoLotTypeRules,
          MDInstrumentDefinitionOption55NoUnderlyings,
          MDInstrumentDefinitionOption55NoRelatedInstruments>>)

MDInstrumentDefinitionSpread56NoEvents == <<"eventType", "eventTime">>

MDInstrumentDefinitionSpread56NoMDFeedTypes == <<"mDFeedType", "marketDepth">>

MDInstrumentDefinitionSpread56NoInstAttrib == <<"instAttribValue">>

MDInstrumentDefinitionSpread56NoLotTypeRules == <<"lotType", "minLotSize">>

MDInstrumentDefinitionSpread56NoLegs ==
    <<"legSecurityID", "legSide", "legRatioQty", "legPrice", "legOptionDelta">>

MDInstrumentDefinitionSpread56 ==
    MembersAndGroups(<<"msg_size">> \o messageHeader
        \o <<"matchEventIndicator", "totNumReports", "securityUpdateAction",
             "lastUpdateTime", "mDSecurityTradingStatus", "applID", "marketSegmentID",
             "underlyingProduct", "securityExchange", "securityGroup", "asset",
             "symbol", "securityID", "securityType", "cFICode">>
        \o MaturityMonthYear
        \o <<"currency", "securitySubType", "userDefinedInstrument",
             "matchAlgorithm", "minTradeVol", "maxTradeVol", "minPriceIncrement",
             "displayFactor", "priceDisplayFormat", "priceRatio", "tickRule",
             "unitOfMeasure", "tradingReferencePrice", "settlPriceType",
             "openInterestQty", "clearedVolume", "highLimitPrice", "lowLimitPrice",
             "maxPriceVariation", "mainFraction", "subFraction",
             "tradingReferenceDate">>,
        <<MDInstrumentDefinitionSpread56NoEvents,
          MDInstrumentDefinitionSpread56NoMDFeedTypes,
          MDInstrumentDefinitionSpread56NoInstAttrib,
          MDInstrumentDefinitionSpread56NoLotTypeRules,
          MDInstrumentDefinitionSpread56NoLegs>>)

members ==
    [AdminHeartbeat12 |-> AdminHeartbeat12, AdminLogin15 |-> AdminLogin15,
     AdminLogout16 |-> AdminLogout16,
     MDInstrumentDefinitionFuture27 |-> MDInstrumentDefinitionFuture27,
     MDInstrumentDefinitionSpread29 |-> MDInstrumentDefinitionSpread29,
     SecurityStatus30 |-> SecurityStatus30,
     MDIncrementalRefreshBook32 |-> MDIncrementalRefreshBook32,
     MDIncrementalRefreshDailyStatistics33 |-> MDIncrementalRefreshDailyStatistics33,
     MDIncrementalRefreshLimitsBanding34 |-> MDIncrementalRefreshLimitsBanding34,
     MDIncrementalRefreshSessionStatistics35 |-> MDIncrementalRefreshSessionStatistics35,
     MDIncrementalRefreshVolume37 |-> MDIncrementalRefreshVolume37,
     SnapshotFullRefresh38 |-> SnapshotFullRefresh38, QuoteRequest39 |-> QuoteRequest39,
     ChannelReset4 |-> ChannelReset4,
     MDInstrumentDefinitionOption41 |-> MDInstrumentDefinitionOption41,
     MDIncrementalRefreshTradeSummary42 |-> MDIncrementalRefreshTradeSummary42,
     MDIncrementalRefreshOrderBook43 |-> MDIncrementalRefreshOrderBook43,
     SnapshotFullRefreshOrderBook44 |-> SnapshotFullRefreshOrderBook44,
     MDIncrementalRefreshBook46 |-> MDIncrementalRefreshBook46,
     MDIncrementalRefreshOrderBook47 |-> MDIncrementalRefreshOrderBook47,
     MDIncrementalRefreshTradeSummary48 |-> MDIncrementalRefreshTradeSummary48,
     MDIncrementalRefreshDailyStatistics49 |-> MDIncrementalRefreshDailyStatistics49,
     MDIncrementalRefreshLimitsBanding50 |-> MDIncrementalRefreshLimitsBanding50,
     MDIncrementalRefreshSessionStatistics51 |-> MDIncrementalRefreshSessionStatistics51,
     SnapshotFullRefresh52 |-> SnapshotFullRefresh52,
     SnapshotFullRefreshOrderBook53 |-> SnapshotFullRefreshOrderBook53,
     MDInstrumentDefinitionFuture54 |-> MDInstrumentDefinitionFuture54,
     MDInstrumentDefinitionOption55 |-> MDInstrumentDefinitionOption55,
     MDInstrumentDefinitionSpread56 |-> MDInstrumentDefinitionSpread56]
=============================================================================
