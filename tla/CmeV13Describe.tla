--------------------------- MODULE CmeV13Describe ---------------------------
(***************************************************************************)
(* The members of the messages of CME MDP 3.0, SBE schema version 13, in   *)
(* the order in which they are described, which is their order on the wire.*)
(* Composites are taken apart, except the decimals, which are one mantissa *)
(* each.                                                                   *)
(***************************************************************************)
EXTENDS WireLayout

messageHeader == <<"blockLength", "templateId", "schemaId", "version">>

MaturityMonthYear == <<"year", "month", "day", "week">>

ChannelReset4NoMDEntries == <<"applID">>

ChannelReset4 ==
    MembersAndGroups(<<"msg_size">> \o messageHeader
        \o <<"transactTime", "matchEventIndicator">>,
        <<ChannelReset4NoMDEntries>>)

AdminHeartbeat12 == Members(<<"msg_size">> \o messageHeader)

AdminLogin15 == Members(<<"msg_size">> \o messageHeader \o <<"heartBtInt">>)

AdminLogout16 == Members(<<"msg_size">> \o messageHeader \o <<"text">>)

SecurityStatus30 ==
    Members(<<"msg_size">> \o messageHeader
        \o <<"transactTime", "securityGroup", "asset", "securityID", "tradeDate",
             "matchEventIndicator", "securityTradingStatus", "haltReason",
             "securityTradingEvent">>)

MDIncrementalRefreshVolume37NoMDEntries ==
    <<"mDEntrySize", "securityID", "rptSeq", "mDUpdateAction", "padding">>

MDIncrementalRefreshVolume37 ==
    MembersAndGroups(<<"msg_size">> \o messageHeader
        \o <<"transactTime", "matchEventIndicator", "block_padding">>,
        <<MDIncrementalRefreshVolume37NoMDEntries>>)

QuoteRequest39NoRelatedSym ==
    <<"symbol", "securityID", "orderQty", "quoteType", "side", "padding">>

QuoteRequest39 ==
    MembersAndGroups(<<"msg_size">> \o messageHeader
        \o <<"transactTime", "quoteReqID", "matchEventIndicator", "block_padding">>,
        <<QuoteRequest39NoRelatedSym>>)

MDIncrementalRefreshBook46NoMDEntries ==
    <<"mDEntryPx", "mDEntrySize", "securityID", "rptSeq", "numberOfOrders",
      "mDPriceLevel", "mDUpdateAction", "mDEntryType", "tradeableSize", "padding">>

MDIncrementalRefreshBook46NoOrderIDEntries ==
    <<"orderID", "mDOrderPriority", "mDDisplayQty", "referenceID",
      "orderUpdateAction", "padding">>

MDIncrementalRefreshBook46 ==
    MembersAndGroups(<<"msg_size">> \o messageHeader
        \o <<"transactTime", "matchEventIndicator", "block_padding">>,
        <<MDIncrementalRefreshBook46NoMDEntries,
          MDIncrementalRefreshBook46NoOrderIDEntries>>)

MDIncrementalRefreshOrderBook47NoMDEntries ==
    <<"orderID", "mDOrderPriority", "mDEntryPx", "mDDisplayQty", "securityID",
      "mDUpdateAction", "mDEntryType", "padding">>

MDIncrementalRefreshOrderBook47 ==
    MembersAndGroups(<<"msg_size">> \o messageHeader
        \o <<"transactTime", "matchEventIndicator", "block_padding">>,
        <<MDIncrementalRefreshOrderBook47NoMDEntries>>)

MDIncrementalRefreshTradeSummary48NoMDEntries ==
    <<"mDEntryPx", "mDEntrySize", "securityID", "rptSeq", "numberOfOrders",
      "aggressorSide", "mDUpdateAction", "mDTradeEntryID", "padding">>

MDIncrementalRefreshTradeSummary48NoOrderIDEntries ==
    <<"orderID", "lastQty", "padding">>

MDIncrementalRefreshTradeSummary48 ==
    MembersAndGroups(<<"msg_size">> \o messageHeader
        \o <<"transactTime", "matchEventIndicator", "block_padding">>,
        <<MDIncrementalRefreshTradeSummary48NoMDEntries,
          MDIncrementalRefreshTradeSummary48NoOrderIDEntries>>)

MDIncrementalRefreshDailyStatistics49NoMDEntries ==
    <<"mDEntryPx", "mDEntrySize", "securityID", "rptSeq", "tradingReferenceDate",
      "settlPriceType", "mDUpdateAction", "mDEntryType", "padding">>

MDIncrementalRefreshDailyStatistics49 ==
    MembersAndGroups(<<"msg_size">> \o messageHeader
        \o <<"transactTime", "matchEventIndicator", "block_padding">>,
        <<MDIncrementalRefreshDailyStatistics49NoMDEntries>>)

MDIncrementalRefreshLimitsBanding50NoMDEntries ==
    <<"highLimitPrice", "lowLimitPrice", "maxPriceVariation", "securityID", "rptSeq">>

MDIncrementalRefreshLimitsBanding50 ==
    MembersAndGroups(<<"msg_size">> \o messageHeader
        \o <<"transactTime", "matchEventIndicator", "block_padding">>,
        <<MDIncrementalRefreshLimitsBanding50NoMDEntries>>)

MDIncrementalRefreshSessionStatistics51NoMDEntries ==
    <<"mDEntryPx", "securityID", "rptSeq", "openCloseSettlFlag", "mDUpdateAction",
      "mDEntryType", "mDEntrySize", "padding">>

MDIncrementalRefreshSessionStatistics51 ==
    MembersAndGroups(<<"msg_size">> \o messageHeader
        \o <<"transactTime", "matchEventIndicator", "block_padding">>,
        <<MDIncrementalRefreshSessionStatistics51NoMDEntries>>)

SnapshotFullRefresh52NoMDEntries ==
    <<"mDEntryPx", "mDEntrySize", "numberOfOrders", "mDPriceLevel",
      "tradingReferenceDate", "openCloseSettlFlag", "settlPriceType", "mDEntryType">>

SnapshotFullRefresh52 ==
    MembersAndGroups(<<"msg_size">> \o messageHeader
        \o <<"lastMsgSeqNumProcessed", "totNumReports", "securityID", "rptSeq",
             "transactTime", "lastUpdateTime", "tradeDate", "mDSecurityTradingStatus",
             "highLimitPrice", "lowLimitPrice", "maxPriceVariation">>,
        <<SnapshotFullRefresh52NoMDEntries>>)

SnapshotFullRefreshOrderBook53NoMDEntries ==
    <<"orderID", "mDOrderPriority", "mDEntryPx", "mDDisplayQty", "mDEntryType">>

SnapshotFullRefreshOrderBook53 ==
    MembersAndGroups(<<"msg_size">> \o messageHeader
        \o <<"lastMsgSeqNumProcessed", "totNumReports", "securityID", "noChunks",
             "currentChunk", "transactTime">>,
        <<SnapshotFullRefreshOrderBook53NoMDEntries>>)

MDInstrumentDefinitionFuture54NoEvents == <<"eventType", "eventTime">>

MDInstrumentDefinitionFuture54NoMDFeedTypes == <<"mDFeedType", "marketDepth">>

MDInstrumentDefinitionFuture54NoInstAttrib == <<"instAttribValue">>

MDInstrumentDefinitionFuture54NoLotTypeRules == <<"lotType", "minLotSize">>

MDInstrumentDefinitionFuture54 ==
    MembersAndGroups(<<"msg_size">> \o messageHeader
        \o <<"matchEventIndicator", "totNumReports", "securityUpdateAction",
             "lastUpdateTime", "mDSecurityTradingStatus", "applID", "marketSegmentID",
             "underlyingProduct", "securityExchange", "securityGroup", "asset",
             "symbol", "securityID", "securityType", "cFICode">>
        \o MaturityMonthYear
        \o <<"currency", "settlCurrency", "matchAlgorithm", "minTradeVol",
             "maxTradeVol", "minPriceIncrement", "displayFactor", "mainFraction",
             "subFraction", "priceDisplayFormat", "unitOfMeasure", "unitOfMeasureQty",
             "tradingReferencePrice", "settlPriceType", "openInterestQty",
             "clearedVolume", "highLimitPrice", "lowLimitPrice", "maxPriceVariation",
             "decayQuantity", "decayStartDate", "originalContractSize",
             "contractMultiplier", "contractMultiplierUnit", "flowScheduleType",
             "minPriceIncrementAmount", "userDefinedInstrument",
             "tradingReferenceDate", "instrumentGUID">>,
        <<MDInstrumentDefinitionFuture54NoEvents,
          MDInstrumentDefinitionFuture54NoMDFeedTypes,
          MDInstrumentDefinitionFuture54NoInstAttrib,
          MDInstrumentDefinitionFuture54NoLotTypeRules>>)

MDInstrumentDefinitionOption55NoEvents == <<"eventType", "eventTime">>

MDInstrumentDefinitionOption55NoMDFeedTypes == <<"mDFeedType", "marketDepth">>

MDInstrumentDefinitionOption55NoInstAttrib == <<"instAttribValue">>

MDInstrumentDefinitionOption55NoLotTypeRules == <<"lotType", "minLotSize">>

MDInstrumentDefinitionOption55NoUnderlyings ==
    <<"underlyingSecurityID", "underlyingSymbol">>

MDInstrumentDefinitionOption55NoRelatedInstruments ==
    <<"relatedSecurityID", "relatedSymbol">>

MDInstrumentDefinitionOption55 ==
    MembersAndGroups(<<"msg_size">> \o messageHeader
        \o <<"matchEventIndicator", "totNumReports", "securityUpdateAction",
             "lastUpdateTime", "mDSecurityTradingStatus", "applID", "marketSegmentID",
             "underlyingProduct", "securityExchange", "securityGroup", "asset",
             "symbol", "securityID", "securityType", "cFICode", "putOrCall">>
        \o MaturityMonthYear
        \o <<"currency", "strikePrice", "strikeCurrency", "settlCurrency",
             "minCabPrice", "matchAlgorithm", "minTradeVol", "maxTradeVol",
             "minPriceIncrement", "minPriceIncrementAmount", "displayFactor",
             "tickRule", "mainFraction", "subFraction", "priceDisplayFormat",
             "unitOfMeasure", "unitOfMeasureQty", "tradingReferencePrice",
             "settlPriceType", "clearedVolume", "openInterestQty", "lowLimitPrice",
             "highLimitPrice", "userDefinedInstrument", "tradingReferenceDate",
             "instrumentGUID">>,
        <<MDInstrumentDefinitionOption55NoEvents,
          MDInstrumentDefinitionOption55NoMDFeedTypes,
          MDInstrumentDefinitionOption55NoInstAttrib,
          MDInstrumentDefinitionOption55NoLotTypeRules,
          MDInstrumentDefinitionOption55NoUnderlyings,
          MDInstrumentDefinitionOption55NoRelatedInstruments>>)

MDInstrumentDefinitionSpread56NoEvents == <<"eventType", "eventTime">>

MDInstrumentDefinitionSpread56NoMDFeedTypes == <<"mDFeedType", "marketDepth">>

MDInstrumentDefinitionSpread56NoInstAttrib == <<"instAttribValue">>

MDInstrumentDefinitionSpread56NoLotTypeRules == <<"lotType", "minLotSize">>

MDInstrumentDefinitionSpread56NoLegs ==
    <<"legSecurityID", "legSide", "legRatioQty", "legPrice", "legOptionDelta">>

MDInstrumentDefinitionSpread56 ==
    MembersAndGroups(<<"msg_size">> \o messageHeader
        \o <<"matchEventIndicator", "totNumReports", "securityUpdateAction",
             "lastUpdateTime", "mDSecurityTradingStatus", "applID", "marketSegmentID",
             "underlyingProduct", "securityExchange", "securityGroup", "asset",
             "symbol", "securityID", "securityType", "cFICode">>
        \o MaturityMonthYear
        \o <<"currency", "securitySubType", "userDefinedInstrument",
             "matchAlgorithm", "minTradeVol", "maxTradeVol", "minPriceIncrement",
             "displayFactor", "priceDisplayFormat", "priceRatio", "tickRule",
             "unitOfMeasure", "tradingReferencePrice", "settlPriceType",
             "openInterestQty", "clearedVolume", "highLimitPrice", "lowLimitPrice",
             "maxPriceVariation", "mainFraction", "subFraction",
             "tradingReferenceDate", "priceQuoteMethod", "riskSet", "marketSet",
             "instrumentGUID", "financialInstrumentFullName">>,
        <<MDInstrumentDefinitionSpread56NoEvents,
          MDInstrumentDefinitionSpread56NoMDFeedTypes,
          MDInstrumentDefinitionSpread56NoInstAttrib,
          MDInstrumentDefinitionSpread56NoLotTypeRules,
          MDInstrumentDefinitionSpread56NoLegs>>)

MDInstrumentDefinitionFixedIncome57NoEvents == <<"eventType", "eventTime">>

MDInstrumentDefinitionFixedIncome57NoMDFeedTypes == <<"mDFeedType", "marketDepth">>

MDInstrumentDefinitionFixedIncome57NoInstAttrib == <<"instAttribValue">>

MDInstrumentDefinitionFixedIncome57NoLotTypeRules == <<"lotType", "minLotSize">>

MDInstrumentDefinitionFixedIncome57 ==
    MembersAndGroups(<<"msg_size">> \o messageHeader
        \o <<"matchEventIndicator", "totNumReports", "securityUpdateAction",
             "lastUpdateTime", "mDSecurityTradingStatus", "applID", "marketSegmentID",
             "underlyingProduct", "securityExchange", "securityGroup", "asset",
             "symbol", "securityID", "securityType", "cFICode", "currency",
             "settlCurrency", "matchAlgorithm", "minTradeVol", "maxTradeVol",
             "minPriceIncrement", "displayFactor", "mainFraction", "subFraction",
             "priceDisplayFormat", "unitOfMeasure", "unitOfMeasureQty",
             "tradingReferencePrice", "tradingReferenceDate", "highLimitPrice",
             "lowLimitPrice", "maxPriceVariation", "minPriceIncrementAmount",
             "issueDate", "datedDate", "maturityDate", "couponRate", "parValue",
             "couponFrequencyUnit", "couponFrequencyPeriod", "couponDayCount",
             "countryOfIssue", "issuer", "financialInstrumentFullName",
             "securityAltID", "securityAltIDSource", "priceQuoteMethod",
             "partyRoleClearingOrg", "userDefinedInstrument", "riskSet", "marketSet",
             "instrumentGUID">>,
        <<MDInstrumentDefinitionFixedIncome57NoEvents,
          MDInstrumentDefinitionFixedIncome57NoMDFeedTypes,
          MDInstrumentDefinitionFixedIncome57NoInstAttrib,
          MDInstrumentDefinitionFixedIncome57NoLotTypeRules>>)

MDInstrumentDefinitionRepo58NoEvents == <<"eventType", "eventTime">>

MDInstrumentDefinitionRepo58NoMDFeedTypes == <<"mDFeedType", "marketDepth">>

MDInstrumentDefinitionRepo58NoInstAttrib == <<"instAttribValue">>

MDInstrumentDefinitionRepo58NoLotTypeRules == <<"lotType", "minLotSize">>

MDInstrumentDefinitionRepo58NoUnderlyings ==
    <<"underlyingSymbol", "underlyingSecurityID", "underlyingSecurityAltID",
      "underlyingSecurityAltIDSource", "underlyingFinancialInstrumentFullName",
      "underlyingSecurityType", "underlyingCountryOfIssue", "underlyingIssuer",
      "underlyingMaxLifeTime", "underlyingMinDaysToMaturity",
      "underlyingInstrumentGUID", "underlyingMaturityDate">>

MDInstrumentDefinitionRepo58NoRelatedInstruments ==
    <<"relatedSecurityID", "relatedSymbol", "relatedInstrumentGUID">>

MDInstrumentDefinitionRepo58NoBrokenDates ==
    <<"brokenDateGUID", "brokenDateSecurityID", "brokenDateStart", "brokenDateEnd">>

MDInstrumentDefinitionRepo58 ==
    MembersAndGroups(<<"msg_size">> \o messageHeader
        \o <<"matchEventIndicator", "totNumReports", "securityUpdateAction",
             "lastUpdateTime", "mDSecurityTradingStatus", "applID", "marketSegmentID",
             "underlyingProduct", "securityExchange", "securityGroup", "asset",
             "symbol", "securityID", "securityType", "cFICode", "currency",
             "settlCurrency", "matchAlgorithm", "minTradeVol", "maxTradeVol",
             "minPriceIncrement", "displayFactor", "unitOfMeasure",
             "unitOfMeasureQty", "tradingReferencePrice", "tradingReferenceDate",
             "highLimitPrice", "lowLimitPrice", "maxPriceVariation",
             "financialInstrumentFullName", "partyRoleClearingOrg", "startDate",
             "endDate", "terminationType", "securitySubType", "moneyOrPar",
             "maxNoOfSubstitutions", "priceQuoteMethod", "userDefinedInstrument",
             "riskSet", "marketSet", "instrumentGUID", "termCode",
             "brokenDateTermType">>,
        <<MDInstrumentDefinitionRepo58NoEvents,
          MDInstrumentDefinitionRepo58NoMDFeedTypes,
          MDInstrumentDefinitionRepo58NoInstAttrib,
          MDInstrumentDefinitionRepo58NoLotTypeRules,
          MDInstrumentDefinitionRepo58NoUnderlyings,
          MDInstrumentDefinitionRepo58NoRelatedInstruments,
          MDInstrumentDefinitionRepo58NoBrokenDates>>)

SnapshotRefreshTopOrders59NoMDEntries ==
    <<"orderID", "mDOrderPriority", "mDEntryPx", "mDDisplayQty", "mDEntryType">>

SnapshotRefreshTopOrders59 ==
    MembersAndGroups(<<"msg_size">> \o messageHeader
        \o <<"transactTime", "matchEventIndicator", "securityID">>,
        <<SnapshotRefreshTopOrders59NoMDEntries>>)

SecurityStatusWorkup60NoOrderIDEntries ==
    <<"orderID", "side", "aggressorIndicator">>

SecurityStatusWorkup60 ==
    MembersAndGroups(<<"msg_size">> \o messageHeader
        \o <<"transactTime", "mDEntryPx", "securityID", "matchEventIndicator",
             "tradeDate", "tradeLinkID", "securityTradingStatus", "haltReason",
             "securityTradingEvent">>,
        <<SecurityStatusWorkup60NoOrderIDEntries>>)

SnapshotFullRefreshTCP61NoMDEntries ==
    <<"mDEntryPx", "mDEntrySize", "tradeableSize", "numberOfOrders", "mDPriceLevel",
      "openCloseSettlFlag", "mDEntryType", "tradingReferenceDate", "settlPriceType">>

SnapshotFullRefreshTCP61 ==
    MembersAndGroups(<<"msg_size">> \o messageHeader
        \o <<"transactTime", "matchEventIndicator", "securityID", "highLimitPrice",
             "lowLimitPrice", "maxPriceVariation">>,
        <<SnapshotFullRefreshTCP61NoMDEntries>>)

CollateralMarketValue62NoMDEntries ==
    <<"underlyingSecurityAltID", "underlyingSecurityAltIDSource",
      "collateralMarketPrice", "dirtyPrice", "underlyingInstrumentGUID", "mDStreamID",
      "padding">>

CollateralMarketValue62 ==
    MembersAndGroups(<<"msg_size">> \o messageHeader
        \o <<"transactTime", "matchEventIndicator", "block_padding">>,
        <<CollateralMarketValue62NoMDEntries>>)

MDInstrumentDefinitionFX63NoEvents == <<"eventType", "eventTime">>

MDInstrumentDefinitionFX63NoMDFeedTypes == <<"mDFeedType", "marketDepth">>

MDInstrumentDefinitionFX63NoInstAttrib == <<"instAttribValue">>

MDInstrumentDefinitionFX63NoLotTypeRules == <<"lotType", "minLotSize">>

MDInstrumentDefinitionFX63NoTradingSessions ==
    <<"tradeDate", "settlDate", "maturityDate", "securityAltID">>

MDInstrumentDefinitionFX63 ==
    MembersAndGroups(<<"msg_size">> \o messageHeader
        \o <<"matchEventIndicator", "totNumReports", "securityUpdateAction",
             "lastUpdateTime", "mDSecurityTradingStatus", "applID", "marketSegmentID",
             "underlyingProduct", "securityExchange", "securityGroup", "asset",
             "symbol", "securityID", "securityType", "cFICode", "currency",
             "settlCurrency", "priceQuoteCurrency", "matchAlgorithm", "minTradeVol",
             "maxTradeVol", "minPriceIncrement", "displayFactor", "pricePrecision",
             "unitOfMeasure", "unitOfMeasureQty", "highLimitPrice", "lowLimitPrice",
             "maxPriceVariation", "userDefinedInstrument",
             "financialInstrumentFullName", "fXCurrencySymbol", "settlType",
             "interveningDays", "fXBenchmarkRateFix", "rateSource",
             "fixRateLocalTime", "fixRateLocalTimeZone", "minQuoteLife",
             "maxPriceDiscretionOffset", "instrumentGUID">>
        \o MaturityMonthYear
        \o <<"settlementLocale", "altMinPriceIncrement", "altMinQuoteLife",
             "altPriceIncrementConstraint", "maxBidAskConstraint">>,
        <<MDInstrumentDefinitionFX63NoEvents, MDInstrumentDefinitionFX63NoMDFeedTypes,
          MDInstrumentDefinitionFX63NoInstAttrib,
          MDInstrumentDefinitionFX63NoLotTypeRules,
          MDInstrumentDefinitionFX63NoTradingSessions>>)

MDIncrementalRefreshBookLongQty64NoMDEntries ==
    <<"mDEntryPx", "mDEntrySize", "securityID", "rptSeq", "numberOfOrders",
      "mDPriceLevel", "mDUpdateAction", "mDEntryType", "padding">>

MDIncrementalRefreshBookLongQty64NoOrderIDEntries ==
    <<"orderID", "mDOrderPriority", "mDDisplayQty", "referenceID",
      "orderUpdateAction", "padding">>

MDIncrementalRefreshBookLongQty64 ==
    MembersAndGroups(<<"msg_size">> \o messageHeader
        \o <<"transactTime", "matchEventIndicator", "block_padding">>,
        <<MDIncrementalRefreshBookLongQty64NoMDEntries,
          MDIncrementalRefreshBookLongQty64NoOrderIDEntries>>)

MDIncrementalRefreshTradeSummaryLongQty65NoMDEntries ==
    <<"mDEntryPx", "mDEntrySize", "securityID", "rptSeq", "numberOfOrders",
      "mDTradeEntryID", "aggressorSide", "mDUpdateAction", "padding">>

MDIncrementalRefreshTradeSummaryLongQty65NoOrderIDEntries ==
    <<"orderID", "lastQty", "padding">>

MDIncrementalRefreshTradeSummaryLongQty65 ==
    MembersAndGroups(<<"msg_size">> \o messageHeader
        \o <<"transactTime", "matchEventIndicator", "block_padding">>,
        <<MDIncrementalRefreshTradeSummaryLongQty65NoMDEntries,
          MDIncrementalRefreshTradeSummaryLongQty65NoOrderIDEntries>>)

MDIncrementalRefreshVolumeLongQty66NoMDEntries ==
    <<"mDEntrySize", "securityID", "rptSeq", "mDUpdateAction", "padding">>

MDIncrementalRefreshVolumeLongQty66 ==
    MembersAndGroups(<<"msg_size">> \o messageHeader
        \o <<"transactTime", "matchEventIndicator", "block_padding">>,
        <<MDIncrementalRefreshVolumeLongQty66NoMDEntries>>)

MDIncrementalRefreshSessionStatisticsLongQty67NoMDEntries ==
    <<"mDEntryPx", "mDEntrySize", "securityID", "rptSeq", "openCloseSettlFlag",
      "mDUpdateAction", "mDEntryType", "padding">>

MDIncrementalRefreshSessionStatisticsLongQty67 ==
    MembersAndGroups(<<"msg_size">> \o messageHeader
        \o <<"transactTime", "matchEventIndicator", "block_padding">>,
        <<MDIncrementalRefreshSessionStatisticsLongQty67NoMDEntries>>)

SnapshotFullRefreshTCPLongQty68NoMDEntries ==
    <<"mDEntryPx", "mDEntrySize", "numberOfOrders", "mDPriceLevel",
      "openCloseSettlFlag", "mDEntryType">>

SnapshotFullRefreshTCPLongQty68 ==
    MembersAndGroups(<<"msg_size">> \o messageHeader
        \o <<"transactTime", "matchEventIndicator", "securityID", "highLimitPrice",
             "lowLimitPrice", "maxPriceVariation">>,
        <<SnapshotFullRefreshTCPLongQty68NoMDEntries>>)

SnapshotFullRefreshLongQty69NoMDEntries ==
    <<"mDEntryPx", "mDEntrySize", "numberOfOrders", "mDPriceLevel",
      "openCloseSettlFlag", "mDEntryType">>

SnapshotFullRefreshLongQty69 ==
    MembersAndGroups(<<"msg_size">> \o messageHeader
        \o <<"lastMsgSeqNumProcessed", "totNumReports", "securityID", "rptSeq",
             "transactTime", "lastUpdateTime", "tradeDate", "mDSecurityTradingStatus",
             "highLimitPrice", "lowLimitPrice", "maxPriceVariation">>,
        <<SnapshotFullRefreshLongQty69NoMDEntries>>)

members ==
    [AdminHeartbeat12 |-> AdminHeartbeat12, AdminLogin15 |-> AdminLogin15,
     AdminLogout16 |-> AdminLogout16, SecurityStatus30 |-> SecurityStatus30,
     MDIncrementalRefreshVolume37 |-> MDIncrementalRefreshVolume37,
     QuoteRequest39 |-> QuoteRequest39, ChannelReset4 |-> ChannelReset4,
     MDIncrementalRefreshBook46 |-> MDIncrementalRefreshBook46,
     MDIncrementalRefreshOrderBook47 |-> MDIncrementalRefreshOrderBook47,
     MDIncrementalRefreshTradeSummary48 |-> MDIncrementalRefreshTradeSummary48,
     MDIncrementalRefreshDailyStatistics49 |-> MDIncrementalRefreshDailyStatistics49,
     MDIncrementalRefreshLimitsBanding50 |-> MDIncrementalRefreshLimitsBanding50,
     MDIncrementalRefreshSessionStatistics51 |-> MDIncrementalRefreshSessionStatistics51,
     SnapshotFullRefresh52 |-> SnapshotFullRefresh52,
     SnapshotFullRefreshOrderBook53 |-> SnapshotFullRefreshOrderBook53,
     MDInstrumentDefinitionFuture54 |-> MDInstrumentDefinitionFuture54,
     MDInstrumentDefinitionOption55 |-> MDInstrumentDefinitionOption55,
     MDInstrumentDefinitionSpread56 |-> MDInstrumentDefinitionSpread56,
     MDInstrumentDefinitionFixedIncome57 |-> MDInstrumentDefinitionFixedIncome57,
     MDInstrumentDefinitionRepo58 |-> MDInstrumentDefinitionRepo58,
     SnapshotRefreshTopOrders59 |-> SnapshotRefreshTopOrders59,
     SecurityStatusWorkup60 |-> SecurityStatusWorkup60,
     SnapshotFullRefreshTCP61 |-> SnapshotFullRefreshTCP61,
     CollateralMarketValue62 |-> CollateralMarketValue62,
     MDInstrumentDefinitionFX63 |-> MDInstrumentDefinitionFX63,
     MDIncrementalRefreshBookLongQty64 |-> MDIncrementalRefreshBookLongQty64,
     MDIncrementalRefreshTradeSummaryLongQty65 |-> MDIncrementalRefreshTradeSummaryLongQty65,
     MDIncrementalRefreshVolumeLongQty66 |-> MDIncrementalRefreshVolumeLongQty66,
     MDIncrementalRefreshSessionStatisticsLongQty67 |-> MDIncrementalRefreshSessionStatisticsLongQty67,
     SnapshotFullRefreshTCPLongQty68 |-> SnapshotFullRefreshTCPLongQty68,
     SnapshotFullRefreshLongQty69 |-> SnapshotFullRefreshLongQty69]
=============================================================================
