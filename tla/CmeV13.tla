------------------------------- MODULE CmeV13 -------------------------------
(***************************************************************************)
(* The messages of CME MDP 3.0, SBE schema version 13.                     *)
(***************************************************************************)
EXTENDS WireLayout

type_id ==
    [AdminHeartbeat12 |-> 12, AdminLogin15 |-> 15, AdminLogout16 |-> 16,
     SecurityStatus30 |-> 30, MDIncrementalRefreshVolume37 |-> 37,
     QuoteRequest39 |-> 39, ChannelReset4 |-> 4, MDIncrementalRefreshBook46 |-> 46,
     MDIncrementalRefreshOrderBook47 |-> 47,
     MDIncrementalRefreshTradeSummary48 |-> 48,
     MDIncrementalRefreshDailyStatistics49 |-> 49,
     MDIncrementalRefreshLimitsBanding50 |-> 50,
     MDIncrementalRefreshSessionStatistics51 |-> 51, SnapshotFullRefresh52 |-> 52,
     SnapshotFullRefreshOrderBook53 |-> 53, MDInstrumentDefinitionFuture54 |-> 54,
     MDInstrumentDefinitionOption55 |-> 55, MDInstrumentDefinitionSpread56 |-> 56,
     MDInstrumentDefinitionFixedIncome57 |-> 57,
     MDInstrumentDefinitionRepo58 |-> 58, SnapshotRefreshTopOrders59 |-> 59,
     SecurityStatusWorkup60 |-> 60, SnapshotFullRefreshTCP61 |-> 61,
     CollateralMarketValue62 |-> 62, MDInstrumentDefinitionFX63 |-> 63,
     MDIncrementalRefreshBookLongQty64 |-> 64,
     MDIncrementalRefreshTradeSummaryLongQty65 |-> 65,
     MDIncrementalRefreshVolumeLongQty66 |-> 66,
     MDIncrementalRefreshSessionStatisticsLongQty67 |-> 67,
     SnapshotFullRefreshTCPLongQty68 |-> 68, SnapshotFullRefreshLongQty69 |-> 69]

(* msg_size and the SBE message header begin every message.                *)
extended_message_header == <<2, 2, 2, 2, 2>>

groupSize == [header |-> SizeOf(<<2, 1>>), modulus |-> 256]

groupSize8Byte == [header |-> SizeOf(<<2, Pad(5), 1>>), modulus |-> 256]

groupSizeEncoding == [header |-> SizeOf(<<2, 2>>), modulus |-> 65536]

MaturityMonthYear == <<2, 1, 1, 1>>

ChannelReset4 ==
    Message("ChannelReset4",
        extended_message_header \o <<8, 1>>,
        <<Group(groupSize, <<2>>)>>)

AdminHeartbeat12 ==
    Flat("AdminHeartbeat12", extended_message_header)

AdminLogin15 ==
    Flat("AdminLogin15", extended_message_header \o <<1>>)

AdminLogout16 ==
    Flat("AdminLogout16", extended_message_header \o <<180>>)

SecurityStatus30 ==
    Flat("SecurityStatus30", extended_message_header \o <<8, 6, 6, 4, 2, 1, 1, 1, 1>>)

MDIncrementalRefreshVolume37 ==
    Message("MDIncrementalRefreshVolume37",
        extended_message_header \o <<8, 1, Pad(2)>>,
        <<Group(groupSize, <<4, 4, 4, 1, Pad(3)>>)>>)

QuoteRequest39 ==
    Message("QuoteRequest39",
        extended_message_header \o <<8, 23, 1, Pad(3)>>,
        <<Group(groupSize, <<20, 4, 4, 1, 1, Pad(2)>>)>>)

MDIncrementalRefreshBook46 ==
    Message("MDIncrementalRefreshBook46",
        extended_message_header \o <<8, 1, Pad(2)>>,
        <<Group(groupSize, <<8, 4, 4, 4, 4, 1, 1, 1, 4, Pad(1)>>),
          Group(groupSize8Byte, <<8, 8, 4, 1, 1, Pad(2)>>)>>)

MDIncrementalRefreshOrderBook47 ==
    Message("MDIncrementalRefreshOrderBook47",
        extended_message_header \o <<8, 1, Pad(2)>>,
        <<Group(groupSize, <<8, 8, 8, 4, 4, 1, 1, Pad(6)>>)>>)

MDIncrementalRefreshTradeSummary48 ==
    Message("MDIncrementalRefreshTradeSummary48",
        extended_message_header \o <<8, 1, Pad(2)>>,
        <<Group(groupSize, <<8, 4, 4, 4, 4, 1, 1, 4, Pad(2)>>),
          Group(groupSize8Byte, <<8, 4, Pad(4)>>)>>)

MDIncrementalRefreshDailyStatistics49 ==
    Message("MDIncrementalRefreshDailyStatistics49",
        extended_message_header \o <<8, 1, Pad(2)>>,
        <<Group(groupSize, <<8, 4, 4, 4, 2, 1, 1, 1, Pad(7)>>)>>)

MDIncrementalRefreshLimitsBanding50 ==
    Message("MDIncrementalRefreshLimitsBanding50",
        extended_message_header \o <<8, 1, Pad(2)>>,
        <<Group(groupSize, <<8, 8, 8, 4, 4>>)>>)

MDIncrementalRefreshSessionStatistics51 ==
    Message("MDIncrementalRefreshSessionStatistics51",
        extended_message_header \o <<8, 1, Pad(2)>>,
        <<Group(groupSize, <<8, 4, 4, 1, 1, 1, 4, Pad(1)>>)>>)

SnapshotFullRefresh52 ==
    Message("SnapshotFullRefresh52",
        extended_message_header \o <<4, 4, 4, 4, 8, 8, 2, 1, 8, 8, 8>>,
        <<Group(groupSize, <<8, 4, 4, 1, 2, 1, 1, 1>>)>>)

SnapshotFullRefreshOrderBook53 ==
    Message("SnapshotFullRefreshOrderBook53",
        extended_message_header \o <<4, 4, 4, 4, 4, 8>>,
        <<Group(groupSize, <<8, 8, 8, 4, 1>>)>>)

MDInstrumentDefinitionFuture54 ==
    Message("MDInstrumentDefinitionFuture54",
        extended_message_header \o <<1, 4, 1, 8, 1, 2, 1, 1, 4, 6, 6, 20, 4, 6,
        6>> \o MaturityMonthYear \o <<3, 3, 1, 4, 4, 8, 8, 1, 1, 1, 30, 8, 8, 1, 4,
        4, 8, 8, 8, 4, 2, 4, 4, 1, 1, 8, 1, 2, 8>>,
        <<Group(groupSize, <<1, 8>>),
          Group(groupSize, <<3, 1>>),
          Group(groupSize, <<4>>),
          Group(groupSize, <<1, 4>>)>>)

MDInstrumentDefinitionOption55 ==
    Message("MDInstrumentDefinitionOption55",
        extended_message_header \o <<1, 4, 1, 8, 1, 2, 1, 1, 4, 6, 6, 20, 4, 6, 6,
        1>> \o MaturityMonthYear \o <<3, 8, 3, 3, 8, 1, 4, 4, 8, 8, 8, 1, 1, 1, 1,
        30, 8, 8, 1, 4, 4, 8, 8, 1, 2, 8>>,
        <<Group(groupSize, <<1, 8>>),
          Group(groupSize, <<3, 1>>),
          Group(groupSize, <<4>>),
          Group(groupSize, <<1, 4>>),
          Group(groupSize, <<4, 20>>),
          Group(groupSize, <<4, 20>>)>>)

MDInstrumentDefinitionSpread56 ==
    Message("MDInstrumentDefinitionSpread56",
        extended_message_header \o <<1, 4, 1, 8, 1, 2, 1, 1, 4, 6, 6, 20, 4, 6,
        6>> \o MaturityMonthYear \o <<3, 5, 1, 1, 4, 4, 8, 8, 1, 8, 1, 30, 8, 1, 4,
        4, 8, 8, 8, 1, 1, 2, 5, 6, 6, 8, 35>>,
        <<Group(groupSize, <<1, 8>>),
          Group(groupSize, <<3, 1>>),
          Group(groupSize, <<4>>),
          Group(groupSize, <<1, 4>>),
          Group(groupSize, <<4, 1, 1, 8, 4>>)>>)

MDInstrumentDefinitionFixedIncome57 ==
    Message("MDInstrumentDefinitionFixedIncome57",
        extended_message_header \o <<1, 4, 1, 8, 1, 2, 1, 1, 4, 6, 6, 20, 4, 6, 6,
        3, 3, 1, 4, 4, 8, 8, 1, 1, 1, 30, 8, 8, 2, 8, 8, 8, 8, 2, 2, 2, 8, 8, 3, 2,
        20, 2, 25, 35, 12, 1, 5, 5, 1, 6, 6, 8>>,
        <<Group(groupSize, <<1, 8>>),
          Group(groupSize, <<3, 1>>),
          Group(groupSize, <<4>>),
          Group(groupSize, <<1, 4>>)>>)

MDInstrumentDefinitionRepo58 ==
    Message("MDInstrumentDefinitionRepo58",
        extended_message_header \o <<1, 4, 1, 8, 1, 2, 1, 1, 4, 6, 6, 20, 4, 6, 6,
        3, 3, 1, 4, 4, 8, 8, 30, 8, 8, 2, 8, 8, 8, 35, 5, 2, 2, 8, 1, 1, 1, 5, 1, 6,
        6, 8, 20, 1>>,
        <<Group(groupSize, <<1, 8>>),
          Group(groupSize, <<3, 1>>),
          Group(groupSize, <<4>>),
          Group(groupSize, <<1, 4>>),
          Group(groupSize, <<20, 4, 12, 1, 35, 6, 2, 25, 1, 2, 8, 2>>),
          Group(groupSize, <<4, 20, 8>>),
          Group(groupSize, <<8, 4, 2, 2>>)>>)

SnapshotRefreshTopOrders59 ==
    Message("SnapshotRefreshTopOrders59",
        extended_message_header \o <<8, 1, 4>>,
        <<Group(groupSize, <<8, 8, 8, 4, 1>>)>>)

SecurityStatusWorkup60 ==
    Message("SecurityStatusWorkup60",
        extended_message_header \o <<8, 8, 4, 1, 2, 4, 1, 1, 1>>,
        <<Group(groupSize, <<8, 1, 1>>)>>)

SnapshotFullRefreshTCP61 ==
    Message("SnapshotFullRefreshTCP61",
        extended_message_header \o <<8, 1, 4, 8, 8, 8>>,
        <<Group(groupSize, <<8, 4, 4, 4, 1, 1, 1, 2, 1>>)>>)

CollateralMarketValue62 ==
    Message("CollateralMarketValue62",
        extended_message_header \o <<8, 1, Pad(2)>>,
        <<Group(groupSize, <<12, 1, 8, 8, 8, 1, Pad(2)>>)>>)

MDInstrumentDefinitionFX63 ==
    Message("MDInstrumentDefinitionFX63",
        extended_message_header \o <<1, 4, 1, 8, 1, 2, 1, 1, 4, 6, 6, 20, 4, 6, 6,
        3, 3, 3, 1, 4, 4, 8, 8, 1, 30, 8, 8, 8, 8, 1, 35, 7, 3, 2, 20, 12, 8, 20, 4,
        8, 8>> \o MaturityMonthYear \o <<8, 8, 4, 8, 8>>,
        <<Group(groupSize, <<1, 8>>),
          Group(groupSize, <<3, 1>>),
          Group(groupSize, <<4>>),
          Group(groupSize, <<1, 8>>),
          Group(groupSize, <<2, 2, 2, 12>>)>>)

MDIncrementalRefreshBookLongQty64 ==
    Message("MDIncrementalRefreshBookLongQty64",
        extended_message_header \o <<8, 1, Pad(2)>>,
        <<Group(groupSize, <<8, 8, 4, 4, 4, 1, 1, 1, Pad(1)>>),
          Group(groupSize8Byte, <<8, 8, 4, 1, 1, Pad(2)>>)>>)

MDIncrementalRefreshTradeSummaryLongQty65 ==
    Message("MDIncrementalRefreshTradeSummaryLongQty65",
        extended_message_header \o <<8, 1, Pad(2)>>,
        <<Group(groupSize, <<8, 8, 4, 4, 4, 4, 1, 1, Pad(6)>>),
          Group(groupSize8Byte, <<8, 4, Pad(4)>>)>>)

MDIncrementalRefreshVolumeLongQty66 ==
    Message("MDIncrementalRefreshVolumeLongQty66",
        extended_message_header \o <<8, 1, Pad(2)>>,
        <<Group(groupSize, <<8, 4, 4, 1, Pad(7)>>)>>)

MDIncrementalRefreshSessionStatisticsLongQty67 ==
    Message("MDIncrementalRefreshSessionStatisticsLongQty67",
        extended_message_header \o <<8, 1, Pad(2)>>,
        <<Group(groupSize, <<8, 8, 4, 4, 1, 1, 1, Pad(5)>>)>>)

SnapshotFullRefreshTCPLongQty68 ==
    Message("SnapshotFullRefreshTCPLongQty68",
        extended_message_header \o <<8, 1, 4, 8, 8, 8>>,
        <<Group(groupSize, <<8, 8, 4, 1, 1, 1>>)>>)

SnapshotFullRefreshLongQty69 ==
    Message("SnapshotFullRefreshLongQty69",
        extended_message_header \o <<4, 4, 4, 4, 8, 8, 2, 1, 8, 8, 8>>,
        <<Group(groupSize, <<8, 8, 4, 1, 1, 1>>)>>)

messages ==
    Variant({AdminHeartbeat12, AdminLogin15, AdminLogout16, SecurityStatus30,
             MDIncrementalRefreshVolume37, QuoteRequest39, ChannelReset4,
             MDIncrementalRefreshBook46, MDIncrementalRefreshOrderBook47,
             MDIncrementalRefreshTradeSummary48,
             MDIncrementalRefreshDailyStatistics49,
             MDIncrementalRefreshLimitsBanding50,
             MDIncrementalRefreshSessionStatistics51, SnapshotFullRefresh52,
             SnapshotFullRefreshOrderBook53, MDInstrumentDefinitionFuture54,
             MDInstrumentDefinitionOption55, MDInstrumentDefinitionSpread56,
             MDInstrumentDefinitionFixedIncome57, MDInstrumentDefinitionRepo58,
             SnapshotRefreshTopOrders59, SecurityStatusWorkup60,
             SnapshotFullRefreshTCP61, CollateralMarketValue62,
             MDInstrumentDefinitionFX63, MDIncrementalRefreshBookLongQty64,
             MDIncrementalRefreshTradeSummaryLongQty65,
             MDIncrementalRefreshVolumeLongQty66,
             MDIncrementalRefreshSessionStatisticsLongQty67,
             SnapshotFullRefreshTCPLongQty68, SnapshotFullRefreshLongQty69},
            type_id)
=============================================================================
