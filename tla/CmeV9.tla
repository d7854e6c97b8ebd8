------------------------------- MODULE CmeV9 --------------------------------
(***************************************************************************)
(* The messages of CME MDP 3.0, SBE schema version 9.                      *)
(***************************************************************************)
EXTENDS WireLayout

type_id ==
    [AdminHeartbeat12 |-> 12, AdminLogin15 |-> 15, AdminLogout16 |-> 16,
     MDInstrumentDefinitionFuture27 |-> 27, MDInstrumentDefinitionSpread29 |-> 29,
     SecurityStatus30 |-> 30, MDIncrementalRefreshBook32 |-> 32,
     MDIncrementalRefreshDailyStatistics33 |-> 33,
     MDIncrementalRefreshLimitsBanding34 |-> 34,
     MDIncrementalRefreshSessionStatistics35 |-> 35,
     MDIncrementalRefreshVolume37 |-> 37, SnapshotFullRefresh38 |-> 38,
     QuoteRequest39 |-> 39, ChannelReset4 |-> 4,
     MDInstrumentDefinitionOption41 |-> 41,
     MDIncrementalRefreshTradeSummary42 |-> 42,
     MDIncrementalRefreshOrderBook43 |-> 43, SnapshotFullRefreshOrderBook44 |-> 44,
     MDIncrementalRefreshBook46 |-> 46, MDIncrementalRefreshOrderBook47 |-> 47,
     MDIncrementalRefreshTradeSummary48 |-> 48,
     MDIncrementalRefreshDailyStatistics49 |-> 49,
     MDIncrementalRefreshLimitsBanding50 |-> 50,
     MDIncrementalRefreshSessionStatistics51 |-> 51, SnapshotFullRefresh52 |-> 52,
     SnapshotFullRefreshOrderBook53 |-> 53, MDInstrumentDefinitionFuture54 |-> 54,
     MDInstrumentDefinitionOption55 |-> 55, MDInstrumentDefinitionSpread56 |-> 56]

(* msg_size and the SBE message header begin every message.                *)
extended_message_header == <<2, 2, 2, 2, 2>>

groupSize == [header |-> SizeOf(<<2, 1>>), modulus |-> 256]

groupSize8Byte == [header |-> SizeOf(<<2, Pad(5), 1>>), modulus |-> 256]

groupSizeEncoding == [header |-> SizeOf(<<2, 2>>), modulus |-> 65536]

MaturityMonthYear == <<2, 1, 1, 1>>

ChannelReset4 ==
    Message("ChannelReset4",
        extended_message_header \o <<8, 1>>,
        <<Group(groupSize, <<2>>)>>)

AdminHeartbeat12 ==
    Flat("AdminHeartbeat12", extended_message_header)

AdminLogin15 ==
    Flat("AdminLogin15", extended_message_header \o <<1>>)

AdminLogout16 ==
    Flat("AdminLogout16", extended_message_header \o <<180>>)

MDInstrumentDefinitionFuture27 ==
    Message("MDInstrumentDefinitionFuture27",
        extended_message_header \o <<1, 4, 1, 8, 1, 2, 1, 1, 4, 6, 6, 20, 4, 6,
        6>> \o MaturityMonthYear \o <<3, 3, 1, 4, 4, 8, 8, 1, 1, 1, 30, 8, 8, 1, 4,
        4, 8, 8, 8, 4, 2, 4, 4, 1, 1, 8, 1, 2>>,
        <<Group(groupSize, <<1, 8>>),
          Group(groupSize, <<3, 1>>),
          Group(groupSize, <<4>>),
          Group(groupSize, <<1, 4>>)>>)

MDInstrumentDefinitionSpread29 ==
    Message("MDInstrumentDefinitionSpread29",
        extended_message_header \o <<1, 4, 1, 8, 1, 2, 1, 1, 4, 6, 6, 20, 4, 6,
        6>> \o MaturityMonthYear \o <<3, 5, 1, 1, 4, 4, 8, 8, 1, 8, 1, 30, 8, 1, 4,
        4, 8, 8, 8, 1, 1, 2>>,
        <<Group(groupSize, <<1, 8>>),
          Group(groupSize, <<3, 1>>),
          Group(groupSize, <<4>>),
          Group(groupSize, <<1, 4>>),
          Group(groupSize, <<4, 1, 1, 8, 4>>)>>)

SecurityStatus30 ==
    Flat("SecurityStatus30", extended_message_header \o <<8, 6, 6, 4, 2, 1, 1, 1, 1>>)

MDIncrementalRefreshBook32 ==
    Message("MDIncrementalRefreshBook32",
        extended_message_header \o <<8, 1, Pad(2)>>,
        <<Group(groupSize, <<8, 4, 4, 4, 4, 1, 1, 1, Pad(5)>>),
          Group(groupSize8Byte, <<8, 8, 4, 1, 1, Pad(2)>>)>>)

MDIncrementalRefreshDailyStatistics33 ==
    Message("MDIncrementalRefreshDailyStatistics33",
        extended_message_header \o <<8, 1, Pad(2)>>,
        <<Group(groupSize, <<8, 4, 4, 4, 2, 1, 1, 1, Pad(7)>>)>>)

MDIncrementalRefreshLimitsBanding34 ==
    Message("MDIncrementalRefreshLimitsBanding34",
        extended_message_header \o <<8, 1, Pad(2)>>,
        <<Group(groupSize, <<8, 8, 8, 4, 4>>)>>)

MDIncrementalRefreshSessionStatistics35 ==
    Message("MDIncrementalRefreshSessionStatistics35",
        extended_message_header \o <<8, 1, Pad(2)>>,
        <<Group(groupSize, <<8, 4, 4, 1, 1, 1, 4, Pad(1)>>)>>)

MDIncrementalRefreshVolume37 ==
    Message("MDIncrementalRefreshVolume37",
        extended_message_header \o <<8, 1, Pad(2)>>,
        <<Group(groupSize, <<4, 4, 4, 1, Pad(3)>>)>>)

SnapshotFullRefresh38 ==
    Message("SnapshotFullRefresh38",
        extended_message_header \o <<4, 4, 4, 4, 8, 8, 2, 1, 8, 8, 8>>,
        <<Group(groupSize, <<8, 4, 4, 1, 2, 1, 1, 1>>)>>)

QuoteRequest39 ==
    Message("QuoteRequest39",
        extended_message_header \o <<8, 23, 1, Pad(3)>>,
        <<Group(groupSize, <<20, 4, 4, 1, 1, Pad(2)>>)>>)

MDInstrumentDefinitionOption41 ==
    Message("MDInstrumentDefinitionOption41",
        extended_message_header \o <<1, 4, 1, 8, 1, 2, 1, 1, 4, 6, 6, 20, 4, 6, 6,
        1>> \o MaturityMonthYear \o <<3, 8, 3, 3, 8, 1, 4, 4, 8, 8, 8, 1, 1, 1, 1,
        30, 8, 8, 1, 4, 4, 8, 8, 1, 2>>,
        <<Group(groupSize, <<1, 8>>),
          Group(groupSize, <<3, 1>>),
          Group(groupSize, <<4>>),
          Group(groupSize, <<1, 4>>),
          Group(groupSize, <<4, 20>>),
          Group(groupSize, <<4, 20>>)>>)

MDIncrementalRefreshTradeSummary42 ==
    Message("MDIncrementalRefreshTradeSummary42",
        extended_message_header \o <<8, 1, Pad(2)>>,
        <<Group(groupSize, <<8, 4, 4, 4, 4, 1, 1, 4, Pad(2)>>),
          Group(groupSize8Byte, <<8, 4, Pad(4)>>)>>)

MDIncrementalRefreshOrderBook43 ==
    Message("MDIncrementalRefreshOrderBook43",
        extended_message_header \o <<8, 1, Pad(2)>>,
        <<Group(groupSize, <<8, 8, 8, 4, 4, 1, 1, Pad(6)>>)>>)

SnapshotFullRefreshOrderBook44 ==
    Message("SnapshotFullRefreshOrderBook44",
        extended_message_header \o <<4, 4, 4, 4, 4, 8>>,
        <<Group(groupSize, <<8, 8, 8, 4, 1>>)>>)

MDIncrementalRefreshBook46 ==
    Message("MDIncrementalRefreshBook46",
        extended_message_header \o <<8, 1, Pad(2)>>,
        <<Group(groupSize, <<8, 4, 4, 4, 4, 1, 1, 1, Pad(5)>>),
          Group(groupSize8Byte, <<8, 8, 4, 1, 1, Pad(2)>>)>>)

MDIncrementalRefreshOrderBook47 ==
    Message("MDIncrementalRefreshOrderBook47",
        extended_message_header \o <<8, 1, Pad(2)>>,
        <<Group(groupSize, <<8, 8, 8, 4, 4, 1, 1, Pad(6)>>)>>)

MDIncrementalRefreshTradeSummary48 ==
    Message("MDIncrementalRefreshTradeSummary48",
        extended_message_header \o <<8, 1, Pad(2)>>,
        <<Group(groupSize, <<8, 4, 4, 4, 4, 1, 1, 4, Pad(2)>>),
          Group(groupSize8Byte, <<8, 4, Pad(4)>>)>>)

MDIncrementalRefreshDailyStatistics49 ==
    Message("MDIncrementalRefreshDailyStatistics49",
        extended_message_header \o <<8, 1, Pad(2)>>,
        <<Group(groupSize, <<8, 4, 4, 4, 2, 1, 1, 1, Pad(7)>>)>>)

MDIncrementalRefreshLimitsBanding50 ==
    Message("MDIncrementalRefreshLimitsBanding50",
        extended_message_header \o <<8, 1, Pad(2)>>,
        <<Group(groupSize, <<8, 8, 8, 4, 4>>)>>)

MDIncrementalRefreshSessionStatistics51 ==
    Message("MDIncrementalRefreshSessionStatistics51",
        extended_message_header \o <<8, 1, Pad(2)>>,
        <<Group(groupSize, <<8, 4, 4, 1, 1, 1, 4, Pad(1)>>)>>)

SnapshotFullRefresh52 ==
    Message("SnapshotFullRefresh52",
        extended_message_header \o <<4, 4, 4, 4, 8, 8, 2, 1, 8, 8, 8>>,
        <<Group(groupSize, <<8, 4, 4, 1, 2, 1, 1, 1>>)>>)

SnapshotFullRefreshOrderBook53 ==
    Message("SnapshotFullRefreshOrderBook53",
        extended_message_header \o <<4, 4, 4, 4, 4, 8>>,
        <<Group(groupSize, <<8, 8, 8, 4, 1>>)>>)

MDInstrumentDefinitionFuture54 ==
    Message("MDInstrumentDefinitionFuture54",
        extended_message_header \o <<1, 4, 1, 8, 1, 2, 1, 1, 4, 6, 6, 20, 4, 6,
        6>> \o MaturityMonthYear \o <<3, 3, 1, 4, 4, 8, 8, 1, 1, 1, 30, 8, 8, 1, 4,
        4, 8, 8, 8, 4, 2, 4, 4, 1, 1, 8, 1, 2>>,
        <<Group(groupSize, <<1, 8>>),
          Group(groupSize, <<3, 1>>),
          Group(groupSize, <<4>>),
          Group(groupSize, <<1, 4>>)>>)

MDInstrumentDefinitionOption55 ==
    Message("MDInstrumentDefinitionOption55",
        extended_message_header \o <<1, 4, 1, 8, 1, 2, 1, 1, 4, 6, 6, 20, 4, 6, 6,
        1>> \o MaturityMonthYear \o <<3, 8, 3, 3, 8, 1, 4, 4, 8, 8, 8, 1, 1, 1, 1,
        30, 8, 8, 1, 4, 4, 8, 8, 1, 2>>,
        <<Group(groupSize, <<1, 8>>),
          Group(groupSize, <<3, 1>>),
          Group(groupSize, <<4>>),
          Group(groupSize, <<1, 4>>),
          Group(groupSize, <<4, 20>>),
          Group(groupSize, <<4, 20>>)>>)

MDInstrumentDefinitionSpread56 ==
    Message("MDInstrumentDefinitionSpread56",
        extended_message_header \o <<1, 4, 1, 8, 1, 2, 1, 1, 4, 6, 6, 20, 4, 6,
        6>> \o MaturityMonthYear \o <<3, 5, 1, 1, 4, 4, 8, 8, 1, 8, 1, 30, 8, 1, 4,
        4, 8, 8, 8, 1, 1, 2>>,
        <<Group(groupSize, <<1, 8>>),
          Group(groupSize, <<3, 1>>),
          Group(groupSize, <<4>>),
          Group(groupSize, <<1, 4>>),
          Group(groupSize, <<4, 1, 1, 8, 4>>)>>)

messages ==
    Variant({AdminHeartbeat12, AdminLogin15, AdminLogout16,
             MDInstrumentDefinitionFuture27, MDInstrumentDefinitionSpread29,
             SecurityStatus30, MDIncrementalRefreshBook32,
             MDIncrementalRefreshDailyStatistics33,
             MDIncrementalRefreshLimitsBanding34,
             MDIncrementalRefreshSessionStatistics35, MDIncrementalRefreshVolume37,
             SnapshotFullRefresh38, QuoteRequest39, ChannelReset4,
             MDInstrumentDefinitionOption41, MDIncrementalRefreshTradeSummary42,
             MDIncrementalRefreshOrderBook43, SnapshotFullRefreshOrderBook44,
             MDIncrementalRefreshBook46, MDIncrementalRefreshOrderBook47,
             MDIncrementalRefreshTradeSummary48,
             MDIncrementalRefreshDailyStatistics49,
             MDIncrementalRefreshLimitsBanding50,
             MDIncrementalRefreshSessionStatistics51, SnapshotFullRefresh52,
             SnapshotFullRefreshOrderBook53, MDInstrumentDefinitionFuture54,
             MDInstrumentDefinitionOption55, MDInstrumentDefinitionSpread56},
            type_id)
=============================================================================
