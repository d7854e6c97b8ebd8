----------------------------- MODULE EobiV13_0 ------------------------------
(***************************************************************************)
(* The messages of Eurex EOBI 13.0. What EOBI calls a repeating group is   *)
(* one component here: the decoder knows its first entry only.             *)
(***************************************************************************)
EXTENDS WireLayout

type_id ==
    [AddComplexInstrument |-> 13400, AddFlexibleInstrument |-> 13401,
     InstrumentSummary |-> 13601, AddScaledSimpleInstrument |-> 13402,
     PartialOrderExecution |-> 13105, AuctionBBO |-> 13500,
     FullOrderExecution |-> 13104, TradeReversal |-> 13200,
     AuctionClearingPrice |-> 13501, CrossRequest |-> 13502,
     ExecutionSummary |-> 13202, Heartbeat |-> 13001,
     InstrumentStateChange |-> 13301, MassInstrumentStateChange |-> 13302,
     OrderAdd |-> 13100, OrderDelete |-> 13102, OrderMassDelete |-> 13103,
     TopOfBook |-> 13504, OrderModify |-> 13101, OrderModifySamePrio |-> 13106,
     PacketHeader |-> 13004, SnapshotOrder |-> 13602,
     ProductStateChange |-> 13300, ProductSummary |-> 13600, QuoteRequest |-> 13503,
     TESTradeReport |-> 13203, TradeReport |-> 13201]

MessageHeaderComp == <<2, 2, 4>>

InstrmtLegGrpComp == <<4, Pad(4), 8, 8, 4, 1, 1, Pad(2)>>

RelatedInstrumentGrpComp == <<8>>

RemainingOrderDetailsComp == <<8, 8, 8>>

MDInstrumentEntryGrpComp == <<8, 8, 1, 1, 2, 2, 1, 1, 8>>

MDTradeEntryGrpComp == <<8, 8, 1, Pad(7)>>

SecMassStatGrpComp == <<8, 8, 8, 1, 1, 1, 1, 1, 1, Pad(2)>>

OrderDetailsComp == <<8, 8, 1, 1, 1, Pad(5), 8>>

AddComplexInstrument ==
    Flat("AddComplexInstrument",
        MessageHeaderComp \o <<8, 8, 40, 4, 1, 1, 2, 4, 1, Pad(2),
        1>> \o InstrmtLegGrpComp)

AddFlexibleInstrument ==
    Flat("AddFlexibleInstrument",
        MessageHeaderComp \o <<8, 8, 40, 1, 1, 1, 1, 4, 8, 4, 4, 4, Pad(4)>>)

AddScaledSimpleInstrument ==
    Flat("AddScaledSimpleInstrument",
        MessageHeaderComp \o <<8, 8, 40, 1, Pad(1), 2,
        Pad(4)>> \o RelatedInstrumentGrpComp)

AuctionBBO ==
    Flat("AuctionBBO", MessageHeaderComp \o <<8, 8, 8, 8, 8, 8, 1, 1, 1, Pad(5)>>)

AuctionClearingPrice ==
    Flat("AuctionClearingPrice", MessageHeaderComp \o <<8, 8, 8, 8, 8, 1, 1, Pad(6)>>)

CrossRequest ==
    Flat("CrossRequest", MessageHeaderComp \o <<8, 8, 8, 1, 1, 1, Pad(5), 8>>)

ExecutionSummary ==
    Flat("ExecutionSummary",
        MessageHeaderComp \o <<8, 8, 8, 8, 1, Pad(1), 2, 1, Pad(3),
        8>> \o RemainingOrderDetailsComp \o <<8, 8, 8>>)

FullOrderExecution ==
    Flat("FullOrderExecution", MessageHeaderComp \o <<1, 1, 1, 1, 4, 8, 8, 8, 8, 8>>)

Heartbeat ==
    Flat("Heartbeat", MessageHeaderComp \o <<4, Pad(4)>>)

InstrumentStateChange ==
    Flat("InstrumentStateChange",
        MessageHeaderComp \o <<8, 1, 1, 1, 1, 1, 1, Pad(2), 8, 8, 8, 1, Pad(7)>>)

InstrumentSummary ==
    Flat("InstrumentSummary",
        MessageHeaderComp \o <<8, 8, 8, 2, 1, 1, 1, 1, 1, 1, 8, 8, 1, 1, 1,
        Pad(5)>> \o MDInstrumentEntryGrpComp)

MassInstrumentStateChange ==
    Flat("MassInstrumentStateChange",
        MessageHeaderComp \o <<1, 1, 1, 1, 1, 1, 1, 1, 8, 1, 1,
        Pad(6)>> \o SecMassStatGrpComp)

OrderAdd ==
    Flat("OrderAdd", MessageHeaderComp \o <<8, 8>> \o OrderDetailsComp)

OrderDelete ==
    Flat("OrderDelete", MessageHeaderComp \o <<8, 8, 8>> \o OrderDetailsComp)

OrderMassDelete ==
    Flat("OrderMassDelete", MessageHeaderComp \o <<8, 8>>)

OrderModify ==
    Flat("OrderModify",
        MessageHeaderComp \o <<8, 8, 8, 8, 8>> \o OrderDetailsComp \o <<1, Pad(7)>>)

OrderModifySamePrio ==
    Flat("OrderModifySamePrio", MessageHeaderComp \o <<8, 8, 8, 8>> \o OrderDetailsComp)

PacketHeader ==
    Flat("PacketHeader", MessageHeaderComp \o <<4, 4, 1, 1, 1, 1, Pad(4), 8>>)

PartialOrderExecution ==
    Flat("PartialOrderExecution", MessageHeaderComp \o <<1, 1, 1, 1, 4, 8, 8, 8, 8, 8>>)

ProductStateChange ==
    Flat("ProductStateChange", MessageHeaderComp \o <<1, 1, 1, 1, 1, 1, Pad(2), 8>>)

ProductSummary ==
    Flat("ProductSummary", MessageHeaderComp \o <<4, 1, 1, 1, 1, 1, 1, Pad(6)>>)

QuoteRequest ==
    Flat("QuoteRequest", MessageHeaderComp \o <<8, 8, 1, Pad(7), 8>>)

SnapshotOrder ==
    Flat("SnapshotOrder", MessageHeaderComp \o OrderDetailsComp)

TESTradeReport ==
    Flat("TESTradeReport",
        MessageHeaderComp \o <<8, 8, 8, 8, 4, 2, 2, 1, 1, Pad(6), 8, 8, 2, 2,
        Pad(4)>>)

TopOfBook ==
    Flat("TopOfBook", MessageHeaderComp \o <<8, 8, 8, 8, 8, 8, 2, 2, Pad(4)>>)

TradeReport ==
    Flat("TradeReport",
        MessageHeaderComp \o <<8, 8, 8, 8, 4, 1, 1, 1, Pad(1), 2, Pad(6)>>)

TradeReversal ==
    Flat("TradeReversal",
        MessageHeaderComp \o <<8, 8, 8, 8, 8, 4, 2, 1, 1>> \o MDTradeEntryGrpComp)

messages ==
    Variant({AddComplexInstrument, AddFlexibleInstrument, InstrumentSummary,
             AddScaledSimpleInstrument, PartialOrderExecution, AuctionBBO,
             FullOrderExecution, TradeReversal, AuctionClearingPrice, CrossRequest,
             ExecutionSummary, Heartbeat, InstrumentStateChange,
             MassInstrumentStateChange, OrderAdd, OrderDelete, OrderMassDelete,
             TopOfBook, OrderModify, OrderModifySamePrio, PacketHeader,
             SnapshotOrder, ProductStateChange, ProductSummary, QuoteRequest,
             TESTradeReport, TradeReport},
            type_id)

(* The groups at the end of a message of which the exchange sends as many  *)
(* entries as a count in the message says, possibly none.                  *)
repeated ==
    [AddComplexInstrument |-> InstrmtLegGrpComp,
     AddScaledSimpleInstrument |-> RelatedInstrumentGrpComp,
     InstrumentSummary |-> MDInstrumentEntryGrpComp,
     MassInstrumentStateChange |-> SecMassStatGrpComp,
     TradeReversal |-> MDTradeEntryGrpComp]
=============================================================================
