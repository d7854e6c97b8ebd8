------------------------------ MODULE ItchV5_0 ------------------------------
(***************************************************************************)
(* The messages of Nasdaq TotalView-ITCH 5.0. message_type is a character. *)
(***************************************************************************)
EXTENDS WireLayout

type_id ==
    [system_event |-> "S", stock_directory |-> "R", stock_trading_action |-> "H",
     reg_sho |-> "Y", market_participant_position |-> "L",
     mwcb_decline_level |-> "V", mwcb_status |-> "W", quoting_period_update |-> "K",
     luld |-> "J", operational_halt |-> "h", add_order |-> "A",
     add_order_mpid |-> "F", order_executed |-> "E",
     order_executed_with_price |-> "C", order_cancel |-> "X", order_delete |-> "D",
     order_replace |-> "U", trade |-> "P", cross_trade |-> "Q",
     broken_trade_message |-> "B", noii |-> "I", rpii |-> "N",
     direct_listing_with_capital_raise_price_discovery |-> "O"]

(* message_type, stock_locate, tracking_number and timestamp begin every   *)
(* message.                                                                *)
Stamped == <<1, 2, 2, 6>>

system_event ==
    Flat("system_event", Stamped \o <<1>>)

stock_directory ==
    Flat("stock_directory", Stamped \o <<8, 1, 1, 4, 1, 1, 2, 1, 1, 1, 1, 1, 4, 1>>)

stock_trading_action ==
    Flat("stock_trading_action", Stamped \o <<8, 1, 1, 4>>)

reg_sho ==
    Flat("reg_sho", Stamped \o <<8, 1>>)

market_participant_position ==
    Flat("market_participant_position", Stamped \o <<4, 8, 1, 1, 1>>)

mwcb_decline_level ==
    Flat("mwcb_decline_level", Stamped \o <<8, 8, 8>>)

mwcb_status ==
    Flat("mwcb_status", Stamped \o <<1>>)

quoting_period_update ==
    Flat("quoting_period_update", Stamped \o <<8, 4, 1, 4>>)

luld ==
    Flat("luld", Stamped \o <<8, 4, 4, 4, 4>>)

operational_halt ==
    Flat("operational_halt", Stamped \o <<8, 1, 1>>)

add_order ==
    Flat("add_order", Stamped \o <<8, 1, 4, 8, 4>>)

add_order_mpid ==
    Flat("add_order_mpid", Stamped \o <<8, 1, 4, 8, 4, 4>>)

order_executed ==
    Flat("order_executed", Stamped \o <<8, 4, 8>>)

order_executed_with_price ==
    Flat("order_executed_with_price", Stamped \o <<8, 4, 8, 1, 4>>)

order_cancel ==
    Flat("order_cancel", Stamped \o <<8, 4>>)

order_delete ==
    Flat("order_delete", Stamped \o <<8>>)

order_replace ==
    Flat("order_replace", Stamped \o <<8, 8, 4, 4>>)

trade ==
    Flat("trade", Stamped \o <<8, 1, 4, 8, 4, 8>>)

cross_trade ==
    Flat("cross_trade", Stamped \o <<8, 8, 4, 8, 1>>)

broken_trade_message ==
    Flat("broken_trade_message", Stamped \o <<8>>)

noii ==
    Flat("noii", Stamped \o <<8, 8, 1, 8, 4, 4, 4, 1, 1>>)

rpii ==
    Flat("rpii", Stamped \o <<8, 1>>)

direct_listing_with_capital_raise_price_discovery ==
    Flat("direct_listing_with_capital_raise_price_discovery",
        Stamped \o <<8, 1, 4, 4, 4, 8, 4, 4>>)

messages ==
    Variant({system_event, stock_directory, stock_trading_action, reg_sho,
             market_participant_position, mwcb_decline_level, mwcb_status,
             quoting_period_update, luld, operational_halt, add_order,
             add_order_mpid, order_executed, order_executed_with_price,
             order_cancel, order_delete, order_replace, trade, cross_trade,
             broken_trade_message, noii, rpii,
             direct_listing_with_capital_raise_price_discovery},
            type_id)
=============================================================================
