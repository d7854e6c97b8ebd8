-------------------------- MODULE ItchV5_0Describe --------------------------
(***************************************************************************)
(* The members of the messages of Nasdaq TotalView-ITCH 5.0 in the order   *)
(* in which they are described, which is their order on the wire.          *)
(***************************************************************************)
EXTENDS WireLayout

(* How every message begins.                                               *)
Stamped == <<"message_type", "stock_locate", "tracking_number", "timestamp">>

system_event == Members(Stamped \o <<"event_code">>)

stock_directory ==
    Members(Stamped
        \o <<"stock", "market_category", "financial_status_indicator",
             "round_lot_size", "round_lots_only", "issue_classification",
             "issue_sub_type", "authenticity", "short_sale_threshold_indicator",
             "ipo_flag", "luld_reference_price_tier", "etp_flag",
             "etp_leverage_factor", "inverse_indicator">>)

stock_trading_action ==
    Members(Stamped \o <<"stock", "trading_state", "reserved", "reason">>)

reg_sho == Members(Stamped \o <<"stock", "reg_sho_action">>)

market_participant_position ==
    Members(Stamped
        \o <<"mpid", "stock", "primary_market_maker", "market_maker_mode",
             "market_participant_state">>)

mwcb_decline_level == Members(Stamped \o <<"level1", "level2", "level3">>)

mwcb_status == Members(Stamped \o <<"breached_level">>)

quoting_period_update ==
    Members(Stamped
        \o <<"stock", "ipo_quotation_release_time", "ipo_release_qualifier",
             "ipo_price">>)

luld ==
    Members(Stamped
        \o <<"stock", "auction_collar_reference_price",
             "upper_auction_collar_price", "lower_auction_collar_price",
             "auction_collar_extension">>)

operational_halt ==
    Members(Stamped \o <<"stock", "market_code", "operational_halt_action">>)

add_order ==
    Members(Stamped
        \o <<"order_reference_number", "buy_sell_indicator", "shares", "stock",
             "price">>)

add_order_mpid ==
    Members(Stamped
        \o <<"order_reference_number", "buy_sell_indicator", "shares", "stock",
             "price", "attribution">>)

order_executed ==
    Members(Stamped
        \o <<"order_reference_number", "executed_shares", "match_number">>)

order_executed_with_price ==
    Members(Stamped
        \o <<"order_reference_number", "executed_shares", "match_number",
             "printable", "execution_price">>)

order_cancel == Members(Stamped \o <<"order_reference_number", "canceled_shares">>)

order_delete == Members(Stamped \o <<"order_reference_number">>)

order_replace ==
    Members(Stamped
        \o <<"original_order_reference_number", "new_order_reference_number",
             "shares", "price">>)

trade ==
    Members(Stamped
        \o <<"order_reference_number", "buy_sell_indicator", "shares", "stock",
             "price", "match_number">>)

cross_trade ==
    Members(Stamped
        \o <<"shares", "stock", "cross_price", "match_number", "cross_type">>)

broken_trade_message == Members(Stamped \o <<"match_number">>)

noii ==
    Members(Stamped
        \o <<"paired_shares", "imbalance_shares", "imbalance_direction", "stock",
             "far_price", "near_price", "current_reference_price", "cross_type",
             "price_variation_indicator">>)

rpii == Members(Stamped \o <<"stock", "interest_flag">>)

direct_listing_with_capital_raise_price_discovery ==
    Members(Stamped
        \o <<"stock", "open_eligibility_status", "minimum_allowable_price",
             "maximum_allowable_price", "near_execution_price", "near_execution_time",
             "lower_price_range_collar", "upper_price_range_collar">>)

members ==
    [system_event |-> system_event, stock_directory |-> stock_directory,
     stock_trading_action |-> stock_trading_action, reg_sho |-> reg_sho,
     market_participant_position |-> market_participant_position,
     mwcb_decline_level |-> mwcb_decline_level, mwcb_status |-> mwcb_status,
     quoting_period_update |-> quoting_period_update, luld |-> luld,
     operational_halt |-> operational_halt, add_order |-> add_order,
     add_order_mpid |-> add_order_mpid, order_executed |-> order_executed,
     order_executed_with_price |-> order_executed_with_price,
     order_cancel |-> order_cancel, order_delete |-> order_delete,
     order_replace |-> order_replace, trade |-> trade, cross_trade |-> cross_trade,
     broken_trade_message |-> broken_trade_message, noii |-> noii, rpii |-> rpii,
     direct_listing_with_capital_raise_price_discovery |-> direct_listing_with_capital_raise_price_discovery]
=============================================================================
