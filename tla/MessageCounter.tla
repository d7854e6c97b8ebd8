--------------------------- MODULE MessageCounter ---------------------------
(***************************************************************************)
(* message_counter: for every message type that has been seen how often,   *)
(* and the sequence numbers of the first and the last of them.             *)
(***************************************************************************)
EXTENDS Integers, FiniteSetsExt

NoMessages == [t \in {} |-> 0]

CountedForgetful(messages, id, seqn) ==
    [t \in {id} \union DOMAIN messages |->
        IF t # id THEN messages[t] ELSE [n |-> 1, first |-> seqn, last |-> seqn]]

(* find, or emplace stats{1, seqn, seqn}.                                  *)
Counted(messages, id, seqn) ==
    [t \in {id} \union DOMAIN messages |->
        IF t # id THEN messages[t]
        ELSE IF id \in DOMAIN messages
             THEN [messages[id] EXCEPT !.n = @ + 1, !.last = seqn]
             ELSE [n |-> 1, first |-> seqn, last |-> seqn]]

TotalOf(messages, ids) == MapThenSumSet(LAMBDA t : messages[t].n, ids)

(* done: the types seen, and of all types those that were not, for each    *)
(* name is erased from the map of all names once it is reported.           *)
NeverErased(types, reported) == types
Missing(types, reported) == types \ reported

NoReport == [reported |-> {}, missing |-> {}, total |-> 0]

ReportOf(messages, types) ==
    LET reported == DOMAIN messages \intersect types
    IN  [reported |-> reported,
         missing  |-> Missing(types, reported),
         total    |-> TotalOf(messages, reported)]
=============================================================================
