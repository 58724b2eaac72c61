---------------------------- MODULE MCFeedReads ----------------------------
(***************************************************************************)
(* Small instances of FeedReads for TLC: one source that fails in every    *)
(* way; one that asks for pauses and may be taken down; one that two       *)
(* operators take down; two that answer while each is taken down.          *)
(***************************************************************************)
EXTENDS FeedReads

CONSTANTS o1, o2, t1, t2

Failing == [registry |-> {1}, matching |-> {}, citable |-> {}, lasting |-> TRUE,
            answers |-> Answers \ {"askedToWait"}, operators |-> {}]
Asking == [registry |-> {1}, matching |-> {}, citable |-> {}, lasting |-> TRUE,
           answers |-> {"good", "notModified", "askedToWait"}, operators |-> {<<o1, 1>>}]
TakenTwice == [registry |-> {1}, matching |-> {1}, citable |-> {{1}}, lasting |-> FALSE,
               answers |-> {"good"}, operators |-> {<<o1, 1>>, <<o2, 1>>}]
TakenDown == [registry |-> {1, 2}, matching |-> {1, 2}, citable |-> {{1, 2}}, lasting |-> FALSE,
              answers |-> {"good"}, operators |-> {<<o1, 1>>, <<o2, 2>>}]

Cases == {Failing, Asking, TakenTwice, TakenDown}

=============================================================================
