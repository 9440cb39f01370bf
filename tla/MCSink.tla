------------------------------- MODULE MCSink -------------------------------
(* Instances of Sink for TLC. *)
EXTENDS Sink

CONSTANTS a, b

Memories == [kafka |-> {"none"}, webhook |-> {"none"}, aws |-> {"none", "window"},
             redis |-> {"none", "window", "forever"}, postgres |-> {"forever"},
             stdout |-> {"none"}]

\* Every sink with every memory, on an input that ends.
Every == {c \in Config : /\ c.dedup \in Memories[c.sink]
                         /\ c.quarantine /\ c.closes /\ ~c.probe}

\* A probe, no dead-letter file and an input that stays open.
Probing == {c \in Config : /\ <<c.sink, c.dedup>> \in {<<"kafka", "none">>, <<"redis", "window">>}
                           /\ ~c.quarantine /\ c.probe /\ ~c.closes}

MCSetups ==
  [config : {c \in Every : c.dedup # "none"}, input : {<<a, a, b>>}] \cup
  [config : {c \in Every : c.dedup = "none"}, input : {<<a, Poison, b>>}] \cup
  [config : {c \in Every : c.dedup = "none"}, input : {<<a, Odd>>}] \cup
  [config : Probing, input : {<<a, b>>}]
=============================================================================
