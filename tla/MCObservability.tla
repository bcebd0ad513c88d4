--------------------------- MODULE MCObservability ---------------------------
(* Instances of Observability for TLC.                                      *)
EXTENDS Observability, TLC

Symmetry == Permutations(Unit)

\* Two units in one Loki application, one in another.
MCLoki == {<<"loki", 1>>, <<"loki", 2>>, <<"agent", 1>>}

\* The dashboard of the charm, which has the variables already; one with its
\* own names, as exported by Grafana; one without variables; a broken file.
Shipped == [json |-> TRUE, uid |-> 1, templated |-> TRUE, inputs |-> {},
            vars |-> DatasourceDropdowns \cup TopologyDropdowns,
            panels |-> {"prometheusds", "grafana"}, typed |-> {}, nested |-> {}]
Exported == [json |-> TRUE, uid |-> 2, templated |-> TRUE,
             inputs |-> {[name |-> "DS_LOKI", kind |-> "loki"]},
             vars |-> {[name |-> "DS_PROM", kind |-> "prometheus"],
                       [name |-> "topic", kind |-> "none"]},
             panels |-> {"DS_PROM", "DS_LOKI", "prometheusds"},
             typed |-> {"DS_LOKI"}, nested |-> {}]
Plain == [json |-> TRUE, uid |-> 3, templated |-> FALSE, inputs |-> {},
          vars |-> {}, panels |-> {"metrics", "loki", "prometheus"},
          typed |-> {"loki", "prometheus"}, nested |-> {}]
Broken == [json |-> FALSE, uid |-> 4, templated |-> FALSE, inputs |-> {},
           vars |-> {}, panels |-> {}, typed |-> {}, nested |-> {}]

MCFiles == <<{Shipped}, {Shipped, Exported, Plain, Broken}>>

=============================================================================
