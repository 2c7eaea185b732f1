--------------------------- MODULE MCMetricStore ---------------------------
(* The metric store on small instances.                                    *)
EXTENDS MetricStore

D(kind, source, keys) ==
  [kind |-> kind, type |-> "int", source |-> source, keys |-> keys]

(* One metric with a key.                                                  *)
Keyed == {<<D("counter", 1, <<"k">>)>>}

(* Two metrics, the first a scalar or not, the second of varying kind.     *)
Pairs == {<<D("counter", 1, <<>>), D("counter", 2, <<"k">>)>>,
          <<D("counter", 1, <<"k">>), D("counter", 2, <<"k">>)>>,
          <<D("counter", 1, <<>>), D("gauge", 2, <<"k">>)>>}
=============================================================================
