------------------------------ MODULE MCClusters ------------------------------
(* Two clusters that may ask for a node pool of the same name, x, which has the control plane *)
EXTENDS Clusters

MCNames == {"a", "b"}
MCWanted == [a |-> <<"x">>, b |-> <<"x">>]
MCTemplated == [a |-> <<"x", "y">>, b |-> <<>>]
MCControlling == {"x"}
MCVersions == {<<1, 1>>, <<2, 0>>, <<3, 0>>, <<3, 1>>}
MCDefault == <<1, 1>>
MCBodies == [a |-> {[version |-> <<0, 0>>, timed |-> TRUE, from |-> "default", replicas |-> 1],
                    [version |-> <<3, 1>>, timed |-> FALSE, from |-> "named", replicas |-> 0]},
             b |-> {[version |-> <<3, 1>>, timed |-> FALSE, from |-> "options", replicas |-> 1]}]
MCCosts == [failure |-> 2, delete |-> 1, pool |-> 1, edit |-> 1, age |-> 1, zone |-> 2, world |-> 2, restart |-> 1]
=============================================================================
