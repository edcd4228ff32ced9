-------------------------- MODULE MCDataCollector --------------------------
(***************************************************************************)
(* Small instances of DataCollector, and what the recipe says of the       *)
(* daemon, as a property.                                                  *)
(***************************************************************************)
EXTENDS DataCollector

\* What the sensors send, in order.
PairsOther == <<"htu21d_temp", "htu21d_rh", "htu21d_temp", "htu21d_rh", "other">>
TwoOthers  == <<"other", "other">>
ThreeOthers == <<"other", "other", "other">>

\* "Collecting data from all the sensors and sending them via Tailscale to web
\* server" (data-collector.bb:2): the reset of the store after a delivery
\* erases only readings that the payload carried.
ClearsOnlyCarried ==
    [][(wpc = "deliver" /\ cur # 0 /\ cur' = 0 /\ proc' = "up") =>
            (ReadingsIn(Stored) \subseteq ReadingsIn(Carried(cur)))]_vars

=============================================================================
