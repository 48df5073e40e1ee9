----------------------------- MODULE MCGateway ------------------------------
(***************************************************************************)
(* Gateway for TLC: with and without the gateway device, the proxy and a   *)
(* server of the device's own, and one configuration that is refused.      *)
(***************************************************************************)
EXTENDS Gateway

MCConfigs ==
    { [enabled |-> TRUE,  device_id |-> TRUE,  proxy |-> "ok",  servers |-> FALSE, dir |-> FALSE],
      [enabled |-> TRUE,  device_id |-> TRUE,  proxy |-> "unusable", servers |-> TRUE, dir |-> TRUE],
      [enabled |-> FALSE, device_id |-> FALSE, proxy |-> "off", servers |-> TRUE,  dir |-> TRUE],
      [enabled |-> TRUE,  device_id |-> FALSE, proxy |-> "ok",  servers |-> TRUE,  dir |-> FALSE] }

=============================================================================
