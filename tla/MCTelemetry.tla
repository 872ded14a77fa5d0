---------------------------- MODULE MCTelemetry ------------------------------
(* Instances of Telemetry for TLC. *)
EXTENDS Telemetry

Budget(p, kubernetes, actions, events, faults, logged) ==
  [provider |-> p, kubernetes |-> kubernetes, actions |-> actions, commands |-> 1,
   events |-> events, faults |-> faults, lines |-> logged]

\* Caches and generations without a line of traffic, then traffic alone.
CacheSetups ==
  {Budget(p, FALSE, Actions, 1, 1, <<>>): p \in {"napcat", "snowluma"}}
    \cup {Budget(p, TRUE, Actions, 1, 1, <<>>): p \in {"napcat", "llbot"}}
TrafficSetups ==
  {Budget("napcat", FALSE, {"update-onebot-websockets"}, 0, 0, <<{"sent"}>>),
   Budget("llbot", TRUE, {"restart"}, 0, 0, <<{"event report"}>>),
   Budget("llbot", FALSE, {}, 0, 1, <<{"received"}>>),
   Budget("snowluma", FALSE, {}, 0, 0, <<{"event"}, {"ws-client", "connected"}>>),
   Budget("snowluma", FALSE, {}, 0, 0, <<{"ws-client"}, {"event"}>>)}
EverySetup == CacheSetups \cup TrafficSetups
=============================================================================
