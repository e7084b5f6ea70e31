------------------------------ MODULE MCIntake ------------------------------
(* Small instances of Intake for TLC. *)
EXTENDS Intake, TLC

Receivers(stream, http) == [stream |-> stream, http |-> http, stats |-> "off"]
StatsOnly(to) == [stream |-> "none", http |-> "none", stats |-> to]

\* every receiver, the HTTP receivers beside another one, and the collector with each
\* kind of endpoint
Mixed == {Receivers("tcp", "none"), Receivers("pickle", "none"),
          Receivers("udp", "prometheus"), Receivers("udp", "telegraf"),
          StatsOnly("local"), StatsOnly("remote")}
WithTcp == {Receivers("tcp", "none"), Receivers("tcp", "prometheus")}
OneStat == <<"received">>
=============================================================================
