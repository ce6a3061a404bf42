------------------------------ MODULE MCDaemon ------------------------------
(* The daemon with both patterns.                                          *)
EXTENDS Daemon, Patterns

BothPatterns == {vlan_tagger_pattern, detailed_logging_pattern}

(* main() builds vlan_tagger_pattern: a signal comes on its own thread or  *)
(* on a node's in the middle, a second one on its own.                     *)
MainOrTagger ==
  vlan_tagger_pattern :> <<{"main", "Tagger2"}, {"main"}>>
    @@ detailed_logging_pattern :> <<>>
=============================================================================
