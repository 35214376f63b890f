--------------------------- MODULE MCScenarioPlayer ---------------------------
(* Instances of ScenarioPlayer: the configurations each run starts from. *)
EXTENDS ScenarioPlayer

\* Two session objects for each client: the one that ends and the one that takes its
\* place.
TwoEach == Clients \X {1, 2}
MadeFor == [s \in TwoEach |-> s[1]]

Configuration(trigger, scenario, lasts, repeats, channels) ==
  [trigger |-> trigger, scenario |-> scenario, lasts |-> lasts, repeats |-> repeats,
   channels |-> channels]

\* Without keys: for ever, once for a duration, and again after an interval.
Keyless ==
  {Configuration(FALSE, "none", FALSE, FALSE, <<>>),
   Configuration(FALSE, "none", TRUE, FALSE, <<>>),
   Configuration(FALSE, "none", TRUE, TRUE, <<>>)}

\* Once for a duration.
OnceOnly == {Configuration(FALSE, "none", TRUE, FALSE, <<>>)}

\* With keys: the default scenario with its voices, for ever or once for a duration,
\* and "reconnect"; and two without keys: one that sends on a data channel, and one
\* that sends on two by mistake given the same label.
Keyed ==
  {Configuration(TRUE, "none", FALSE, FALSE, <<>>),
   Configuration(TRUE, "none", TRUE, FALSE, <<>>),
   Configuration(TRUE, "reconnect", FALSE, FALSE, <<>>),
   Configuration(FALSE, "none", TRUE, TRUE, <<"chat">>),
   Configuration(FALSE, "none", TRUE, FALSE, <<"chat", "chat">>)}
=============================================================================
