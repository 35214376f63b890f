------------------------------ MODULE Options ------------------------------
(***************************************************************************)
(* src/src/main.cpp:67-208, with ParseArgs, ConvertEnv and                 *)
(* ParseInstanceToArgs of src/src/util.cpp: the configurations that the    *)
(* process runs, made from its command line and its configuration file.    *)
(*                                                                         *)
(* The options of an instance that behave alike are represented by one:    *)
(*   "url"       --sora-signaling-url, the only one that takes every value *)
(*   "channel"   --sora-channel-id, and the others without which the       *)
(*               program exits                                             *)
(*   "name"      --name, and all that may be left out                      *)
(*   "metadata"  --sora-metadata, and all that are passed as JSON          *)
(* "port" is an option of the whole process.  A value is where it comes    *)
(* from: Line is the command line, and <<n, c>> the n-th entry under       *)
(* "instances", where ${} has been replaced by c; Raw stands for a ${}     *)
(* that has not been replaced.  Checks of single values, --version and     *)
(* what is printed are left out.                                           *)
(***************************************************************************)
EXTENDS Naturals, Sequences, SequencesExt

CONSTANTS
  Givens,      \* the sets of options that an entry may give
  MaxEntries,  \* bound: entries under "instances"
  MaxNum       \* bound: "instance-num"

ASSUME GivensAssumption == Givens \subseteq SUBSET {"url", "channel", "name", "metadata"}
ASSUME EntriesAssumption == MaxEntries \in Nat /\ MaxNum \in Nat

Plain == {"channel", "name", "metadata"}
Required == {"channel"}
InstanceKeys == Plain \union {"url"}

Line == <<0, 0>>
Common == <<0, 1>>
Raw == 0
None == <<0, 2>>

\* An entry: "instance-num", and the options that it gives.
Entry == [num : 0 .. MaxNum, keys : Givens]

VARIABLES
  file,     \* the configuration file: its entries and whether it gives the port
  line,     \* the options on the command line, with --config if there is a file
  entry,    \* the entry that is being read
  copy,     \* of it
  config,   \* config, reused for every instance
  port,     \* http_port
  configs,  \* configs
  outcome   \* what has become of it

optVars == <<file, line, entry, copy, config, port, configs, outcome>>

NoConfig == [url |-> << >>, channel |-> None, name |-> None, metadata |-> None, id |-> 0]

OptStart(f, l) ==
  /\ file = f /\ line = l
  /\ entry = 0 /\ copy = 0
  /\ config = NoConfig
  /\ port = None
  /\ configs = << >>
  /\ outcome = "parsing"

OptInit ==
  \E n \in 0 .. MaxEntries, p \in BOOLEAN :
    \E es \in [1 .. n -> Entry] :
      \E l \in SUBSET (InstanceKeys \union {"port", "config"}) :
        OptStart([entries |-> es, port |-> p], l)

-----------------------------------------------------------------------------
(* Arguments: the values of every option, in their order.  That of different options does *)
(* not matter to CLI::App.                                                                *)

ArgsOf(value) ==
  [k \in InstanceKeys \union {"port"} |-> IF k \in DOMAIN value THEN <<value[k]>> ELSE << >>]

CommonArgs == ArgsOf([k \in IF file.port THEN {"port"} ELSE {} |-> Common])

\* The command line without --config.
PostArgs == ArgsOf([k \in line \ {"config"} |-> Line])

\* ConvertEnv of one value; JSON is passed as it is.
Converted(n, c, k) == IF k = "metadata" THEN <<n, Raw>> ELSE <<n, c>>

\* One of the argument lists of ParseInstanceToArgs, for the c-th copy.
InstanceArgs(n, c) == ArgsOf([k \in file.entries[n].keys |-> Converted(n, c, k)])

AllArgs(n, c) == [k \in DOMAIN PostArgs |-> CommonArgs[k] \o InstanceArgs(n, c)[k] \o PostArgs[k]]

\* take_last, and take_all for the URLs: an option that is not given leaves its variable alone.
Parsed(args, old, k) ==
  IF args[k] = << >> THEN old ELSE IF k = "url" THEN args[k] ELSE Last(args[k])

ParsedConfig(args, old) ==
  [url |-> Parsed(args, old.url, "url"), channel |-> Parsed(args, old.channel, "channel"),
   name |-> Parsed(args, old.name, "name"), metadata |-> Parsed(args, old.metadata, "metadata"),
   id |-> old.id]

LacksRequired(c) == c.url = << >> \/ \E k \in Required : c[k] = None

\* Mutant: config keeps what the instance before has left in it.
Reused(old) == old

\* config = ZakuroConfig()
Fresh(old) == NoConfig

-----------------------------------------------------------------------------
(* main() *)

\* The first ParseArgs: with a configuration file, only what is common to the process
\* counts; without one the configuration is complete, or the program exits.
ParsesCommandLine ==
  /\ outcome = "parsing" /\ entry = 0
  /\ LET parsed == ParsedConfig(PostArgs, config) IN
       /\ port' = Parsed(PostArgs, port, "port")
       /\ config' = parsed
       /\ IF "config" \in line
          THEN /\ outcome' = IF file.entries = << >> THEN "failed" ELSE "parsing"
               /\ entry' = 1
               /\ UNCHANGED configs
          ELSE /\ outcome' = IF LacksRequired(parsed) THEN "exited" ELSE "parsed"
               /\ configs' = IF LacksRequired(parsed) THEN configs ELSE Append(configs, parsed)
               /\ UNCHANGED entry
  /\ UNCHANGED <<file, line, copy>>

\* The next copy of the entry.
ParsesInstance ==
  /\ outcome = "parsing" /\ entry \in 1 .. Len(file.entries)
  /\ copy < file.entries[entry].num
  /\ copy' = copy + 1
  /\ LET args == AllArgs(entry, copy + 1)
         parsed == ParsedConfig(args, Fresh(config))
     IN  /\ port' = Parsed(args, port, "port")
         /\ config' = parsed
         /\ IF LacksRequired(parsed)
            THEN outcome' = "exited" /\ UNCHANGED configs
            ELSE configs' = Append(configs, parsed) /\ UNCHANGED outcome
  /\ UNCHANGED <<file, line, entry>>

\* The entry's loops are over.
GoesToNextEntry ==
  /\ outcome = "parsing" /\ entry \in 1 .. Len(file.entries)
  /\ copy = file.entries[entry].num
  /\ entry' = entry + 1
  /\ copy' = 0
  /\ outcome' = IF entry = Len(file.entries) THEN "parsed" ELSE outcome
  /\ UNCHANGED <<file, line, config, port, configs>>

\* Every configuration gets its number.
NumbersConfigs ==
  /\ outcome = "parsed"
  /\ outcome' = "ready"
  /\ configs' = [i \in DOMAIN configs |-> [configs[i] EXCEPT !.id = i - 1]]
  /\ UNCHANGED <<file, line, entry, copy, config, port>>

OptNext == ParsesCommandLine \/ ParsesInstance \/ GoesToNextEntry \/ NumbersConfigs

OptSpec == OptInit /\ [][OptNext]_optVars

-----------------------------------------------------------------------------
(* Properties. *)

\* The instances that the input asks for, each a copy of an entry, and which of two is first.
Asked ==
  IF "config" \in line
  THEN UNION {{<<n, c>> : c \in 1 .. file.entries[n].num} : n \in DOMAIN file.entries}
  ELSE {Line}

Before(a, b) == a[1] < b[1] \/ (a[1] = b[1] /\ a[2] < b[2])

\* What the entry itself says of an option.
Own(n, c, k) ==
  IF n > 0 /\ k \in file.entries[n].keys
  THEN <<IF k = "metadata" THEN <<n, Raw>> ELSE <<n, c>>>> ELSE << >>

\* The command line overrides an entry.
Due(n, c, k) == IF k \in line THEN <<Line>> ELSE Own(n, c, k)

GivenTwice(n, k) == k \in line /\ n > 0 /\ k \in file.entries[n].keys

\* A configuration is what its instance asks for.  Of URLs that both the entry and the command
\* line give, only ArgumentsOverride says something.
IsOwn(made, n, c) ==
  /\ GivenTwice(n, "url") \/ made.url = Due(n, c, "url")
  /\ made.url # << >>
  /\ \A k \in Plain :
       <<made[k]>> = IF Due(n, c, k) = << >> THEN <<None>> ELSE Due(n, c, k)
  /\ \A k \in Required : made[k] # None

\* The configurations cs are those of S, in their order.
AreThoseOf(cs, S) ==
  \E f \in [DOMAIN cs -> S] :
    /\ \A i, j \in DOMAIN cs : i < j => Before(f[i], f[j])
    /\ {f[i] : i \in DOMAIN cs} = S
    /\ \A i \in DOMAIN cs : IsOwn(cs[i], f[i][1], f[i][2])

\* An instance runs with what its own entry and the command line say and nothing else:
\* nothing of an instance before it is left in config, every copy has its own number in
\* place of ${}, the command line wins (except over URLs, see ArgumentsOverride), also for
\* what is common to the process, and an instance that lacks what is required keeps all of
\* them from starting (main.cpp:148-174, 207, util.cpp:421-434, 466-640).
EachInstanceItsOwn ==
  /\ outcome = "ready" =>
       /\ AreThoseOf(configs, Asked)
       /\ \A i \in DOMAIN configs :
            /\ configs[i].id = i - 1
            /\ port = IF "port" \in line THEN Line
                      ELSE IF "config" \in line /\ file.port THEN Common ELSE None
  /\ outcome = "exited" =>
       \E a \in Asked : \E k \in Required \union {"url"} : Due(a[1], a[2], k) = << >>

\* What is given on the command line overrides the configuration file, as CHANGES.md:508
\* says; but the URLs of the command line are added to those of the file (util.cpp:196-198).
ArgumentsOverride ==
  \A i \in DOMAIN configs : \A k \in line \intersect InstanceKeys :
    configs[i][k] = IF k = "url" THEN <<Line>> ELSE Line
=============================================================================
