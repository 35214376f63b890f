------------------------------ MODULE Instances ------------------------------
(***************************************************************************)
(* src/src/main.cpp:217-325, the way through Zakuro::Run                   *)
(* (src/src/zakuro.cpp:208-639) as main() sees it, and the thread of       *)
(* src/src/http_server.cpp:37-69: how the threads of the process begin and *)
(* end.                                                                    *)
(*                                                                         *)
(* An instance's thread sleeps until its turn in the hatch, sets up, runs  *)
(* its io_context until that is stopped, and counts itself down.  From     *)
(* zakuro.cpp:499 until it leaves that scope it catches SIGINT and         *)
(* SIGTERM; a signal that nobody catches kills the process, and one that   *)
(* is caught reaches every instance that is registered then.  An exception *)
(* that leaves Run() kills the process too.                                *)
(*                                                                         *)
(* The thread that writes the statistics holds stats_mut except while it   *)
(* waits; its wait ends after ten seconds at the latest, so a              *)
(* notification is one more reason to wake up and needs no variable.       *)
(* Left out: what is written, and how long anything takes.                 *)
(***************************************************************************)
EXTENDS Naturals, FiniteSets

CONSTANTS
  N,          \* the number of instances
  Kinds,      \* of instances: "once" stops by itself (every client exits), "endless"
              \* does not, "broken" fails in its set-up
  MaxSignals  \* bound: signals sent to the process

ASSUME NAssumption == N \in Nat
ASSUME KindsAssumption == Kinds \subseteq {"once", "endless", "broken"}
ASSUME MaxSignalsAssumption == MaxSignals \in Nat

Instances == 1 .. N

VARIABLES
  kind,       \* of each instance
  stage,      \* of each instance's thread
  stop,       \* has a signal told the instance's io_context to stop?
  countdown,  \* stats_countdown
  stats,      \* the thread that writes statistics, "none" without --output-file-connection-id
  http,       \* the HTTP server's thread, "none" without --http-port
  httpStop,   \* has its io_context been stopped?
  joined,     \* main(): the instance threads that it has joined
  main,       \* main(): where it is after that
  killed,     \* the process has been killed
  signals     \* signals sent so far

instanceVars == <<kind, stage, stop>>
serverVars == <<http, httpStop>>
mainVars == <<joined, main>>
vars == <<instanceVars, countdown, stats, serverVars, mainVars, killed, signals>>

TypeOK ==
  /\ kind \in [Instances -> Kinds]
  /\ stage \in [Instances -> {"hatching", "starting", "running", "ended", "over"}]
  /\ stop \in [Instances -> BOOLEAN]
  /\ countdown \in 0 .. N
  /\ stats \in {"none", "unlocked", "waiting", "writing", "over"}
  /\ http \in {"none", "starting", "serving", "over"}
  /\ httpStop \in BOOLEAN
  /\ joined \in 0 .. N
  /\ main \in {"joining", "leaving", "stopping", "returned"}
  /\ killed \in BOOLEAN
  /\ signals \in 0 .. MaxSignals

\* All threads have been started.
Init ==
  /\ kind \in [Instances -> Kinds]
  /\ stage = [i \in Instances |-> "hatching"]
  /\ stop = [i \in Instances |-> FALSE]
  /\ countdown = N
  /\ stats \in {"none", "unlocked"}
  /\ http \in {"none", "starting"}
  /\ httpStop = FALSE
  /\ joined = 0
  /\ main = "joining"
  /\ killed = FALSE
  /\ signals = 0

Alive == ~killed /\ main # "returned"

-----------------------------------------------------------------------------
(* The thread of an instance. *)

Moves(i, from, to) ==
  /\ Alive
  /\ stage[i] = from
  /\ stage' = [stage EXCEPT ![i] = to]

\* sleep_for is over.
Hatches(i) ==
  /\ Moves(i, "hatching", "starting")
  /\ UNCHANGED <<kind, stop, countdown, stats, serverVars, mainVars, killed, signals>>

\* Mutant: a failed set-up leaves the thread at once.
SetUpFailsForGood(i) ==
  /\ kind[i] = "broken"
  /\ Moves(i, "starting", "over")

\* Run() returns before it has an io_context.
SetUpFails(i) ==
  /\ kind[i] = "broken"
  /\ Moves(i, "starting", "ended")

\* The set-up has come to the signal set, and goes on to run().
StartsRunning(i) ==
  /\ kind[i] # "broken"
  /\ Moves(i, "starting", "running")

SetsUp(i) ==
  /\ SetUpFails(i) \/ StartsRunning(i)
  /\ UNCHANGED <<kind, stop, countdown, stats, serverVars, mainVars, killed, signals>>

\* run() returns because every client has exited or on a signal, the clients are
\* cleared, and the scope of the io_context and its signal set is left.
RunReturns(i) ==
  /\ stop[i] \/ kind[i] = "once"
  /\ Moves(i, "running", "ended")
  /\ UNCHANGED <<kind, stop, countdown, stats, serverVars, mainVars, killed, signals>>

\* An exception leaves Run() and with it the thread.
RunThrows(i) ==
  /\ Alive
  /\ stage[i] \in {"starting", "running"}
  /\ killed' = TRUE
  /\ UNCHANGED <<instanceVars, countdown, stats, serverVars, mainVars, signals>>

\* stats_mut is free.
Unlocked == stats # "writing"

\* The last lines of the thread, under stats_mut.
CountsDown(i) ==
  /\ Unlocked
  /\ Moves(i, "ended", "over")
  /\ countdown' = countdown - 1
  /\ UNCHANGED <<kind, stop, stats, serverVars, mainVars, killed, signals>>

-----------------------------------------------------------------------------
(* The thread that writes the statistics. *)

\* Mutant: off by one.
CountZeroSoon == countdown <= 1

CountZero == countdown = 0

\* wait_for: its predicate is tested under the lock, at once and whenever it wakes
\* up; after ten seconds it returns though the predicate is false.
StatsWaits ==
  /\ Alive
  /\ \/ /\ stats \in {"unlocked", "waiting"} /\ CountZero
        /\ stats' = "over"
     \/ /\ stats = "unlocked" /\ ~CountZero
        /\ stats' = "waiting"
     \/ /\ stats = "waiting" /\ ~CountZero
        /\ stats' = "writing"
  /\ UNCHANGED <<instanceVars, countdown, serverVars, mainVars, killed, signals>>

\* The file is written, and the lock goes out of scope.
StatsWrites ==
  /\ Alive
  /\ stats = "writing"
  /\ stats' = "unlocked"
  /\ UNCHANGED <<instanceVars, countdown, serverVars, mainVars, killed, signals>>

-----------------------------------------------------------------------------
(* The thread of the HTTP server. *)

\* HttpServer::Run comes to ioc_.run().
HttpServes ==
  /\ Alive
  /\ http = "starting"
  /\ http' = "serving"
  /\ UNCHANGED <<instanceVars, countdown, stats, httpStop, mainVars, killed, signals>>

\* run() returns when it has been stopped, on an exception, and when there is
\* nothing to wait for since the address cannot be resolved.
HttpEnds ==
  /\ Alive
  /\ http = "serving"
  /\ http' = "over"
  /\ UNCHANGED <<instanceVars, countdown, stats, httpStop, mainVars, killed, signals>>

-----------------------------------------------------------------------------
(* main(), from the joins on. *)

Joins ==
  /\ Alive
  /\ main = "joining" /\ joined < N
  /\ stage[joined + 1] = "over"
  /\ joined' = joined + 1
  /\ UNCHANGED <<instanceVars, countdown, stats, serverVars, main, killed, signals>>

\* Mutant: the thread is not joined.
JoinsStatsNever ==
  /\ Alive
  /\ main = "joining" /\ joined = N
  /\ main' = "leaving"
  /\ UNCHANGED <<instanceVars, countdown, stats, serverVars, joined, killed, signals>>

\* After it, main() returns, and destroys what the threads refer to.
JoinsStats ==
  /\ Alive
  /\ main = "joining" /\ joined = N
  /\ stats \in {"none", "over"}
  /\ main' = "leaving"
  /\ UNCHANGED <<instanceVars, countdown, stats, serverVars, joined, killed, signals>>

\* ~HttpServer() and Stop(), up to the join.
StopsHttp ==
  /\ Alive
  /\ main = "leaving"
  /\ main' = "stopping"
  /\ httpStop' = TRUE
  /\ UNCHANGED <<instanceVars, countdown, stats, http, joined, killed, signals>>

\* Stop() has joined the thread, if there was one.
Returns ==
  /\ Alive
  /\ main = "stopping"
  /\ http \in {"none", "over"}
  /\ main' = "returned"
  /\ UNCHANGED <<instanceVars, countdown, stats, serverVars, joined, killed, signals>>

-----------------------------------------------------------------------------
\* SIGINT or SIGTERM.
Signal ==
  /\ Alive
  /\ signals < MaxSignals
  /\ signals' = signals + 1
  /\ LET caught == {i \in Instances : stage[i] = "running"} IN
     /\ killed' = (caught = {})
     /\ stop' = [i \in Instances |-> stop[i] \/ i \in caught]
  /\ UNCHANGED <<kind, stage, countdown, stats, serverVars, mainVars>>

Next ==
  \/ \E i \in Instances :
       Hatches(i) \/ SetsUp(i) \/ RunReturns(i) \/ RunThrows(i) \/ CountsDown(i)
  \/ StatsWaits \/ StatsWrites
  \/ HttpServes \/ HttpEnds
  \/ Joins \/ JoinsStats \/ StopsHttp \/ Returns
  \/ Signal

\* Threads run, sleeps and set-ups end, an instance that ends by itself does, and
\* run() returns once it has been stopped.  A thread that waits for stats_mut again
\* and again gets it: the other holder only writes a file every ten seconds.
Fairness ==
  /\ \A i \in Instances :
       /\ WF_vars(Hatches(i)) /\ WF_vars(SetsUp(i)) /\ WF_vars(RunReturns(i))
       /\ SF_vars(CountsDown(i))
  /\ WF_vars(StatsWaits) /\ WF_vars(StatsWrites)
  /\ WF_vars(HttpServes) /\ WF_vars(httpStop /\ HttpEnds)
  /\ WF_vars(Joins) /\ WF_vars(JoinsStats) /\ WF_vars(StopsHttp) /\ WF_vars(Returns)

Safety == Init /\ [][Next]_vars

Spec == Safety /\ Fairness

-----------------------------------------------------------------------------
(* Properties. *)

\* Statistics are written for as long as an instance runs: the thread ends only
\* when all have ended, also those whose set-up failed (main.cpp:250-255, 313-316).
StatsLast == stats = "over" => \A i \in Instances : stage[i] = "over"

\* stats_mut, stats_cv and the configurations are variables of main() that the
\* threads hold references to: it leaves their scope only when those have ended
\* (319-324).
NothingLeftBehind ==
  main # "joining" =>
    /\ \A i \in Instances : stage[i] = "over"
    /\ stats \in {"none", "over"}

\* An instance ends by itself, fails in its set-up, or has been told to stop.
Ending(i) == kind[i] # "endless" \/ stop[i]

\* When no instance goes on for ever the process ends, with its statistics and its
\* HTTP server (CHANGES.md:303 promises it for instances with a duration).
ProcessEnds == (\A i \in Instances : Ending(i)) ~> ~Alive
=============================================================================
