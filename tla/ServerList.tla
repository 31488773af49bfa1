----------------------------- MODULE ServerList -----------------------------
(***************************************************************************)
(* The list of sources of the daemon and the choice among them (servers.c).*)
(*                                                                         *)
(* es_list.server is a function from 0; of an empty list the table still   *)
(* has element 0, which is not a server.  The times of the statistics are  *)
(* reduced to whether `connect` is set, and the counters to what the code  *)
(* compares: consecutive_packets only with the minimum, bad_packet_count   *)
(* only with the maximum, so each stops where no test tells it apart.      *)
(***************************************************************************)
EXTENDS Integers, Sequences, FiniteSets

CONSTANTS
  MaxServers,      \* bound: the longest servers.conf
  MinConsecutive,  \* g.min_consecutive_packets
  MaxBad           \* g.max_bad_packet_count; 0 disables switching

ASSUME ServersAssumption == MaxServers \in Nat \ {0}
ASSUME LimitsAssumption == MinConsecutive \in Nat /\ MaxBad \in Nat

VARIABLES
  server,    \* es_list.server, or NoList when it was freed
  max,       \* es_list.max: the highest index in use, -1 for an empty list
  current,   \* es_list.current
  refused,   \* es_list.refused_connections
  nopen,     \* history: the source descriptors the process holds
  refusals   \* history: the servers that refused since the last one that did
             \* not, since NULL was returned or since the list was read

listVars == <<server, max, current, refused, nopen, refusals>>


NoList == <<>>
Cap(n, bound) == IF n > bound THEN bound ELSE n

Server == [connect : BOOLEAN, open : BOOLEAN,
           consec : 0..MinConsecutive, bad : 0..(MaxBad + 1)]

init_server == [connect |-> FALSE, open |-> FALSE, consec |-> 0, bad |-> 0]

\* The highest element of the table that is used: element 0 of an empty list.
Last(m) == IF m < 0 THEN 0 ELSE m

ListTypeOK ==
  /\ max \in -1..(MaxServers - 1)
  /\ server \in {NoList} \cup [0..Last(max) -> Server]
  /\ current \in 0..Last(max)
  /\ refused \in 0..(max + 1)
  /\ nopen \in Nat
  /\ refusals \in Seq(0..(MaxServers - 1))

(* init_server_list() ends the program when there is no server. *)
ListInit ==
  /\ max \in 0..(MaxServers - 1)
  /\ server = [i \in 0..max |-> init_server]
  /\ current = 0 /\ refused = 0
  /\ nopen = 0 /\ refusals = <<>>

-----------------------------------------------------------------------------
\* The number of servers of the table that are open.
OpenServers(es) == Cardinality({i \in DOMAIN es : es[i].open})

(* Reading a servers.conf of n servers into an empty table. *)
get_server_list(n) ==
  /\ max' = n - 1
  /\ server' = [i \in 0..Last(n - 1) |-> init_server]
  /\ current' = 0 /\ refused' = 0
  /\ refusals' = <<>>

(* release_server_list() closes every server; what becomes of the table it *)
(* frees is up to the caller.                                              *)
release_server_list == nopen' = nopen - OpenServers(server)

switch_server ==
  \/ refused > 0
  \/ MaxBad > 0 /\ server[current].bad = MaxBad

\* A mutation: a source that has failed is opened again without closing it.
Closed_never == server

\* close_server() of the current server, when it was connected before.
Closed == IF server[current].connect THEN [server EXCEPT ![current].open = FALSE]
                                     ELSE server

\* The server get_next_server() will open.
Chosen ==
  IF server[current].connect /\ switch_server
  THEN IF current + 1 > max THEN 0 ELSE current + 1
  ELSE current

\* A mutation: a server that is opened again begins with no bad marks.
Fresh_forgiven == init_server

\* Its statistics when it is opened: new ones if it was switched to, and only
\* the count of packets starts again if it was not.
Fresh ==
  IF server[current].connect /\ switch_server
  THEN init_server
  ELSE [Closed[current] EXCEPT !.consec = IF server[current].connect THEN 0 ELSE @]

\* A mutation: the server the cycle began with is not tried again.
AllDown_early(n) == n > max

\* So many refusals in a row mean that all the servers are down.
AllDown(n) == n > max + 1

(* get_next_server(), of which `up` says whether the server was opened.    *)
(* The first packet is read and dropped before it counts as open.          *)
get_next_server(up) ==
  LET es == [Fresh EXCEPT !.connect = TRUE, !.open = up,
                          !.bad = IF up THEN @ ELSE Cap(@ + 1, MaxBad + 1)]
      n == IF up THEN 0 ELSE refused + 1
  IN  /\ current' = Chosen
      /\ server' = [Closed EXCEPT ![Chosen] = es]
      /\ refused' = IF AllDown(n) THEN 0 ELSE n
      /\ refusals' = IF up \/ AllDown(n) THEN <<>> ELSE Append(refusals, Chosen)
      /\ nopen' = nopen - OpenServers(server) + OpenServers(Closed)
                        + (IF up THEN 1 ELSE 0)
      /\ UNCHANGED max

(* update_emwin_server_stats() after a packet (ok) or an error. *)
update_emwin_server_stats(es, ok) ==
  LET n == Cap(es.consec + 1, MinConsecutive)
  IN  IF ok THEN [es EXCEPT !.consec = n,
                            !.bad = IF n >= MinConsecutive THEN 0 ELSE @]
            ELSE [es EXCEPT !.bad = IF es.consec < MinConsecutive
                                    THEN Cap(@ + 1, MaxBad + 1) ELSE @]
=============================================================================
