------------------------------ MODULE NetServer ------------------------------
(***************************************************************************)
(* The network server of npemwind: process_connections() in serverm.c,     *)
(* with poll_loop_nowait() of libconnth/poll.c and the identification of   *)
(* clients in appdata.c, run by the npemwin thread between packets, while  *)
(* client threads finish on their own.                                     *)
(*                                                                         *)
(* Each turn of a loop over the table is a step, with the loop's own index *)
(* and bound: most of these loops delete entries of the table they are     *)
(* going through.                                                          *)
(***************************************************************************)
EXTENDS ConnTable

CONSTANTS
    Settings,       \* the settings that are considered
    MaxEntries,     \* bound: entries of the table
    Faults          \* which calls may fail

ASSUME ServerAssumption ==
    /\ NoIp \notin Ip
    /\ Settings \subseteq [maxnetclients : Nat \cup {-1}, v2 : BOOLEAN]
    /\ MaxEntries \in Nat \ {0}
    /\ Faults \subseteq {"accept", "denied", "add", "ident", "read", "queue", "thread",
                   "close"}

VARIABLES
    at,         \* the loop the npemwin thread is in
    i,          \* its index
    numentries, \* its bound, where the code keeps it in a variable
    accepted,   \* the connection poll_add_connection_net is working on
    g           \* the settings: g.maxnetclients (-1 for no limit), and whether
                \* g.serverprotocol is PROTOCOL_EMWIN2; no action changes them

loopvars == <<at, i, numentries, accepted, g>>
vars == <<tablevars, loopvars>>

Nothing == [fd |-> ServerFd, ip |-> NoIp]

Init ==
    /\ TableInit
    /\ at = "packets" /\ i = 1 /\ numentries = 0 /\ accepted = Nothing
    /\ g \in Settings

(* The next turn of a loop, and the first turn of the next loop. *)
NextTurn(bound) ==
    /\ i' = i + 1
    /\ numentries' = bound
    /\ UNCHANGED <<at, accepted, g>>

Enter(loop) ==
    /\ at' = loop
    /\ i' = 1
    /\ numentries' = Len(ce)
    /\ UNCHANGED <<accepted, g>>

Leave ==
    /\ at' = "packets" /\ i' = 1 /\ numentries' = 0 /\ accepted' = Nothing
    /\ UNCHANGED g

(* The process ends, and with it all that it had open. *)
End ==
    /\ conn_table_destroy
    /\ at' = "terminated" /\ accepted' = Nothing
    /\ UNCHANGED <<i, numentries, g>>

-----------------------------------------------------------------------------
(* process_connections *)

\* A new round; poll() will overwrite the revents of the last one.
process_connections ==
    /\ at = "packets"
    /\ at' = "finished" /\ i' = 1 /\ numentries' = Len(ce)
    /\ pfd' = [k \in DOMAIN pfd |-> [pfd[k] EXCEPT !.revents = "none"]]
    /\ UNCHANGED <<ce, nmax, nclients, fds, threads, queues, accepted, g>>

process_finished_stale ==
    /\ at = "finished"
    /\ \/ /\ i <= numentries
          /\ IF conn_element_isnetclient_stoped(ce[i])
             THEN conn_table_del_element(i)
             ELSE UNCHANGED tablevars
          /\ NextTurn(numentries)
       \/ /\ i > numentries
          /\ Enter("unidentified")
          /\ UNCHANGED tablevars

process_finished_short ==
    /\ at = "finished"
    /\ \/ /\ i < numentries
          /\ IF conn_element_isnetclient_stoped(ce[i])
             THEN conn_table_del_element(i) /\ NextTurn(Len(ce'))
             ELSE NextTurn(numentries) /\ UNCHANGED tablevars
       \/ /\ i >= numentries
          /\ Enter("unidentified")
          /\ UNCHANGED tablevars

(* A deleted entry is replaced by the one after it, and i moves on. *)
process_finished_connections ==
    /\ at = "finished"
    /\ \/ /\ i <= numentries
          /\ IF conn_element_isnetclient_stoped(ce[i])
             THEN conn_table_del_element(i) /\ NextTurn(Len(ce'))
             ELSE NextTurn(numentries) /\ UNCHANGED tablevars
       \/ /\ i > numentries
          /\ Enter("unidentified")
          /\ UNCHANGED tablevars

SetProtocol(k, p) ==
    /\ ce' = [ce EXCEPT ![k].protocol = p]
    /\ UNCHANGED <<pfd, nmax, nclients, fds, threads, queues>>

process_unidentified_short ==
    /\ at = "unidentified"
    /\ \/ /\ i < numentries
          /\ IF conn_element_isnetclient(ce[i]) /\ ce[i].protocol = "unknown" /\ ce[i].overdue
             THEN SetProtocol(i, "V1")
             ELSE UNCHANGED tablevars
          /\ NextTurn(numentries)
       \/ /\ i >= numentries
          /\ Enter("spawn")
          /\ UNCHANGED tablevars

(* A client that has not identified itself in time is assumed to be V1. *)
process_unidentified_connections ==
    /\ at = "unidentified"
    /\ \/ /\ i <= numentries
          /\ IF conn_element_isnetclient(ce[i]) /\ ce[i].protocol = "unknown" /\ ce[i].overdue
             THEN \/ SetProtocol(i, "V1") /\ NextTurn(numentries)
                  \/ "ident" \in Faults /\ conn_table_del_element(i) /\ NextTurn(Len(ce'))
             ELSE NextTurn(numentries) /\ UNCHANGED tablevars
       \/ /\ i > numentries
          /\ Enter("spawn")
          /\ UNCHANGED tablevars

(* Identified clients without a thread are given a queue and a thread, or   *)
(* deleted.  When the thread cannot be created the queue is closed twice,   *)
(* the second time after it was freed: nothing, or the end of the process.  *)
spawn_client_threads ==
    /\ at = "spawn"
    /\ \/ /\ i <= numentries
          /\ IF /\ ce[i].thread = "none"
                /\ conn_element_isnetclient(ce[i])
                /\ ce[i].protocol # "unknown"
             THEN \/ conn_element_init4(i) /\ NextTurn(numentries)
                  \/ "queue" \in Faults /\ conn_table_del_element(i) /\ NextTurn(Len(ce'))
                  \/ "thread" \in Faults /\ InitFailsAfterQueue(i) /\ NextTurn(Len(ce'))
                  \/ "thread" \in Faults /\ End
             ELSE NextTurn(numentries) /\ UNCHANGED tablevars
       \/ /\ i > numentries
          /\ Enter("poll")
          /\ UNCHANGED tablevars

-----------------------------------------------------------------------------
(* poll_loop_nowait *)

(* poll() finds any of the connections ready, or fails and reports none. *)
Poll ==
    /\ at = "poll"
    /\ \E ready \in [DOMAIN pfd -> {"none", "in", "hup"}] :
          /\ ready[1] # "hup"
          /\ pfd' = [k \in DOMAIN pfd |-> [pfd[k] EXCEPT !.revents = ready[k]]]
          /\ IF \A k \in DOMAIN pfd : ready[k] = "none" THEN Leave
             ELSE Enter(IF ready[1] = "in" THEN "accept" ELSE "clients")
    /\ UNCHANGED <<ce, nmax, nclients, fds, threads, queues>>

(* tcp_server_accept_conn and get_peer_ip; when accept fails or is          *)
(* interrupted the other connections wait for the next poll.                *)
Accept ==
    /\ at = "accept"
    /\ \/ /\ Len(ce) < MaxEntries
          /\ \E ip \in Ip : accepted' = [fd |-> Lowest(fds), ip |-> ip]
          /\ fds' = fds \cup {accepted'.fd}
          /\ at' = "restore"
          /\ UNCHANGED <<i, numentries, g>>
       \/ /\ "accept" \in Faults \/ Len(ce) >= MaxEntries
          /\ Leave
          /\ UNCHANGED fds
    /\ UNCHANGED <<ce, pfd, nmax, nclients, threads, queues>>

poll_restore_keeps ==
    /\ at = "restore"
    /\ UNCHANGED tablevars
    /\ at' = "admit"
    /\ UNCHANGED <<i, numentries, accepted, g>>

(* poll_restore_connection: a client that connects again loses its old      *)
(* connection, before it is known whether the new one is admitted.  It is   *)
(* refused when the close() of the old one reports an error.                *)
poll_restore_connection ==
    /\ at = "restore"
    /\ LET old == conn_table_find_element_byip(accepted.ip)
       IN  \/ /\ old = {}
              /\ at' = "admit"
              /\ UNCHANGED tablevars
           \/ /\ old # {}
              /\ conn_table_del_element(CHOOSE k \in old : \A j \in old : k <= j)
              /\ \/ at' = "admit"
                 \/ "close" \in Faults /\ at' = "refuse"
    /\ UNCHANGED <<i, numentries, accepted, g>>

full_loose == g.maxnetclients >= 0 /\ nclients > g.maxnetclients

full == g.maxnetclients >= 0 /\ nclients = g.maxnetclients

Refuse ==
    /\ fds' = fds \ {accepted.fd}
    /\ Leave
    /\ UNCHANGED <<ce, pfd, nmax, nclients>>

(* The rest of poll_add_connection_net: access control, the limit, and the  *)
(* new entry.  A refused connection ends the round.                         *)
poll_add_connection_net ==
    /\ at \in {"admit", "refuse"}
    /\ \/ /\ at = "refuse" \/ full \/ "denied" \in Faults \/ "add" \in Faults
          /\ Refuse
       \/ /\ at = "admit" /\ ~full
          /\ conn_table_add_element(accepted.fd, accepted.ip)
          /\ at' = "clients" /\ accepted' = Nothing
          /\ UNCHANGED <<fds, i, numentries, g>>
    /\ UNCHANGED <<threads, queues>>

(* ident_client_protocol *)
ident_client_protocol(p, msg) ==
    IF p # "unknown" THEN p
    ELSE IF msg = "V2" THEN "V2" ELSE "V1"

handle_client ==
    \/ \E p \in {ident_client_protocol(ce[i].protocol, msg) : msg \in {"V1", "V2", "other"}}
              \cup IF "ident" \in Faults THEN {ce[i].protocol} ELSE {} :
          IF g.v2 /\ p # "V2" THEN conn_table_del_element(i) ELSE SetProtocol(i, p)
    \/ "read" \in Faults /\ conn_table_del_element(i)

(* The second loop of poll_loop_wait: hangups, and messages from clients.   *)
(* A connection that hung up and cannot be closed without an error ends the *)
(* process: assert(status == 0).                                            *)
poll_clients ==
    /\ at = "clients"
    /\ \/ /\ i <= Len(ce)
          /\ \/ /\ ~conn_element_isnetclient(ce[i]) \/ pfd[i].revents = "none"
                /\ UNCHANGED tablevars
             \/ /\ conn_element_isnetclient(ce[i]) /\ pfd[i].revents = "hup"
                /\ conn_table_del_element(i)
             \/ /\ conn_element_isnetclient(ce[i]) /\ pfd[i].revents = "in"
                /\ handle_client
          /\ NextTurn(numentries)
       \/ /\ i <= Len(ce) /\ "close" \in Faults
          /\ conn_element_isnetclient(ce[i]) /\ pfd[i].revents = "hup"
          /\ End
       \/ /\ i > Len(ce)
          /\ Leave
          /\ UNCHANGED tablevars

ServerStep ==
    \/ process_connections \/ process_finished_connections
    \/ process_unidentified_connections \/ spawn_client_threads
    \/ Poll \/ Accept \/ poll_restore_connection \/ poll_add_connection_net
    \/ poll_clients

-----------------------------------------------------------------------------
(* Around it *)

(* A client thread runs cleanup(): a write failed, or its queue did. *)
ThreadFinishes ==
    /\ \E k \in DOMAIN ce :
          /\ conn_element_isnetclient_running(ce[k])
          /\ ce' = [ce EXCEPT ![k].thread = "finished"]
    /\ UNCHANGED <<pfd, nmax, nclients, fds, threads, queues, loopvars>>

(* client_id_wait_secs go by; "now" is read once per round. *)
WaitExpires(f) ==
    /\ at = "packets"
    /\ \E k \in DOMAIN ce :
          /\ ce[k].fd = f
          /\ conn_element_isnetclient(ce[k]) /\ ~ce[k].overdue
          /\ ce' = [ce EXCEPT ![k].overdue = TRUE]
    /\ UNCHANGED <<pfd, nmax, nclients, fds, threads, queues, loopvars>>

(* terminate_network_server, after the quit flag. *)
Terminate ==
    /\ at = "packets"
    /\ End

Terminated == at = "terminated" /\ UNCHANGED vars

Next ==
    \/ ServerStep \/ ThreadFinishes
    \/ \E f \in fds : WaitExpires(f)
    \/ Terminate \/ Terminated

Spec == Init /\ [][Next]_vars

(* While a server or device feeds npemwin_loop, it comes back to            *)
(* process_connections() once a second; every call in it returns.  Time     *)
(* passes.  Nothing is assumed of the clients.                              *)
FairSpec ==
    /\ Spec
    /\ WF_vars(ServerStep)
    /\ \A f \in 1..(MaxEntries - 1) : SF_vars(WaitExpires(f))

-----------------------------------------------------------------------------
Clients == {k \in DOMAIN ce : conn_element_isnetclient(ce[k])}

Entry ==
    [type : {"server", "client"}, fd : Nat, ip : Ip \cup {NoIp},
     protocol : {"unknown", "V1", "V2"}, thread : {"none", "running", "finished"},
     cq : Nat, overdue : BOOLEAN]

ServerTypeOK ==
    /\ ce \in Seq(Entry)
    /\ pfd \in Seq([fd : Nat, revents : {"none", "in", "hup"}])
    /\ accepted \in [fd : Nat, ip : Ip \cup {NoIp}] /\ g \in Settings
    /\ nmax \in Nat /\ nclients \in Nat
    /\ at \in {"packets", "finished", "unidentified", "spawn", "poll", "accept", "restore",
               "admit", "refuse", "clients", "terminated"}
    /\ i \in Nat /\ numentries \in Nat

(* The two arrays stay parallel and within their capacity through every     *)
(* deletion made by a loop over them, and the listening socket stays first; *)
(* no loop reads an entry past the end, although the loops delete entries   *)
(* as they go and keep the number of entries in a variable.                 *)
TablesParallel ==
    /\ ServerTypeOK
    /\ Len(pfd) = Len(ce) /\ Len(ce) <= nmax
    /\ \A k \in DOMAIN ce : pfd[k].fd = ce[k].fd
    /\ at # "terminated" => {k \in DOMAIN ce : ce[k].type = "server"} = {1}
    /\ (at \in {"finished", "unidentified", "spawn"} /\ i <= numentries) => i \in DOMAIN ce

(* Every client descriptor is open exactly while it is in the table or      *)
(* about to be put there; nothing leaks and nothing is closed under a       *)
(* client.  Every thread and every queue belongs to one entry: a deleted    *)
(* client leaves neither behind, and none is created twice.                 *)
ResourcesAccounted ==
    /\ fds \subseteq 1..MaxEntries
    /\ fds = {ce[k].fd : k \in Clients} \cup
             (IF accepted = Nothing THEN {} ELSE {accepted.fd})
    /\ \A j, k \in DOMAIN ce : ce[j].fd = ce[k].fd => j = k
    /\ threads = {ce[k].fd : k \in {j \in Clients : ce[j].thread # "none"}}
    /\ queues = {ce[k].cq : k \in {j \in Clients : ce[j].thread # "none"}}
    /\ \A j, k \in Clients : ce[j].cq = ce[k].cq /\ ce[j].cq # NoQueue => j = k

(* nclients, which the limit is compared with for equality, is the number   *)
(* of clients and never passes the limit.                                   *)
ClientLimit ==
    /\ nclients = Cardinality(Clients)
    /\ g.maxnetclients >= 0 => nclients <= g.maxnetclients

(* poll_restore_connection: "no duplicates are allowed": a client has one   *)
(* connection.                                                              *)
OneConnectionPerIp == \A j, k \in Clients : ce[j].ip = ce[k].ip => j = k

(* A finished client is removed in the end, although the loop that removes  *)
(* them skips the entry after each one it deletes.                          *)
FinishedIsRemoved ==
    \A f \in 1..(MaxEntries - 1) :
        (\E k \in Clients : ce[k].fd = f /\ ce[k].thread = "finished")
            ~> ~(\E k \in Clients : ce[k].fd = f /\ ce[k].thread = "finished")

(* A client that never says a word is served in the end, or dropped. *)
SilentIsServed ==
    \A f \in 1..(MaxEntries - 1) :
        (\E k \in Clients : ce[k].fd = f /\ ce[k].protocol = "unknown")
            ~> ~(\E k \in Clients : ce[k].fd = f /\ ce[k].thread = "none")
=============================================================================
