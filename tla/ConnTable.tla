------------------------------ MODULE ConnTable ------------------------------
(***************************************************************************)
(* The table of connections of the network server: libconnth/conn.c, and   *)
(* the life of its elements in libconnth/ce.c (init1 to init4, release).   *)
(* The table is two arrays, ce[] and pfd[], that must stay parallel; both  *)
(* are sequences here, and index 1 holds the listening socket.             *)
(*                                                                         *)
(* A client's thread is seen only through what the npemwin thread sees of  *)
(* it (created, finished); ClientThread has its insides, and shows that    *)
(* the join in conn_element_release always returns.                        *)
(***************************************************************************)
EXTENDS Integers, Sequences, FiniteSets

CONSTANTS
    Ip,         \* addresses of clients
    NoIp        \* the null ip of the listening socket

VARIABLES
    ce,         \* ct->ce
    pfd,        \* ct->pfd
    nmax,       \* ct->nmax: the capacity of both arrays
    nclients,   \* ct->nclients
    fds,        \* client descriptors that are open
    threads,    \* descriptors of the clients whose thread is not yet joined
    queues      \* client queues that are open

tablevars == <<ce, pfd, nmax, nclients, fds, threads, queues>>

ServerFd == 0
NoQueue == 0

(* The lowest free number: descriptors, and names for new queues. *)
Lowest(used) == CHOOSE k \in 1..(Cardinality(used) + 1) :
                    k \notin used /\ \A j \in 1..(k - 1) : j \in used

(* conn_element_init1 *)
Element(type, fd, ip) ==
    [type |-> type, fd |-> fd, ip |-> ip, protocol |-> "unknown",
     thread |-> "none", cq |-> NoQueue, overdue |-> FALSE]

conn_element_isnetclient(e) == e.type = "client"
conn_element_isnetclient_running(e) == conn_element_isnetclient(e) /\ e.thread = "running"
conn_element_isnetclient_stoped(e) == conn_element_isnetclient(e) /\ e.thread = "finished"

(* conn_table_create, and the entry of the listening socket. *)
TableInit ==
    /\ ce = <<Element("server", ServerFd, NoIp)>>
    /\ pfd = <<[fd |-> ServerFd, revents |-> "none"]>>
    /\ nmax = 1 /\ nclients = 0
    /\ fds = {} /\ threads = {} /\ queues = {}

conn_table_find_element_byip(ip) == {k \in DOMAIN ce : ce[k].ip = ip}

(* conn_table_grow, when both arrays can be reallocated. *)
conn_table_grow == IF Len(ce) = nmax THEN 2 * nmax ELSE nmax

(* conn_table_add_element: the revents of the new entry are cleared. *)
conn_table_add_element(fd, ip) ==
    /\ nmax' = conn_table_grow
    /\ ce' = Append(ce, Element("client", fd, ip))
    /\ pfd' = Append(pfd, [fd |-> fd, revents |-> "none"])
    /\ nclients' = nclients + 1

(* An array of which the elements after the k-th were moved down by one.    *)
Shifted(s, k) == [j \in 1..(Len(s) - 1) |-> IF j < k THEN s[j] ELSE s[j + 1]]

conn_table_del_element_keeps(k) ==
    /\ queues' = queues \ {ce[k].cq}
    /\ threads' = threads \ {ce[k].fd}
    /\ ce' = Shifted(ce, k)
    /\ pfd' = Shifted(pfd, k)
    /\ nclients' = IF conn_element_isnetclient(ce[k]) THEN nclients - 1 ELSE nclients
    /\ UNCHANGED <<fds, nmax>>

(* conn_table_del_element: conn_element_release (the thread is cancelled    *)
(* and joined, the queue closed), the socket closed, both arrays shifted.   *)
conn_table_del_element(k) ==
    /\ queues' = queues \ {ce[k].cq}
    /\ threads' = threads \ {ce[k].fd}
    /\ fds' = fds \ {pfd[k].fd}
    /\ ce' = Shifted(ce, k)
    /\ pfd' = Shifted(pfd, k)
    /\ nclients' = IF conn_element_isnetclient(ce[k]) THEN nclients - 1 ELSE nclients
    /\ UNCHANGED nmax

(* conn_element_init4 when everything succeeds. *)
conn_element_init4(k) ==
    LET q == Lowest(queues)
    IN  /\ queues' = queues \cup {q}
        /\ threads' = threads \cup {ce[k].fd}
        /\ ce' = [ce EXCEPT ![k].cq = q, ![k].thread = "running"]
        /\ UNCHANGED <<pfd, nmax, nclients, fds>>

(* conn_element_init4 when the thread cannot be created, and the deletion   *)
(* of the element that follows: the queue just opened is closed, and ce->cq *)
(* still points to it when the element is released.  What is here is the    *)
(* outcome in which the second close does nothing; in the other the process *)
(* is ended (NetServer).                                                    *)
InitFailsAfterQueue(k) ==
    /\ fds' = fds \ {pfd[k].fd}
    /\ ce' = Shifted(ce, k)
    /\ pfd' = Shifted(pfd, k)
    /\ nclients' = nclients - 1
    /\ UNCHANGED <<nmax, threads, queues>>

(* conn_table_destroy: every client's socket closed, every element released. *)
conn_table_destroy ==
    /\ ce' = <<>> /\ pfd' = <<>>
    /\ fds' = {}
    /\ threads' = threads \ {ce[k].fd : k \in DOMAIN ce}
    /\ queues' = queues \ {ce[k].cq : k \in DOMAIN ce}
    /\ nclients' = 0
    /\ UNCHANGED nmax
=============================================================================
