----------------------------- MODULE TrfxSockets -----------------------------
(***************************************************************************)
(* The snapshot of the sockets that connections, listeners and drop work   *)
(* on (src/trfx_connections.c, src/trfx_socket_owners.c).  It is put       *)
(* together from four tables of the kernel and a scan of /proc, one after  *)
(* the other, while sockets are opened, closed and change state.           *)
(*                                                                         *)
(* The list of connections reads the tables and then looks for owners; the *)
(* list of socket owners scans first and keeps the owned sockets of the    *)
(* IPv4 tables.  The order in which rows are printed is left out, and so   *)
(* the two lists are sets.                                                 *)
(***************************************************************************)
EXTENDS Naturals, FiniteSets

CONSTANTS
  Sockets,
  Socket,         \* what does not change of each: table, states, endpoints, holder
  Readable,       \* the processes whose descriptors this user may read
  MAX_CONNECTIONS,
  MAX_SOCKET_OWNERS,
  MAX_SOCKET_OWNER_MAP_ENTRIES,
  MaxChanges      \* bound on the changes during one snapshot

TcpTables == {"tcp", "tcp6"}
Tables    == TcpTables \cup {"udp", "udp6"}

TcpStates == {"ESTABLISHED", "SYN_SENT", "SYN_RECV", "FIN_WAIT1", "FIN_WAIT2",
              "TIME_WAIT", "CLOSE", "CLOSE_WAIT", "LAST_ACK", "LISTEN", "CLOSING",
              "NEW_SYN_RECV", "UNKNOWN"}
UdpStates == {"ESTABLISHED", "UNCONN", "UNKNOWN"}
States    == TcpStates \cup UdpStates

Closed  == "closed"
Unowned == "-"

Proto(s) == IF Socket[s].table \in TcpTables THEN "TCP" ELSE "UDP"

StatesOf(table) == IF table \in TcpTables THEN TcpStates ELSE UdpStates

ASSUME SocketAssumption ==
  /\ \A s \in Sockets : /\ Socket[s].table \in Tables
                        /\ Socket[s].states \subseteq StatesOf(Socket[s].table)
                        /\ Socket[s].holder # Unowned
  /\ IsFiniteSet(Sockets)
  /\ MAX_CONNECTIONS \in Nat
  /\ MAX_SOCKET_OWNERS \in Nat
  /\ MAX_SOCKET_OWNER_MAP_ENTRIES \in Nat
  /\ MaxChanges \in Nat

VARIABLES
  socket_state,   \* of every socket, or Closed
  list_pc,        \* where the collection is
  rows,           \* connections[], or owners[]
  owner_map,      \* the sockets in the map from inodes to processes
  unreadable,     \* the tables that could not be opened
  changes,        \* changes since the collection began
  stable,         \* the sockets that have been open and did not change since
  was             \* every socket that has been open since, in each of its states

snapshot == <<rows, owner_map, unreadable>>
history  == <<changes, stable, was>>
socket_vars == <<socket_state, list_pc, snapshot, history>>

Open == {s \in Sockets : socket_state[s] # Closed}

Row == [socket : Sockets, state : States, owner : {Socket[s].holder : s \in Sockets} \cup {Unowned}]

SocketsTypeOK ==
  /\ socket_state \in [Sockets -> States \cup {Closed}]
  /\ list_pc \in {"idle", "tcp", "udp", "tcp6", "udp6", "owners", "listed",
                  "scan", "owned_tcp", "owned_udp", "owned"}
  /\ rows \subseteq Row
  /\ owner_map \subseteq Sockets
  /\ unreadable \subseteq Tables
  /\ changes \in 0 .. MaxChanges
  /\ stable \subseteq Open
  /\ was \subseteq Sockets \X States

SocketsInit ==
  /\ socket_state = [s \in Sockets |-> Closed]
  /\ list_pc = "idle"
  /\ rows = {} /\ owner_map = {} /\ unreadable = {}
  /\ changes = 0 /\ stable = {} /\ was = {}

-----------------------------------------------------------------------------
(* The kernel: a socket is opened, is closed or changes its state. *)
SocketChanges(s, to) ==
  /\ list_pc \notin {"idle", "listed", "owned"}
  /\ changes < MaxChanges
  /\ to \in (Socket[s].states \cup {Closed}) \ {socket_state[s]}
  /\ socket_state' = [socket_state EXCEPT ![s] = to]
  /\ changes' = changes + 1
  /\ stable' = stable \ {s}
  /\ was' = IF to = Closed THEN was ELSE was \cup {<<s, to>>}
  /\ UNCHANGED <<list_pc, snapshot>>

StatesInUse == UNION {Socket[s].states : s \in Sockets}

(* The sockets are as they are when the collection begins. *)
BeginList(label) ==
  /\ list_pc = "idle"
  /\ socket_state' \in {now \in [Sockets -> StatesInUse \cup {Closed}] :
                          \A s \in Sockets : now[s] \in Socket[s].states \cup {Closed}}
  /\ stable' = {s \in Sockets : socket_state'[s] # Closed}
  /\ was' = {<<s, socket_state'[s]>> : s \in stable'}
  /\ list_pc' = label
  /\ UNCHANGED <<snapshot, changes>>

-----------------------------------------------------------------------------
(* should_skip_connection_state *)
LeftOut(s) ==
  /\ Socket[s].table \in TcpTables
  /\ socket_state[s] \in {"TIME_WAIT", "CLOSE", "CLOSE_WAIT", "LAST_ACK", "CLOSING"}

(* The sockets of a table that has no room for all candidates: as many as   *)
(* there is room for, in the kernel's order.                                *)
Taken(candidates, room) ==
  {some \in SUBSET candidates :
     \/ some = candidates /\ Cardinality(candidates) <= room
     \/ Cardinality(candidates) > room /\ Cardinality(some) = room}

NewRow(s, owner) == [socket |-> s, state |-> socket_state[s], owner |-> owner]

(* should_skip_connection_state leaves these of a table. *)
Listable(table) == {s \in Open : Socket[s].table = table /\ ~LeftOut(s)}

(* Mutant for ParseTable: every table starts the list again. *)
ParseTableFromStart(table) ==
  \E some \in Taken(Listable(table), MAX_CONNECTIONS) :
    rows' = {NewRow(s, Unowned) : s \in some}

(* trfx_parse_connection_file *)
ParseTable(table) ==
  \E some \in Taken(Listable(table), MAX_CONNECTIONS - Cardinality(rows)) :
    rows' = rows \cup {NewRow(s, Unowned) : s \in some}

AfterTable == [tcp |-> "udp", udp |-> "tcp6", tcp6 |-> "udp6", udp6 |-> "owners"]

(* trfx_parse_connection_path: a table that cannot be opened adds nothing   *)
(* and nothing is said of it.                                              *)
ReadTable(table) ==
  /\ list_pc = table
  /\ list_pc' = AfterTable[table]
  /\ \/ ParseTable(table) /\ UNCHANGED unreadable
     \/ UNCHANGED rows /\ unreadable' = unreadable \cup {table}
  /\ UNCHANGED <<socket_state, owner_map, history>>

(* A socket in TIME_WAIT has neither an inode nor a descriptor. *)
HasInode(s) == socket_state[s] # "TIME_WAIT"

(* trfx_scan_socket_owner_map: the sockets behind the descriptors that can  *)
(* be read, while there is room.                                           *)
OwnerMaps ==
  Taken({s \in Open : HasInode(s) /\ Socket[s].holder \in Readable},
        MAX_SOCKET_OWNER_MAP_ENTRIES)

(* apply_socket_owner_map; the sorting that follows is left out. *)
ApplyOwners ==
  /\ list_pc = "owners"
  /\ list_pc' = "listed"
  /\ owner_map' \in OwnerMaps
  /\ rows' = {IF row.socket \in owner_map'
              THEN [row EXCEPT !.owner = Socket[row.socket].holder]
              ELSE row : row \in rows}
  /\ UNCHANGED <<socket_state, unreadable, history>>

-----------------------------------------------------------------------------
(* get_socket_owner_info *)
ScanOwners ==
  /\ list_pc = "scan"
  /\ list_pc' = "owned_tcp"
  /\ owner_map' \in OwnerMaps
  /\ UNCHANGED <<socket_state, rows, unreadable, history>>

(* trfx_parse_socket_owner_path; the list does not keep the state. *)
ReadOwnedTable(label, table, next) ==
  /\ list_pc = label
  /\ list_pc' = next
  /\ \/ /\ \E some \in Taken({s \in Open : /\ Socket[s].table = table
                                           /\ HasInode(s) /\ s \in owner_map},
                             MAX_SOCKET_OWNERS - Cardinality(rows)) :
             rows' = rows \cup {NewRow(s, Socket[s].holder) : s \in some}
        /\ UNCHANGED unreadable
     \/ UNCHANGED rows /\ unreadable' = unreadable \cup {table}
  /\ UNCHANGED <<socket_state, owner_map, history>>

(* The list was local to the command, and nobody looks at sockets any more. *)
ForgetList ==
  /\ list_pc \in {"listed", "owned"}
  /\ list_pc' = "idle" /\ socket_state' = [s \in Sockets |-> Closed]
  /\ rows' = {} /\ owner_map' = {} /\ unreadable' = {}
  /\ changes' = 0 /\ stable' = {} /\ was' = {}

(* The row that the arguments of drop connection name. *)
ConnectionMatches(row, proto, local, remote) ==
  /\ Proto(row.socket) = proto
  /\ Socket[row.socket].local = local
  /\ Socket[row.socket].remote = remote

(* The row that those of drop socket name: a row of the list of owners has  *)
(* its ports in fields of their own, and they are not compared.             *)
SocketMatches(row, proto, local, remote) ==
  /\ Proto(row.socket) = proto
  /\ Socket[row.socket].local_address = local
  /\ Socket[row.socket].remote_address = remote

Collect ==
  \/ \E table \in Tables : ReadTable(table)
  \/ ApplyOwners
  \/ ScanOwners
  \/ ReadOwnedTable("owned_tcp", "tcp", "owned_udp")
  \/ ReadOwnedTable("owned_udp", "udp", "owned")

KernelStep == \E s \in Sockets : \E to \in States \cup {Closed} : SocketChanges(s, to)

SocketsNext ==
  BeginList("tcp") \/ BeginList("scan") \/ Collect \/ KernelStep \/ ForgetList

SocketsSpec == SocketsInit /\ [][SocketsNext]_socket_vars

-----------------------------------------------------------------------------
(* What a snapshot can be trusted for, although no instant of the machine   *)
(* looked like it.  Every row is a socket that was open in the state shown  *)
(* at some time of the collection, with no owner or its own.                *)
RowsWereTrue ==
  \A row \in rows :
    /\ <<row.socket, row.state>> \in was
    /\ row.owner \in {Unowned, Socket[row.socket].holder}

(* No socket is listed twice, although it may change between the tables. *)
OneRowEach == \A r1, r2 \in rows : r1.socket = r2.socket => r1 = r2

(* Nothing could have been left out for want of room. *)
EnoughRoom(limit) == Cardinality({pair[1] : pair \in was}) <= limit

OwnerIsKnown(s) ==
  /\ HasInode(s) /\ Socket[s].holder \in Readable
  /\ EnoughRoom(MAX_SOCKET_OWNER_MAP_ENTRIES)

(* A socket that stays as it is during the whole collection is in the list, *)
(* with its owner where that can be known, unless it is of a kind, of a     *)
(* table or beyond a size that the list leaves out.                         *)
SteadyAreListed ==
  /\ list_pc = "listed" /\ EnoughRoom(MAX_CONNECTIONS) =>
       \A s \in stable :
         ~LeftOut(s) /\ Socket[s].table \notin unreadable =>
           \E row \in rows : /\ row.socket = s
                             /\ OwnerIsKnown(s) => row.owner = Socket[s].holder
  /\ list_pc = "owned" /\ EnoughRoom(MAX_SOCKET_OWNERS) =>
       \A s \in stable :
         /\ Socket[s].table \in {"tcp", "udp"} \ unreadable
         /\ OwnerIsKnown(s)
         => \E row \in rows : row.socket = s

ListingIsFaithful == RowsWereTrue /\ OneRowEach /\ SteadyAreListed
=============================================================================
