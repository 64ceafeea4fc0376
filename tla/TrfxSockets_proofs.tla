------------------------- MODULE TrfxSockets_proofs -------------------------
(***************************************************************************)
(* What the lists of sockets can be trusted for, for any sockets, any      *)
(* sizes of the arrays and any number of changes while they are made.      *)
(***************************************************************************)
EXTENDS TrfxSockets, FiniteSetTheorems, TLAPS

FirstChain  == {"tcp", "udp", "tcp6", "udp6", "owners", "listed"}
SecondChain == {"scan", "owned_tcp", "owned_udp", "owned"}

(* The tables that have been read. *)
HaveRead(label) ==
  CASE label \in {"udp", "owned_udp"}    -> {"tcp"}
    [] label \in {"tcp6", "owned"}       -> {"tcp", "udp"}
    [] label = "udp6"                    -> {"tcp", "udp", "tcp6"}
    [] label \in {"owners", "listed"}    -> Tables
    [] OTHER                             -> {}

RowSockets == {row.socket : row \in rows}
WasSockets == {pair[1] : pair \in was}

InList(s) == \E row \in rows : row.socket = s

(* Every open socket is remembered with the state it is in. *)
OpenAreKept == list_pc # "idle" => \A s \in Open : <<s, socket_state[s]>> \in was

NothingYet ==
  list_pc = "idle" =>
    rows = {} /\ owner_map = {} /\ unreadable = {} /\ was = {} /\ stable = {} /\ changes = 0

RowsAreOfTables ==
  \A row \in rows : Socket[row.socket].table \in HaveRead(list_pc)

(* What has been promised of the tables read so far. *)
SteadyInFirst ==
  list_pc \in FirstChain /\ EnoughRoom(MAX_CONNECTIONS) =>
    \A s \in stable :
      ~LeftOut(s) /\ Socket[s].table \in HaveRead(list_pc) \ unreadable => InList(s)

SteadyInSecond ==
  list_pc \in SecondChain /\ EnoughRoom(MAX_SOCKET_OWNERS) =>
    \A s \in stable :
      OwnerIsKnown(s) /\ Socket[s].table \in HaveRead(list_pc) \ unreadable => InList(s)

(* The owners that can be known are known once they were looked for. *)
SteadyOwned ==
  list_pc \in {"listed", "owned_tcp", "owned_udp"} =>
    \A s \in stable : OwnerIsKnown(s) => s \in owner_map

RowsHaveOwners ==
  list_pc = "listed" =>
    \A row \in rows : row.socket \in owner_map => row.owner = Socket[row.socket].holder

SocketsInv ==
  /\ SocketsTypeOK
  /\ RowsWereTrue /\ OneRowEach
  /\ OpenAreKept /\ NothingYet /\ RowsAreOfTables
  /\ SteadyInFirst /\ SteadyInSecond /\ SteadyOwned /\ RowsHaveOwners

-----------------------------------------------------------------------------
LEMMA StatesAre ==
  /\ Closed \notin States
  /\ \A s \in Sockets : Socket[s].states \subseteq States
BY SocketAssumption DEF States, TcpStates, UdpStates, StatesOf, Closed

(* Only sockets are remembered, and of them there are finitely many. *)
LEMMA WasIsFinite ==
  ASSUME SocketsTypeOK
  PROVE  WasSockets \subseteq Sockets /\ IsFiniteSet(WasSockets)
<1>1. WasSockets \subseteq Sockets
  BY DEF SocketsTypeOK, WasSockets
<1>. QED BY <1>1, SocketAssumption, FS_Subset

(* Room that is enough for more sockets was enough for fewer. *)
LEMMA RoomOnlyShrinks ==
  ASSUME SocketsTypeOK, SocketsTypeOK', was \subseteq was', NEW limit \in Nat,
         EnoughRoom(limit)'
  PROVE  EnoughRoom(limit)
<1>0. WasSockets' \subseteq Sockets
  BY DEF WasSockets, SocketsTypeOK
<1>1. WasSockets \subseteq WasSockets' /\ IsFiniteSet(WasSockets')
  <2>1. IsFiniteSet(WasSockets')
    BY <1>0, SocketAssumption, FS_Subset
  <2>2. WasSockets \subseteq WasSockets'
    BY DEF WasSockets
  <2>. QED BY <2>1, <2>2
<1>2. IsFiniteSet(WasSockets) /\ Cardinality(WasSockets) <= Cardinality(WasSockets')
  BY <1>1, FS_Subset
<1>3. Cardinality(WasSockets) \in Nat /\ Cardinality(WasSockets') \in Nat
  BY <1>1, <1>2, FS_CardinalityType
<1>. QED BY <1>2, <1>3 DEF EnoughRoom, WasSockets

(* There are as many rows as sockets in them. *)
LEMMA RowsCount ==
  ASSUME SocketsTypeOK, RowsWereTrue, OneRowEach
  PROVE  /\ RowSockets \subseteq WasSockets
         /\ IsFiniteSet(rows) /\ IsFiniteSet(RowSockets)
         /\ Cardinality(rows) = Cardinality(RowSockets)
<1>1. RowSockets \subseteq WasSockets
  <2>. SUFFICES ASSUME NEW row \in rows PROVE row.socket \in WasSockets
    BY DEF RowSockets
  <2>1. <<row.socket, row.state>> \in was
    BY DEF RowsWereTrue
  <2>. QED BY <2>1 DEF WasSockets
<1>2. IsFiniteSet(RowSockets)
  <2>1. IsFiniteSet(WasSockets)
    BY WasIsFinite
  <2>. QED BY <1>1, <2>1, FS_Subset
<1> DEFINE g == [s \in RowSockets |-> CHOOSE row \in rows : row.socket = s]
<1>3. g \in Bijection(RowSockets, rows)
  <2>1. \A s \in RowSockets : g[s] \in rows /\ g[s].socket = s
    BY DEF RowSockets
  <2>2. \A row \in rows : row.socket \in RowSockets /\ g[row.socket] = row
    BY <2>1 DEF RowSockets, OneRowEach
  <2>3. g \in [RowSockets -> rows]
    BY <2>1
  <2>. HIDE DEF g
  <2>4. g \in Injection(RowSockets, rows)
    <3>1. \A a, b \in RowSockets : g[a] = g[b] => a = b
      BY <2>1, Zenon
    <3>. QED BY <2>3, <3>1 DEF Injection, IsInjective
  <2>5. g \in Surjection(RowSockets, rows)
    BY <2>2, <2>3 DEF Surjection
  <2>. QED BY <2>4, <2>5 DEF Bijection
<1>4. ExistsBijection(RowSockets, rows)
  BY <1>3 DEF ExistsBijection
<1>. QED BY <1>1, <1>2, <1>4, FS_Bijection

(* Sockets that are not in the list yet find room in it. *)
LEMMA CandidatesFit ==
  ASSUME SocketsTypeOK, RowsWereTrue, OneRowEach, NEW limit \in Nat, EnoughRoom(limit),
         NEW candidates \in SUBSET WasSockets, candidates \cap RowSockets = {}
  PROVE  Taken(candidates, limit - Cardinality(rows)) = {candidates}
<1>1. IsFiniteSet(WasSockets) /\ IsFiniteSet(candidates) /\ IsFiniteSet(RowSockets)
  <2>1. IsFiniteSet(WasSockets) /\ IsFiniteSet(RowSockets)
    BY WasIsFinite, RowsCount
  <2>. QED BY <2>1, FS_Subset
<1>2. Cardinality(candidates \cup RowSockets) = Cardinality(candidates) + Cardinality(RowSockets)
  <2>1. Cardinality(candidates \cap RowSockets) = 0
    BY FS_EmptySet
  <2>2. Cardinality(candidates) \in Nat /\ Cardinality(RowSockets) \in Nat
    BY <1>1, FS_CardinalityType
  <2>3. Cardinality(candidates \cup RowSockets) =
          Cardinality(candidates) + Cardinality(RowSockets) - Cardinality(candidates \cap RowSockets)
    BY <1>1, FS_Union
  <2>. QED BY <2>1, <2>2, <2>3
<1>3. Cardinality(candidates \cup RowSockets) <= Cardinality(WasSockets)
  <2>1. candidates \cup RowSockets \in SUBSET WasSockets
    BY RowsCount
  <2>. QED BY <1>1, <2>1, FS_Subset
<1>4. /\ Cardinality(candidates) \in Nat /\ Cardinality(RowSockets) \in Nat
      /\ Cardinality(WasSockets) \in Nat /\ Cardinality(WasSockets) <= limit
  BY <1>1, FS_CardinalityType DEF EnoughRoom, WasSockets
<1>5. Cardinality(candidates) <= limit - Cardinality(rows)
  BY <1>2, <1>3, <1>4, RowsCount
<1>6. ~(Cardinality(candidates) > limit - Cardinality(rows))
  BY <1>4, <1>5, RowsCount
<1>. QED BY <1>5, <1>6 DEF Taken

-----------------------------------------------------------------------------
LEMMA SocketsInvInit == SocketsInit => SocketsInv
<1>. SUFFICES ASSUME SocketsInit PROVE SocketsInv
  OBVIOUS
<1>1. SocketsTypeOK
  BY SocketAssumption DEF SocketsInit, SocketsTypeOK, Open
<1>2. RowsWereTrue /\ OneRowEach /\ OpenAreKept /\ NothingYet /\ RowsAreOfTables
  BY DEF SocketsInit, RowsWereTrue, OneRowEach, OpenAreKept, NothingYet, RowsAreOfTables
<1>3. SteadyInFirst /\ SteadyInSecond /\ SteadyOwned /\ RowsHaveOwners
  BY DEF SocketsInit, SteadyInFirst, SteadyInSecond, SteadyOwned, RowsHaveOwners,
         FirstChain, SecondChain
<1>. QED BY <1>1, <1>2, <1>3 DEF SocketsInv

(* The kernel changes a socket: nothing is promised of it any more, and it  *)
(* is remembered in its new state.                                          *)
LEMMA KernelKeeps ==
  ASSUME SocketsInv, NEW s \in Sockets, NEW to \in States \cup {Closed}, SocketChanges(s, to)
  PROVE  SocketsInv'
<1>. USE DEF SocketsInv
<1>1. /\ list_pc # "idle" /\ UNCHANGED <<list_pc, rows, owner_map, unreadable>>
      /\ socket_state \in [Sockets -> States \cup {Closed}]
      /\ socket_state' = [socket_state EXCEPT ![s] = to]
      /\ stable' = stable \ {s} /\ stable \subseteq Open
      /\ was' = IF to = Closed THEN was ELSE was \cup {<<s, to>>}
      /\ changes' = changes + 1 /\ changes < MaxChanges
  BY DEF SocketChanges, SocketsTypeOK, snapshot
<1>2. \A x \in stable' : x \in Open /\ x \in Open' /\ socket_state'[x] = socket_state[x]
  BY <1>1 DEF Open
<1>3. SocketsTypeOK'
  BY <1>1, <1>2, SocketAssumption DEF SocketsTypeOK
<1>4. RowsWereTrue' /\ OneRowEach' /\ RowsAreOfTables' /\ NothingYet' /\ RowsHaveOwners'
  BY <1>1 DEF RowsWereTrue, OneRowEach, RowsAreOfTables, NothingYet, RowsHaveOwners
<1>5. OpenAreKept'
  <2>. SUFFICES ASSUME NEW x \in Open' PROVE <<x, socket_state'[x]>> \in was'
    BY DEF OpenAreKept
  <2>1. CASE x = s
    BY <1>1, <2>1 DEF Open
  <2>2. CASE x # s
    BY <1>1, <2>2 DEF Open, OpenAreKept
  <2>. QED BY <2>1, <2>2
<1>6. was \subseteq was' /\ MAX_CONNECTIONS \in Nat /\ MAX_SOCKET_OWNERS \in Nat
      /\ MAX_SOCKET_OWNER_MAP_ENTRIES \in Nat
  BY <1>1, SocketAssumption
<1>7. \A x \in stable' : /\ LeftOut(x)' = LeftOut(x)
                         /\ OwnerIsKnown(x)' => OwnerIsKnown(x)
  BY <1>2, <1>3, <1>6, RoomOnlyShrinks DEF LeftOut, OwnerIsKnown, HasInode
<1>8. SteadyInFirst' /\ SteadyInSecond' /\ SteadyOwned'
  BY <1>1, <1>3, <1>6, <1>7, RoomOnlyShrinks
  DEF SteadyInFirst, SteadyInSecond, SteadyOwned, InList
<1>. QED BY <1>3, <1>4, <1>5, <1>8

LEMMA BeginListKeeps ==
  ASSUME SocketsInv, NEW label \in {"tcp", "scan"}, BeginList(label)
  PROVE  SocketsInv'
<1>. USE DEF SocketsInv
<1>1. /\ socket_state' \in [Sockets -> StatesInUse \cup {Closed}]
      /\ stable' = {s \in Sockets : socket_state'[s] # Closed}
      /\ was' = {<<s, socket_state'[s]>> : s \in stable'}
      /\ list_pc' = label /\ rows' = {} /\ owner_map' = {} /\ unreadable' = {}
      /\ changes' = 0
  BY DEF BeginList, NothingYet, snapshot
<1>2. socket_state' \in [Sockets -> States \cup {Closed}]
  <2>1. StatesInUse \subseteq States
    BY StatesAre DEF StatesInUse
  <2>. QED BY <1>1, <2>1
<1>3. SocketsTypeOK'
  BY <1>1, <1>2, SocketAssumption DEF SocketsTypeOK, Open
<1>4. OpenAreKept'
  BY <1>1 DEF OpenAreKept, Open
<1>5. RowsWereTrue' /\ OneRowEach' /\ NothingYet' /\ RowsAreOfTables' /\ RowsHaveOwners'
  BY <1>1 DEF RowsWereTrue, OneRowEach, NothingYet, RowsAreOfTables, RowsHaveOwners
<1>6. SteadyInFirst' /\ SteadyInSecond' /\ SteadyOwned'
  BY <1>1 DEF SteadyInFirst, SteadyInSecond, SteadyOwned, HaveRead
<1>. QED BY <1>3, <1>4, <1>5, <1>6

LEMMA ForgetListKeeps ==
  ASSUME SocketsInv, ForgetList
  PROVE  SocketsInv'
<1>. USE DEF SocketsInv, ForgetList
<1>1. SocketsTypeOK'
  BY SocketAssumption DEF SocketsTypeOK, Open
<1>2. OpenAreKept' /\ NothingYet' /\ RowsWereTrue' /\ OneRowEach' /\ RowsAreOfTables'
  BY DEF OpenAreKept, NothingYet, RowsWereTrue, OneRowEach, RowsAreOfTables
<1>3. SteadyInFirst' /\ SteadyInSecond' /\ SteadyOwned' /\ RowsHaveOwners'
  BY DEF SteadyInFirst, SteadyInSecond, SteadyOwned, RowsHaveOwners, FirstChain, SecondChain
<1>. QED BY <1>1, <1>2, <1>3
-----------------------------------------------------------------------------
(* Reading a table, for either list: the rows that are added are of sockets *)
(* of that table that are open and were not in the list.                    *)

LEMMA TableAdds ==
  ASSUME SocketsInv, list_pc # "idle", NEW table \in Tables, table \notin HaveRead(list_pc),
         NEW candidates \in SUBSET {s \in Open : Socket[s].table = table},
         NEW limit \in Nat, NEW some \in Taken(candidates, limit - Cardinality(rows)),
         NEW owner, \A s \in some : owner[s] \in {Unowned, Socket[s].holder},
         rows' = rows \cup {NewRow(s, owner[s]) : s \in some}, was' = was
  PROVE  /\ RowsWereTrue' /\ OneRowEach'
         /\ rows' \subseteq Row
         /\ EnoughRoom(limit) => \A s \in candidates : InList(s)'
<1>. USE DEF SocketsInv
<1>1. some \subseteq candidates
  BY DEF Taken
<1>2. \A s \in candidates : /\ s \in Sockets /\ s \in Open /\ Socket[s].table = table
                            /\ <<s, socket_state[s]>> \in was
                            /\ s \notin RowSockets
  BY DEF OpenAreKept, RowsAreOfTables, RowSockets, Open
<1>3. RowsWereTrue'
  <2>. SUFFICES ASSUME NEW row \in rows'
       PROVE  <<row.socket, row.state>> \in was /\ row.owner \in {Unowned, Socket[row.socket].holder}
    BY DEF RowsWereTrue
  <2>1. CASE row \in rows
    BY <2>1 DEF RowsWereTrue
  <2>2. CASE \E s \in some : row = NewRow(s, owner[s])
    BY <1>1, <1>2, <2>2 DEF NewRow
  <2>. QED BY <2>1, <2>2
<1>4. OneRowEach'
  <2>. SUFFICES ASSUME NEW r1 \in rows', NEW r2 \in rows', r1.socket = r2.socket PROVE r1 = r2
    BY DEF OneRowEach
  <2>1. \A row \in rows : row.socket \in RowSockets
    BY DEF RowSockets
  <2>2. \A row \in rows' : row \notin rows =>
          row.socket \in some /\ row = NewRow(row.socket, owner[row.socket])
    BY DEF NewRow
  <2>3. \A s \in some : s \notin RowSockets
    BY <1>1, <1>2
  <2>4. CASE r1 \in rows /\ r2 \in rows
    BY <2>4 DEF OneRowEach
  <2>5. CASE r1 \notin rows /\ r2 \notin rows
    BY <2>2, <2>5
  <2>. QED BY <2>1, <2>2, <2>3, <2>4, <2>5
<1>5. rows' \subseteq Row
  <2>. SUFFICES ASSUME NEW s \in some PROVE NewRow(s, owner[s]) \in Row
    BY DEF SocketsTypeOK
  <2>1. s \in Sockets /\ socket_state[s] \in States
    BY <1>1, <1>2 DEF SocketsTypeOK, Open
  <2>. QED BY <2>1 DEF NewRow, Row
<1>6. ASSUME EnoughRoom(limit), NEW s \in candidates PROVE InList(s)'
  <2>1. candidates \subseteq WasSockets
    <3>. SUFFICES ASSUME NEW c \in candidates PROVE c \in WasSockets
      OBVIOUS
    <3>1. <<c, socket_state[c]>> \in was
      BY <1>2
    <3>. QED BY <3>1 DEF WasSockets
  <2>2. candidates \cap RowSockets = {}
    BY <1>2
  <2>3. some = candidates
    BY <1>6, <2>1, <2>2, CandidatesFit
  <2>4. NewRow(s, owner[s]) \in rows' /\ NewRow(s, owner[s]).socket = s
    BY <2>3 DEF NewRow
  <2>. QED BY <2>4 DEF InList
<1>. QED BY <1>3, <1>4, <1>5, <1>6

LEMMA ReadTableKeeps ==
  ASSUME SocketsInv, NEW table \in Tables, ReadTable(table)
  PROVE  SocketsInv'
<1>. USE DEF SocketsInv
<1>1. /\ list_pc = table /\ table \in {"tcp", "udp", "tcp6", "udp6"}
      /\ list_pc' = AfterTable[table] /\ UNCHANGED <<socket_state, owner_map, history>>
      /\ \/ ParseTable(table) /\ unreadable' = unreadable
         \/ rows' = rows /\ unreadable' = unreadable \cup {table}
  BY DEF ReadTable, Tables, TcpTables
<1>2. /\ list_pc # "idle" /\ table \notin HaveRead(list_pc)
      /\ HaveRead(list_pc)' = HaveRead(list_pc) \cup {table}
      /\ list_pc' \in {"udp", "tcp6", "udp6", "owners"}
  BY <1>1 DEF HaveRead, AfterTable, Tables, TcpTables
<1>3. /\ RowsWereTrue' /\ OneRowEach' /\ rows' \subseteq Row
      /\ \A s \in Sockets : InList(s) => InList(s)'
      /\ RowsAreOfTables'
      /\ EnoughRoom(MAX_CONNECTIONS) =>
           \A s \in Listable(table) : InList(s)' \/ table \in unreadable'
  <2>1. CASE ParseTable(table)
    <3>1. PICK some \in Taken(Listable(table), MAX_CONNECTIONS - Cardinality(rows)) :
            rows' = rows \cup {NewRow(s, Unowned) : s \in some}
      BY <2>1 DEF ParseTable
    <3>2. PICK owner : owner = [s \in some |-> Unowned]
      OBVIOUS
    <3>3. /\ \A s \in some : owner[s] \in {Unowned, Socket[s].holder}
          /\ rows' = rows \cup {NewRow(s, owner[s]) : s \in some}
      BY <3>1, <3>2
    <3>4. Listable(table) \in SUBSET {s \in Open : Socket[s].table = table}
      BY DEF Listable
    <3>5. was' = was
      BY <1>1 DEF history
    <3>6. /\ RowsWereTrue' /\ OneRowEach' /\ rows' \subseteq Row
          /\ EnoughRoom(MAX_CONNECTIONS) => \A s \in Listable(table) : InList(s)'
      BY <1>2, <3>1, <3>3, <3>4, <3>5, TableAdds, SocketAssumption
    <3>7. RowsAreOfTables'
      <4>1. \A s \in some : Socket[s].table = table
        BY <3>1, <3>4 DEF Taken
      <4>. QED BY <1>2, <3>1, <4>1 DEF RowsAreOfTables, NewRow
    <3>. QED BY <3>1, <3>6, <3>7 DEF InList
  <2>2. CASE rows' = rows /\ unreadable' = unreadable \cup {table}
    BY <1>1, <1>2, <2>2
    DEF RowsWereTrue, OneRowEach, RowsAreOfTables, SocketsTypeOK, InList, history
  <2>. QED BY <1>1, <2>1, <2>2
<1>4. SocketsTypeOK'
  BY <1>1, <1>2, <1>3 DEF SocketsTypeOK, Open, history
<1>5. OpenAreKept' /\ NothingYet' /\ RowsHaveOwners' /\ SteadyOwned' /\ SteadyInSecond'
  BY <1>1, <1>2
  DEF OpenAreKept, NothingYet, RowsHaveOwners, SteadyOwned, SteadyInSecond, SecondChain,
      Open, history
<1>6. SteadyInFirst'
  <2>. SUFFICES ASSUME EnoughRoom(MAX_CONNECTIONS)', NEW s \in stable', ~LeftOut(s)',
                       Socket[s].table \in HaveRead(list_pc)' \ unreadable'
       PROVE  InList(s)'
    BY DEF SteadyInFirst
  <2>1. /\ EnoughRoom(MAX_CONNECTIONS) /\ s \in stable /\ ~LeftOut(s) /\ s \in Open
        /\ s \in Sockets
    BY <1>1 DEF EnoughRoom, LeftOut, history, SocketsTypeOK, Open
  <2>2. CASE Socket[s].table = table
    BY <1>3, <2>1, <2>2 DEF Listable
  <2>3. CASE Socket[s].table # table
    <3>1. Socket[s].table \in HaveRead(list_pc) \ unreadable
      BY <1>1, <1>2, <2>3
    <3>2. list_pc \in FirstChain
      BY <1>1 DEF FirstChain
    <3>. QED BY <1>3, <2>1, <3>1, <3>2 DEF SteadyInFirst
  <2>. QED BY <2>2, <2>3
<1>. QED BY <1>3, <1>4, <1>5, <1>6
-----------------------------------------------------------------------------
(* Whoever looks for owners finds those that can be known. *)
LEMMA OwnersFound ==
  ASSUME SocketsInv, list_pc # "idle", NEW map \in OwnerMaps
  PROVE  /\ map \subseteq Sockets
         /\ \A s \in Open : OwnerIsKnown(s) => s \in map
<1> DEFINE candidates == {s \in Open : HasInode(s) /\ Socket[s].holder \in Readable}
<1>1. map \subseteq candidates /\ candidates \subseteq Open /\ candidates \subseteq Sockets
  BY DEF OwnerMaps, Taken, Open
<1>2. ASSUME EnoughRoom(MAX_SOCKET_OWNER_MAP_ENTRIES) PROVE map = candidates
  <2>1. candidates \subseteq WasSockets
    <3>. SUFFICES ASSUME NEW c \in candidates PROVE c \in WasSockets
      OBVIOUS
    <3>1. <<c, socket_state[c]>> \in was
      BY <1>1 DEF SocketsInv, OpenAreKept
    <3>. QED BY <3>1 DEF WasSockets
  <2>2. IsFiniteSet(WasSockets)
    BY WasIsFinite DEF SocketsInv
  <2>3. /\ IsFiniteSet(candidates)
        /\ Cardinality(candidates) <= Cardinality(WasSockets)
    BY <2>1, <2>2, FS_Subset
  <2>4. /\ Cardinality(candidates) \in Nat /\ Cardinality(WasSockets) \in Nat
        /\ Cardinality(WasSockets) <= MAX_SOCKET_OWNER_MAP_ENTRIES
        /\ MAX_SOCKET_OWNER_MAP_ENTRIES \in Nat
    BY <1>2, <2>2, <2>3, FS_CardinalityType, SocketAssumption DEF EnoughRoom, WasSockets
  <2>5. ~(Cardinality(candidates) > MAX_SOCKET_OWNER_MAP_ENTRIES)
    BY <2>3, <2>4
  <2>. QED BY <2>5 DEF OwnerMaps, Taken
<1>. QED BY <1>1, <1>2 DEF OwnerIsKnown

LEMMA ApplyOwnersKeeps ==
  ASSUME SocketsInv, ApplyOwners
  PROVE  SocketsInv'
<1>. USE DEF SocketsInv
<1>1. PICK map \in OwnerMaps :
        /\ owner_map' = map /\ list_pc = "owners" /\ list_pc' = "listed"
        /\ rows' = {IF row.socket \in map
                    THEN [row EXCEPT !.owner = Socket[row.socket].holder]
                    ELSE row : row \in rows}
        /\ UNCHANGED <<socket_state, unreadable, changes, stable, was>>
  BY DEF ApplyOwners, history
<1>2. map \subseteq Sockets /\ \A s \in Open : OwnerIsKnown(s) => s \in map
  BY <1>1, OwnersFound
<1>3. \A new \in rows' : \E row \in rows :
        /\ row \in Row /\ new \in Row
        /\ new.socket = row.socket /\ new.state = row.state
        /\ IF row.socket \in map THEN new.owner = Socket[row.socket].holder
                                 ELSE new.owner = row.owner
        /\ new = [socket |-> new.socket, state |-> new.state, owner |-> new.owner]
  <2>. SUFFICES ASSUME NEW row \in rows,
                       NEW new, new = IF row.socket \in map
                                      THEN [row EXCEPT !.owner = Socket[row.socket].holder]
                                      ELSE row
       PROVE  /\ row \in Row /\ new \in Row
              /\ new.socket = row.socket /\ new.state = row.state
              /\ IF row.socket \in map THEN new.owner = Socket[row.socket].holder
                                       ELSE new.owner = row.owner
              /\ new = [socket |-> new.socket, state |-> new.state, owner |-> new.owner]
    BY <1>1
  <2>1. row \in Row
    BY DEF SocketsTypeOK
  <2>. QED BY <2>1 DEF Row
<1>4. \A s \in Sockets : InList(s) => InList(s)'
  <2>. SUFFICES ASSUME NEW row \in rows PROVE \E new \in rows' : new.socket = row.socket
    BY DEF InList
  <2>1. row \in Row
    BY DEF SocketsTypeOK
  <2>2. [row EXCEPT !.owner = Socket[row.socket].holder].socket = row.socket
    BY <2>1 DEF Row
  <2>. QED BY <1>1, <2>2
<1>5. SocketsTypeOK'
  BY <1>1, <1>2, <1>3 DEF SocketsTypeOK, Open
<1>6. RowsWereTrue' /\ RowsHaveOwners' /\ RowsAreOfTables'
  <2>1. HaveRead(list_pc)' = HaveRead(list_pc)
    BY <1>1 DEF HaveRead
  <2>. QED BY <1>1, <1>3, <2>1 DEF RowsWereTrue, RowsHaveOwners, RowsAreOfTables
<1>7. OneRowEach'
  BY <1>3 DEF OneRowEach
<1>8. OpenAreKept' /\ NothingYet' /\ SteadyInSecond'
  BY <1>1 DEF OpenAreKept, NothingYet, SteadyInSecond, SecondChain, Open
<1>9. SteadyOwned'
  <2>1. \A s \in stable : s \in Open /\ (OwnerIsKnown(s)' => OwnerIsKnown(s))
    BY <1>1 DEF SocketsTypeOK, OwnerIsKnown, HasInode, EnoughRoom
  <2>. QED BY <1>1, <1>2, <2>1 DEF SteadyOwned
<1>10. SteadyInFirst'
  <2>1. HaveRead(list_pc)' = HaveRead(list_pc) /\ list_pc \in FirstChain
    BY <1>1 DEF HaveRead, FirstChain
  <2>2. \A s \in stable : s \in Sockets /\ LeftOut(s)' = LeftOut(s)
    BY <1>1 DEF SocketsTypeOK, Open, LeftOut
  <2>3. EnoughRoom(MAX_CONNECTIONS)' = EnoughRoom(MAX_CONNECTIONS)
    BY <1>1 DEF EnoughRoom
  <2>. QED BY <1>1, <1>4, <2>1, <2>2, <2>3 DEF SteadyInFirst
<1>. QED BY <1>5, <1>6, <1>7, <1>8, <1>9, <1>10

LEMMA ScanOwnersKeeps ==
  ASSUME SocketsInv, ScanOwners
  PROVE  SocketsInv'
<1>. USE DEF SocketsInv
<1>1. PICK map \in OwnerMaps :
        /\ owner_map' = map /\ list_pc = "scan" /\ list_pc' = "owned_tcp"
        /\ UNCHANGED <<socket_state, rows, unreadable, changes, stable, was>>
  BY DEF ScanOwners, history
<1>2. map \subseteq Sockets /\ \A s \in Open : OwnerIsKnown(s) => s \in map
  BY <1>1, OwnersFound
<1>3. SocketsTypeOK' /\ RowsWereTrue' /\ OneRowEach' /\ OpenAreKept' /\ NothingYet'
  BY <1>1, <1>2
  DEF SocketsTypeOK, RowsWereTrue, OneRowEach, OpenAreKept, NothingYet, Open
<1>4. RowsAreOfTables' /\ RowsHaveOwners' /\ SteadyInFirst' /\ SteadyInSecond'
  BY <1>1
  DEF RowsAreOfTables, RowsHaveOwners, SteadyInFirst, SteadyInSecond, FirstChain, HaveRead
<1>5. SteadyOwned'
  <2>1. \A s \in stable : s \in Open /\ (OwnerIsKnown(s)' => OwnerIsKnown(s))
    BY <1>1 DEF SocketsTypeOK, OwnerIsKnown, HasInode, EnoughRoom
  <2>. QED BY <1>1, <1>2, <2>1 DEF SteadyOwned
<1>. QED BY <1>3, <1>4, <1>5

LEMMA ReadOwnedTableKeeps ==
  ASSUME SocketsInv, NEW label, NEW table, NEW next, ReadOwnedTable(label, table, next),
         \/ label = "owned_tcp" /\ table = "tcp" /\ next = "owned_udp"
         \/ label = "owned_udp" /\ table = "udp" /\ next = "owned"
  PROVE  SocketsInv'
<1>. USE DEF SocketsInv
<1> DEFINE candidates == {s \in Open : Socket[s].table = table /\ HasInode(s) /\ s \in owner_map}
<1>1. /\ list_pc = label /\ list_pc' = next
      /\ UNCHANGED <<socket_state, owner_map, changes, stable, was>>
      /\ \/ /\ \E some \in Taken(candidates, MAX_SOCKET_OWNERS - Cardinality(rows)) :
                 rows' = rows \cup {NewRow(s, Socket[s].holder) : s \in some}
            /\ unreadable' = unreadable
         \/ rows' = rows /\ unreadable' = unreadable \cup {table}
  BY DEF ReadOwnedTable, history
<1>2. /\ list_pc \in {"owned_tcp", "owned_udp"} /\ list_pc # "idle"
      /\ table \in Tables /\ table \notin HaveRead(list_pc)
      /\ HaveRead(list_pc)' = HaveRead(list_pc) \cup {table}
      /\ list_pc' \in {"owned_udp", "owned"}
  BY <1>1 DEF HaveRead, Tables, TcpTables
<1>3. /\ RowsWereTrue' /\ OneRowEach' /\ rows' \subseteq Row
      /\ \A s \in Sockets : InList(s) => InList(s)'
      /\ RowsAreOfTables'
      /\ EnoughRoom(MAX_SOCKET_OWNERS) =>
           \A s \in candidates : InList(s)' \/ table \in unreadable'
  <2>1. CASE \E some \in Taken(candidates, MAX_SOCKET_OWNERS - Cardinality(rows)) :
               rows' = rows \cup {NewRow(s, Socket[s].holder) : s \in some}
    <3>1. PICK some \in Taken(candidates, MAX_SOCKET_OWNERS - Cardinality(rows)) :
            rows' = rows \cup {NewRow(s, Socket[s].holder) : s \in some}
      BY <2>1
    <3>2. PICK owner : owner = [s \in some |-> Socket[s].holder]
      OBVIOUS
    <3>3. /\ \A s \in some : owner[s] \in {Unowned, Socket[s].holder}
          /\ rows' = rows \cup {NewRow(s, owner[s]) : s \in some}
      BY <3>1, <3>2
    <3>4. candidates \in SUBSET {s \in Open : Socket[s].table = table}
      OBVIOUS
    <3>5. PICK named : named = candidates
      OBVIOUS
    <3>6. /\ RowsWereTrue' /\ OneRowEach' /\ rows' \subseteq Row
          /\ EnoughRoom(MAX_SOCKET_OWNERS) => \A s \in named : InList(s)'
      <4>. HIDE DEF candidates
      <4>. QED BY <1>1, <1>2, <3>1, <3>3, <3>4, <3>5, TableAdds, SocketAssumption
    <3>7. RowsAreOfTables'
      <4>1. \A s \in some : Socket[s].table = table
        BY <3>1, <3>4 DEF Taken
      <4>. QED BY <1>2, <3>1, <4>1 DEF RowsAreOfTables, NewRow
    <3>8. \A s \in Sockets : InList(s) => InList(s)'
      BY <3>1 DEF InList
    <3>. QED BY <3>5, <3>6, <3>7, <3>8
  <2>2. CASE rows' = rows /\ unreadable' = unreadable \cup {table}
    BY <1>1, <1>2, <2>2
    DEF RowsWereTrue, OneRowEach, RowsAreOfTables, SocketsTypeOK, InList
  <2>. QED BY <1>1, <2>1, <2>2
<1>4. SocketsTypeOK'
  BY <1>1, <1>2, <1>3 DEF SocketsTypeOK, Open
<1>5. OpenAreKept' /\ NothingYet' /\ RowsHaveOwners' /\ SteadyInFirst'
  BY <1>1, <1>2
  DEF OpenAreKept, NothingYet, RowsHaveOwners, SteadyInFirst, FirstChain, Open
<1>6. \A s \in stable : s \in Open /\ s \in Sockets /\ (OwnerIsKnown(s)' => OwnerIsKnown(s))
  BY <1>1 DEF SocketsTypeOK, OwnerIsKnown, HasInode, EnoughRoom, Open
<1>7. SteadyOwned'
  BY <1>1, <1>2, <1>6 DEF SteadyOwned
<1>8. SteadyInSecond'
  <2>. SUFFICES ASSUME EnoughRoom(MAX_SOCKET_OWNERS)', NEW s \in stable', OwnerIsKnown(s)',
                       Socket[s].table \in HaveRead(list_pc)' \ unreadable'
       PROVE  InList(s)'
    BY DEF SteadyInSecond
  <2>1. /\ EnoughRoom(MAX_SOCKET_OWNERS) /\ s \in stable /\ s \in Open /\ s \in Sockets
        /\ OwnerIsKnown(s) /\ s \in owner_map
    BY <1>1, <1>2, <1>6 DEF EnoughRoom, SteadyOwned
  <2>2. CASE Socket[s].table = table
    BY <1>3, <2>1, <2>2 DEF OwnerIsKnown
  <2>3. CASE Socket[s].table # table
    <3>1. Socket[s].table \in HaveRead(list_pc) \ unreadable /\ list_pc \in SecondChain
      BY <1>1, <1>2, <2>3 DEF SecondChain
    <3>. QED BY <1>3, <2>1, <3>1 DEF SteadyInSecond
  <2>. QED BY <2>2, <2>3
<1>. QED BY <1>3, <1>4, <1>5, <1>7, <1>8

-----------------------------------------------------------------------------
LEMMA SocketsInvNext == SocketsInv /\ [SocketsNext]_socket_vars => SocketsInv'
<1>. SUFFICES ASSUME SocketsInv, [SocketsNext]_socket_vars PROVE SocketsInv'
  OBVIOUS
<1>1. CASE BeginList("tcp")
  BY <1>1, BeginListKeeps
<1>2. CASE BeginList("scan")
  BY <1>2, BeginListKeeps
<1>3. ASSUME NEW table \in Tables, ReadTable(table) PROVE SocketsInv'
  BY <1>3, ReadTableKeeps
<1>4. CASE ApplyOwners
  BY <1>4, ApplyOwnersKeeps
<1>5. CASE ScanOwners
  BY <1>5, ScanOwnersKeeps
<1>6. CASE ReadOwnedTable("owned_tcp", "tcp", "owned_udp")
  BY <1>6, ReadOwnedTableKeeps
<1>7. CASE ReadOwnedTable("owned_udp", "udp", "owned")
  BY <1>7, ReadOwnedTableKeeps
<1>8. ASSUME NEW s \in Sockets, NEW to \in States \cup {Closed}, SocketChanges(s, to)
      PROVE  SocketsInv'
  BY <1>8, KernelKeeps
<1>9. CASE ForgetList
  BY <1>9, ForgetListKeeps
<1>10. CASE UNCHANGED socket_vars
  <2>1. UNCHANGED <<socket_state, list_pc, rows, owner_map, unreadable, changes, stable, was>>
    BY <1>10 DEF socket_vars, snapshot, history
  <2>2. SocketsTypeOK' /\ RowsWereTrue' /\ OneRowEach' /\ OpenAreKept' /\ NothingYet'
    BY <2>1
    DEF SocketsInv, SocketsTypeOK, RowsWereTrue, OneRowEach, OpenAreKept, NothingYet, Open
  <2>3. RowsAreOfTables' /\ RowsHaveOwners'
    BY <2>1 DEF SocketsInv, RowsAreOfTables, RowsHaveOwners, HaveRead
  <2>4. SteadyInFirst' /\ SteadyInSecond' /\ SteadyOwned'
    BY <2>1
    DEF SocketsInv, SteadyInFirst, SteadyInSecond, SteadyOwned, HaveRead, EnoughRoom, InList,
        LeftOut, OwnerIsKnown, HasInode
  <2>. QED BY <2>2, <2>3, <2>4 DEF SocketsInv
<1>. QED BY <1>1, <1>2, <1>3, <1>4, <1>5, <1>6, <1>7, <1>8, <1>9, <1>10
     DEF SocketsNext, Collect, KernelStep

LEMMA SocketsInvariant == SocketsSpec => []SocketsInv
<1>1. SocketsInit => SocketsInv
  BY SocketsInvInit
<1>. QED BY <1>1, SocketsInvNext, PTL DEF SocketsSpec

(* The variables of the collection keep their types and the arrays hold     *)
(* rows of sockets only.                                                    *)
THEOREM SocketsTypes == SocketsSpec => []SocketsTypeOK
<1>1. SocketsInv => SocketsTypeOK
  BY DEF SocketsInv
<1>. QED BY <1>1, SocketsInvariant, PTL

(* What is promised of the tables read so far is, once all have been read,  *)
(* what is promised of the list.                                            *)
LEMMA ListsAreComplete == SocketsInv => SteadyAreListed
<1>. SUFFICES ASSUME SocketsInv PROVE SteadyAreListed
  OBVIOUS
<1>. USE DEF SocketsInv
<1>1. ASSUME list_pc = "listed", EnoughRoom(MAX_CONNECTIONS), NEW s \in stable,
             ~LeftOut(s), Socket[s].table \notin unreadable
      PROVE  \E row \in rows : /\ row.socket = s
                               /\ OwnerIsKnown(s) => row.owner = Socket[s].holder
  <2>1. s \in Sockets /\ Socket[s].table \in Tables
    BY SocketAssumption DEF SocketsTypeOK, Open
  <2>2. HaveRead(list_pc) = Tables /\ list_pc \in FirstChain
    BY <1>1 DEF HaveRead, FirstChain
  <2>3. PICK row \in rows : row.socket = s
    BY <1>1, <2>1, <2>2 DEF SteadyInFirst, InList
  <2>4. OwnerIsKnown(s) => row.owner = Socket[s].holder
    BY <1>1, <2>3 DEF SteadyOwned, RowsHaveOwners
  <2>. QED BY <2>3, <2>4
<1>2. ASSUME list_pc = "owned", EnoughRoom(MAX_SOCKET_OWNERS), NEW s \in stable,
             Socket[s].table \in {"tcp", "udp"} \ unreadable, OwnerIsKnown(s)
      PROVE  \E row \in rows : row.socket = s
  <2>1. HaveRead(list_pc) = {"tcp", "udp"} /\ list_pc \in SecondChain
    BY <1>2 DEF HaveRead, SecondChain
  <2>. QED BY <1>2, <2>1 DEF SteadyInSecond, InList
<1>. QED BY <1>1, <1>2 DEF SteadyAreListed

(* However the sockets change while the tables are read, no row is wrong,   *)
(* none is there twice and no steady socket is missing without a reason.    *)
THEOREM ListingsAreFaithful == SocketsSpec => []ListingIsFaithful
<1>1. SocketsInv => ListingIsFaithful
  BY ListsAreComplete DEF SocketsInv, ListingIsFaithful
<1>. QED BY <1>1, SocketsInvariant, PTL
=============================================================================
