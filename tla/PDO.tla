-------------------------------- MODULE PDO --------------------------------
(***************************************************************************)
(* comm/canopen.h: process data.  A Device sets up with a number of writes *)
(* which objects a node packs into its PDOs and unpacks from those it      *)
(* gets; Dispatch hands each PDO that comes to the TPDO registered for it, *)
(* and it is unpacked by that TPDO's own map.  That the two maps agree is  *)
(* what all those writes are for.  dev/mcDSA.h is such a device.           *)
(*                                                                         *)
(* The writes reach the node one after the other (CANOpen.tla).  The node  *)
(* is external.  Integers have IntBits bits instead of 32, and the objects *)
(* at most as many.                                                        *)
(*                                                                         *)
(* What the device is exposed to is chosen once, in `env`:                 *)
(*   lossy   a write may be discarded (a full sink, a full state.q)        *)
(*   preset  the nodes' PDOs are enabled with a map of their own at first  *)
(***************************************************************************)
EXTENDS Integers, FiniteSets, SequencesExt

CONSTANTS
  Nodes,     \* node IDs
  Ns,        \* the numbers of the PDOs: 1 .. 4
  Width,     \* the bits of each object
  Map,       \* the objects of the maps, [{"tx", "rx"} -> Seq(DOMAIN Width)]
  Preset,    \* a map that nodes have at first
  IntBits,
  Envs,      \* values of env to look at
  MaxEnable  \* bound: PDOs enabled

VARIABLES env,
          pdo,    \* Dispatch's table: <<node, n>> of the TPDOs registered
          wire,   \* writes on their way
          node,   \* the nodes' PDOs: [cob, map, count] for node, direction, number
          seen    \* history, see Init

vars == <<env, pdo, wire, node, seen>>

Dirs == {"tx", "rx"}
Disabled == 0

\* COB, as enablePDO fills it in; the answers to SDOs are 0x580 + id
COB(i, dir, n) == IF dir = "tx" THEN i + 128 + 256 * n ELSE i + 256 * (n + 1)
SDOAnswer(i) == 1408 + i

Init == /\ env \in Envs
        /\ pdo = << >> /\ wire = << >>
        /\ node = [i \in Nodes |-> [d \in Dirs |-> [n \in Ns |->
                    [cob |-> IF env.preset THEN COB(i, d, n) ELSE Disabled,
                     map |-> Preset, count |-> IF env.preset THEN Len(Preset) ELSE 0]]]]
        /\ seen = [early |-> TRUE,    \* PDOs were read as sent, all of them
                   late |-> TRUE,     \* those sent when no write was on its way
                   wrote |-> TRUE,    \* what was written to a node was, by then
                   strays |-> 0,      \* answers to SDOs that went elsewhere
                   enabled |-> {}]    \* <<node, dir, n>> that enablePDO was called for

-----------------------------------------------------------------------------
(* The contents of a PDO                                                   *)

Shift(map, k) == FoldLeft(LAMBDA s, o : s + Width[o], 0, SubSeq(map, 1, k - 1))

\* an int32_t of those bits
AsInt(x) == IF x >= 2 ^ (IntBits - 1) THEN x - 2 ^ IntBits ELSE x

\* RPDO::toMessage, and what the node does
toMessage(map, val) ==
  FoldLeft(LAMBDA d, k : d + (val[k] % 2 ^ Width[map[k]]) * 2 ^ Shift(map, k),
           0, [k \in DOMAIN map |-> k])

\* TPDO::receive, and what the node does
receive(map, d) ==
  [k \in DOMAIN map |-> AsInt(d \div 2 ^ Shift(map, k) % 2 ^ Width[map[k]])]

Signed(o) == -(2 ^ (Width[o] - 1)) .. 2 ^ (Width[o] - 1) - 1

Values(map) == {v \in [DOMAIN map -> UNION {Signed(map[k]) : k \in DOMAIN map}] :
                  \A k \in DOMAIN map : v[k] \in Signed(map[k])}

\* an object narrower than an int comes without its sign
Unsigned(map, v) ==
  [k \in DOMAIN map |-> IF Width[map[k]] < IntBits THEN v[k] % 2 ^ Width[map[k]] ELSE v[k]]

-----------------------------------------------------------------------------
(* Setting up                                                              *)

Write(i, dir, n, what, arg) == [node |-> i, dir |-> dir, n |-> n, what |-> what, arg |-> arg]

\* mutant: the old map is not cleared
WritesUncleared(i, dir, n) ==
  << Write(i, dir, n, "disable", 0), Write(i, dir, n, "type", 0) >>
  \o [k \in DOMAIN Map[dir] |-> Write(i, dir, n, "map", <<k, Map[dir][k]>>)]
  \o << Write(i, dir, n, "count", Len(Map[dir])), Write(i, dir, n, "enable", COB(i, dir, n)) >>

\* enablePDO; the inhibit time is left out
Writes(i, dir, n) ==
  << Write(i, dir, n, "disable", 0), Write(i, dir, n, "type", 0), Write(i, dir, n, "count", 0) >>
  \o [k \in DOMAIN Map[dir] |-> Write(i, dir, n, "map", <<k, Map[dir][k]>>)]
  \o << Write(i, dir, n, "count", Len(Map[dir])), Write(i, dir, n, "enable", COB(i, dir, n)) >>

\* of a TPDO that is registered already the device is the same
registerPDO(i, n) == IF <<i, n>> \in ToSet(pdo) THEN pdo ELSE Append(pdo, <<i, n>>)

enablePDO(i, dir, n) ==
  /\ Cardinality(seen.enabled) < MaxEnable
  /\ <<i, dir, n>> \in seen.enabled => wire = << >>
  /\ wire' = wire \o Writes(i, dir, n)
  /\ pdo' = IF dir = "tx" THEN registerPDO(i, n) ELSE pdo
  /\ seen' = [seen EXCEPT !.enabled = @ \cup {<<i, dir, n>>}]
  /\ UNCHANGED <<env, node>>

\* what a node makes of a write: its map changes only while the PDO is disabled
\* and empty
Put(c, w) ==
  CASE w.what = "disable" -> [c EXCEPT !.cob = Disabled]
    [] w.what = "enable" -> [c EXCEPT !.cob = w.arg]
    [] w.what = "count" /\ c.cob = Disabled -> [c EXCEPT !.count = w.arg]
    [] w.what = "map" /\ c.cob = Disabled /\ c.count = 0 ->
         [c EXCEPT !.map = [k \in 1 .. (IF w.arg[1] > Len(c.map) THEN w.arg[1] ELSE Len(c.map)) |->
                              IF k = w.arg[1] THEN w.arg[2] ELSE c.map[k]]]
    [] OTHER -> c

-----------------------------------------------------------------------------
(* Dispatch                                                                *)

\* the index of the first TPDO with that id, 0 if there is none
handlePDO(id) == SelectInSeq(pdo, LAMBDA p : COB(p[1], "tx", p[2]) = id)

\* a node is written to, and its answer is handled: by handleSDO unless a PDO has
\* its id
NodeWritten ==
  /\ wire # << >>
  /\ LET w == Head(wire) IN
       \/ /\ node' = [node EXCEPT ![w.node][w.dir][w.n] = Put(@, w)]
          /\ seen' = [seen EXCEPT !.strays = @ + handlePDO(SDOAnswer(w.node))]
       \/ /\ env.lossy /\ UNCHANGED <<node, seen>>
  /\ wire' = Tail(wire)
  /\ UNCHANGED <<env, pdo>>

Mapped(c) == SubSeq(c.map, 1, c.count)

\* a node sends, and the Device reads: the objects' values are to be the same
NodeSends(i, n) ==
  LET c == node[i]["tx"][n]  m == Mapped(c)  k == handlePDO(c.cob) IN
  /\ c.cob # Disabled /\ m # << >> /\ k # 0
  /\ \E v \in Values(m) :
       LET right == /\ pdo[k] = <<i, n>> /\ m = Map["tx"]
                    /\ receive(Map["tx"], toMessage(m, v)) = Unsigned(m, v)
       IN seen' = [seen EXCEPT !.early = @ /\ right, !.late = @ /\ (right \/ wire # << >>)]
  /\ UNCHANGED <<env, pdo, wire, node>>

\* wPDO, once it was set up: the node reads what was written
wPDO(i, n) ==
  LET c == node[i]["rx"][n]  m == Mapped(c) IN
  /\ wire = << >> /\ <<i, "rx", n>> \in seen.enabled
  /\ \E v \in Values(Map["rx"]) :
       LET right == /\ c.cob = COB(i, "rx", n) /\ m = Map["rx"]
                    /\ receive(m, toMessage(Map["rx"], v)) = Unsigned(m, v)
       IN seen' = [seen EXCEPT !.wrote = @ /\ right]
  /\ UNCHANGED <<env, pdo, wire, node>>

Next == \/ NodeWritten
        \/ \E i \in Nodes, n \in Ns : NodeSends(i, n) \/ wPDO(i, n)
        \/ \E i \in Nodes, n \in Ns, d \in Dirs : enablePDO(i, d, n)

Spec == Init /\ [][Next]_vars

-----------------------------------------------------------------------------
(* Properties                                                              *)

TypeOK ==
  /\ env \in Envs
  /\ \A k \in DOMAIN pdo : pdo[k] \in Nodes \X Ns
  /\ \A k \in DOMAIN wire : wire[k].node \in Nodes /\ wire[k].dir \in Dirs /\ wire[k].n \in Ns
  /\ \A i \in Nodes, d \in Dirs, n \in Ns : node[i][d][n].count \in 0 .. Len(node[i][d][n].map)

\* If no write is lost, what a node sends once it is set up arrives at its
\* device as it was measured, and what is written arrives at the node, except
\* for the sign of a narrow object; before that if it had no map of its own.
\* No PDO is registered twice, and answers to SDOs stay what they are.
Understood ==
  ~env.lossy =>
    /\ seen.late /\ seen.wrote
    /\ ~env.preset => seen.early
    /\ seen.strays = 0
    /\ \A j, k \in DOMAIN pdo : j # k => pdo[j] # pdo[k]

=============================================================================
