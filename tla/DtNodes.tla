------------------------------ MODULE DtNodes -------------------------------
(***************************************************************************)
(* Node lookup of src/devtree.c and include/emu68_features.h: the entries  *)
(* of /aliases and /__symbols__, the carve-outs and capabilities under     *)
(* /emu68, the search for a phandle and the interrupt of a node.  One call *)
(* at a time, as in DtMap.                                                 *)
(*                                                                         *)
(* External: devicetree.resource.  Nodes are numbered in the order of the  *)
(* tree, the root 1, and 0 is NULL; a property is Missing or its cells, of *)
(* which it may have none.  A key that was opened has to be closed.        *)
(***************************************************************************)
EXTENDS DtMap, SequencesExt

CONSTANTS NodeCalls,  \* [op, table, nodes] or [op, tree, key, index, phandle]
          SPI, PPI    \* the first of the GIC's numbers of each type: 32 and 16, scaled

\* DT_GetPropertyValueULONG() of a property.
ULONGOf(prop, default) == IF prop # Missing /\ prop # <<>> THEN prop[1] ELSE default

\* The order of the tree: a node comes before what is below it, and what lies between a
\* node and a child of it is below that node too.
InOrder(parent) ==
    /\ parent \in Seq(Nat) /\ parent # <<>> /\ parent[1] = 0
    /\ \A c \in 2 .. Len(parent) : parent[c] \in 1 .. c - 1
    /\ \A c, d \in DOMAIN parent : parent[d] < c /\ c < d => parent[d] <= parent[c]

\* What a driver asks about is there to be asked, as in DtMap.
ASSUME NodesAssumption ==
    /\ SPI \in 0 .. Cell - 1 /\ PPI \in 0 .. Cell - 1
    /\ \A c \in NodeCalls :
         /\ c.op \in {"alias", "symbol", "range", "probe", "phandle", "interrupt"}
         /\ c.op \in {"phandle", "interrupt"} =>
              /\ InOrder(c.tree.parent) /\ c.key \in 0 .. Len(c.tree.parent) /\ c.index \in Nat
              /\ \A k \in DOMAIN c.tree.parent :
                   /\ \A prop \in {c.tree.phandle[k], c.tree.iparent[k], c.tree.icells[k], c.tree.interrupts[k]} :
                        prop = Missing \/ prop \in Seq(0 .. Cell - 1)
                   /\ (c.index + 1) * ULONGOf(c.tree.icells[k], 0) < Cell

VARIABLES stack,  \* the nodes of the calls of DT_FindByPHandle() under way
          keys    \* keys opened and not closed

vars == <<mapVars, stack, keys>>

NodesIdle == stack = <<>> /\ keys = 0
NodesInit ==
    /\ call \in NodeCalls /\ bus = Missing
    /\ pc = "entry" /\ at = 0 /\ span = [addr |-> 0, len |-> 0] /\ hit = NoHit /\ result = No
    /\ NodesIdle

Return(r) == pc' = "done" /\ result' = r
Found(x) == [No EXCEPT !.ok = TRUE, !.out = x]

-----------------------------------------------------------------------------
(* Tables: a node with an entry each per name.  call.table is Missing, or what *)
(* its entry holds: a path of /aliases and /__symbols__, cells of /emu68.      *)

IsPath == call.op \in {"alias", "symbol"}
IsTable == IsPath \/ call.op \in {"range", "probe"}

\* DT_OpenKey() of the table; the probe finds out first whether there is a tree.  No is
\* what emu68_has_dcache_range_ops() makes of both answers, NO_DEVICETREE and ABSENT.
OpenTable ==
    /\ pc = "entry" /\ IsTable
    /\ IF call.table = Missing THEN Return(No) /\ UNCHANGED keys
       ELSE pc' = "table" /\ keys' = keys + 1 /\ UNCHANGED result
    /\ UNCHANGED <<bus, call, at, span, hit, stack>>

\* DT_GetEmu68Range(): two cells; the probe: one, of revision 1.
Cells2(e) == IF e # Missing /\ Len(e) >= 2 THEN [No EXCEPT !.ok = TRUE, !.start = e[1], !.end = e[2]] ELSE No
Revision(e) == IF e = <<1>> THEN Found(1) ELSE No

\* The entry is read and the key closed, whatever was found.
Entry == call.table.entry
ReadEntry ==
    /\ pc = "table"
    /\ keys' = keys - 1
    /\ IF call.op = "symbol" /\ Entry # Missing THEN pc' = "path" /\ UNCHANGED result
       ELSE Return(IF ~IsPath THEN IF call.op = "range" THEN Cells2(Entry) ELSE Revision(Entry)
                   ELSE IF Entry = Missing THEN No ELSE Found(Entry))
    /\ UNCHANGED <<bus, call, at, span, hit, stack>>

\* DT_OpenSymbol(): the key of the path is the caller's.
OpenPath ==
    /\ pc = "path"
    /\ keys' = IF Entry \in call.nodes THEN keys + 1 ELSE keys
    /\ Return(IF Entry \in call.nodes THEN Found(Entry) ELSE No)
    /\ UNCHANGED <<bus, call, at, span, hit, stack>>

-----------------------------------------------------------------------------
(* DT_FindByPHandle() and DT_GetInterrupt(). *)

tree == call.tree
Nodes == DOMAIN tree.parent
Children(k) == {c \in Nodes : tree.parent[c] = k}

\* DT_GetChild(key, NULL) and DT_GetChild(key, c); 0 if there is none.
Lowest(s) == IF s = {} THEN 0 ELSE CHOOSE c \in s : \A d \in s : c <= d
FirstChild(k) == Lowest(Children(k))
NextChild(c) == Lowest({d \in Children(tree.parent[c]) : d > c})

IsWalk == call.op \in {"phandle", "interrupt"}
EnterWalk ==
    /\ pc = "entry" /\ IsWalk
    /\ IF call.op = "phandle"
         THEN /\ stack' = IF call.key = 0 THEN <<>> ELSE <<call.key>>
              /\ pc' = IF call.key = 0 THEN "found" ELSE "visit"
              /\ UNCHANGED at
         ELSE pc' = "up" /\ at' = call.key /\ UNCHANGED stack
    /\ UNCHANGED <<bus, call, span, hit, result, keys>>

\* dt_find_up() of "interrupt-parent".
GoesUp == at # 0 /\ tree.iparent[at] = Missing
FindUp_Skips ==
    /\ pc = "up" /\ GoesUp
    /\ at' = 0
    /\ UNCHANGED <<bus, call, pc, span, hit, result, stack, keys>>
FindUp ==
    /\ pc = "up" /\ GoesUp
    /\ at' = tree.parent[at]
    /\ UNCHANGED <<bus, call, pc, span, hit, result, stack, keys>>
OpenRoot ==
    /\ pc = "up" /\ ~GoesUp
    /\ pc' = "visit" /\ stack' = <<1>> /\ keys' = keys + 1
    /\ UNCHANGED <<bus, call, at, span, hit, result>>

Wanted == IF call.op = "phandle" THEN call.phandle
          ELSE IF at = 0 THEN 0 ELSE ULONGOf(tree.iparent[at], 0)
Key == Last(stack)
HasIt(k) == tree.phandle[k] # Missing /\ tree.phandle[k] # <<>> /\ tree.phandle[k][1] = Wanted

\* A call looks at its node and goes down to the first child ...
Visit ==
    /\ pc = "visit"
    /\ pc' = IF HasIt(Key) THEN "found" ELSE IF FirstChild(Key) # 0 THEN "visit" ELSE "back"
    /\ stack' = IF ~HasIt(Key) /\ FirstChild(Key) # 0 THEN Append(stack, FirstChild(Key)) ELSE stack
    /\ UNCHANGED <<bus, call, at, span, hit, result, keys>>

\* ... and one that returns NULL leaves its caller to go on with the next child.
Back ==
    /\ pc = "back"
    /\ IF Len(stack) = 1 THEN pc' = "found" /\ stack' = <<>>
       ELSE IF NextChild(Key) # 0 THEN pc' = "visit" /\ stack' = Append(Front(stack), NextChild(Key))
       ELSE stack' = Front(stack) /\ UNCHANGED pc
    /\ UNCHANGED <<bus, call, at, span, hit, result, keys>>

\* The value of the GIC's entry <type number ...>, as an s32.
S32(x) == IF x >= Cell \div 2 THEN x - Cell ELSE x
IrqOf(type, number) ==
    S32(U32(number + (IF type = 0 THEN SPI ELSE IF type = 1 THEN PPI ELSE 0)))

Interrupts == tree.interrupts[call.key]
InterruptCells == IF stack = <<>> THEN 0 ELSE ULONGOf(tree.icells[Key], 0)
NoInterrupt ==
    \/ InterruptCells < 2
    \/ call.key = 0 \/ Interrupts = Missing
    \/ Len(Interrupts) < U32(U32(call.index + 1) * InterruptCells)
WalkFound ==
    /\ pc = "found"
    /\ IF call.op = "phandle"
         THEN Return(IF stack = <<>> THEN No ELSE Found(Key)) /\ UNCHANGED keys
         ELSE /\ keys' = keys - 1
              /\ Return(IF NoInterrupt THEN No
                        ELSE LET p == call.index * InterruptCells
                             IN  Found(IrqOf(Interrupts[p + 1], Interrupts[p + 2])))
    /\ UNCHANGED <<bus, call, at, span, hit, stack>>

NodesNext == OpenTable \/ ReadEntry \/ OpenPath \/ EnterWalk \/ FindUp \/ OpenRoot
             \/ Visit \/ Back \/ WalkFound

-----------------------------------------------------------------------------
(* Properties *)

\* The nodes from a node up to the root, and those below it.
Above(k) == {a \in Nodes : \E path \in SUBSET Nodes :
                /\ {a, k} \subseteq path
                /\ \A p \in path \ {a} : tree.parent[p] \in path}
Bearers(top, h) == {n \in Nodes : top \in Above(n) /\ tree.phandle[n] \notin {Missing, <<>>}
                                    /\ tree.phandle[n][1] = h}

\* DT_FindByPHandle() finds the first node of the tree at or below key that has the
\* phandle, however deep and however many subtrees come before it, and NULL only if
\* there is none.
PHandleFound ==
    LET there == IF call.key = 0 THEN {} ELSE Bearers(call.key, call.phandle)
    IN  result.ok = (there # {}) /\ result.out = Lowest(there)

\* DT_GetInterrupt() reads the entry the tree says: of the controller that the nearest
\* "interrupt-parent" names, at or above the node, in that controller's cells; and
\* it is -1 exactly if a part of that is missing or the entry is not whole.
InterruptFound ==
    LET naming == {n \in Nodes : call.key # 0 /\ n \in Above(call.key) /\ tree.iparent[n] # Missing}
        named  == {n \in naming : \A o \in naming : o <= n}
        handle == IF named = {} THEN 0 ELSE ULONGOf(tree.iparent[CHOOSE n \in named : TRUE], 0)
        gic    == Lowest(Bearers(1, handle))
        cells  == IF gic = 0 THEN 0 ELSE ULONGOf(tree.icells[gic], 0)
        there  == call.key # 0 /\ cells >= 2 /\ Interrupts # Missing
                    /\ (call.index + 1) * cells <= Len(Interrupts)
    IN  /\ result.ok = there
        /\ there => LET e == SubSeq(Interrupts, call.index * cells + 1, (call.index + 1) * cells)
                    IN  (result.out - e[2]) % Cell
                          = CASE e[1] = 0 -> SPI [] e[1] = 1 -> PPI [] OTHER -> 0

\* The walks of the tree find what the tree says, and every key a helper opens is
\* closed again on every path through it, except the one DT_OpenSymbol() returns.
LookupExact ==
    pc = "done" =>
        /\ call.op = "phandle" => PHandleFound
        /\ call.op = "interrupt" => InterruptFound
        /\ keys = (IF call.op = "symbol" /\ result.ok THEN 1 ELSE 0)
=============================================================================
