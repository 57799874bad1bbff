------------------------------- MODULE DmaMem -------------------------------
(***************************************************************************)
(* dma_mem_init() (src/dma_mem.c): which of exec's memory headers are      *)
(* Emu68 RAM, found out from the device tree's /memory node; and the test  *)
(* of every transfer against them, dma_addr_reachable() (dma_mem.h).       *)
(*                                                                         *)
(* One more call on the tree, with the helpers of DtNodes: call holds what *)
(* the machine presents.  The loops of the code are steps, so that their   *)
(* bounds are checked and so is that they end.                             *)
(***************************************************************************)
EXTENDS DtNodes

CONSTANTS Trees,       \* [found, reg, addrCells, sizeCells]: cells Missing, or their property
          MemLists,    \* sequences of [fast, lo, hi]
          MaxRegions,  \* DMA_MEM_MAX_REGIONS
          ChipEnd      \* 0x00200000, scaled

ASSUME MaxAssumption == MaxRegions \in Nat \ {0} /\ ChipEnd \in Nat
\* Memory below 4 GiB, as the addresses of a 68k machine are.
ASSUME MemAssumption ==
    \A list \in MemLists : /\ list \in Seq([fast : BOOLEAN, lo : Nat, hi : Nat])
                           /\ \A i \in DOMAIN list : list[i].lo < list[i].hi /\ list[i].hi < Cell
ASSUME TreesAssumption ==
    \A t \in Trees : /\ t.found \in {"no_resource", "no_memory", "no_reg", "all"}
                     /\ t.reg \in Seq(0 .. Cell - 1)
                     /\ t.addrCells = Missing \/ t.addrCells \in Seq(Nat)
                     /\ t.sizeCells = Missing \/ t.sizeCells \in Seq(Nat)

TwoGB == Cell \div 2

VARIABLES windows,     \* the Pi-DRAM windows parsed so far
          scan,        \* the header the scan is at
          regions      \* ctx->regions[0 .. count)

memVars == <<windows, scan, regions>>
devVars == <<vars, memVars>>

IsInit == call.op = "init"
MemIdle == windows = <<>> /\ scan = 1 /\ regions = <<>>

\* The caller's struct holds anything before the call.
MemInit ==
    /\ \E t \in Trees, list \in MemLists : call = [op |-> "init", tree |-> t, memList |-> list]
    /\ bus = Missing /\ pc = "entry" /\ at = 0 /\ span = [addr |-> 0, len |-> 0]
    /\ hit = NoHit /\ result = No /\ NodesIdle
    /\ windows = <<>> /\ scan = 1
    /\ regions \in {<<>>, <<[start |-> 0, end |-> Cell - 1]>>}

\* Lines 60-76: count = 0; the resource and /memory may be missing.
OpenMemory ==
    /\ pc = "entry" /\ IsInit
    /\ regions' = <<>>
    /\ IF tree.found \in {"no_resource", "no_memory"} THEN pc' = "done" /\ UNCHANGED keys
       ELSE pc' = "memory" /\ keys' = keys + 1
    /\ UNCHANGED <<bus, call, at, span, hit, result, stack, windows, scan>>

\* "reg" is read and the key closed; then the root is opened and closed for the cells.
CloseMemory ==
    /\ pc = "memory"
    /\ keys' = keys - 1
    /\ pc' = IF tree.found = "no_reg" THEN "done" ELSE "parse"
    /\ UNCHANGED <<bus, call, at, span, hit, result, stack, memVars>>

\* The window of a record, with end limited to 2 GiB.
WindowEnd_NoWrap(base, size) ==
    LET end == U64(base + size) IN IF end > TwoGB THEN TwoGB ELSE end
WindowEnd(base, size) ==
    LET end == U64(base + size)
    IN  IF end < base \/ end > TwoGB THEN TwoGB ELSE end

addrCells == ULONGOf(tree.addrCells, 2)
sizeCells == ULONGOf(tree.sizeCells, 1)
RegionCells == addrCells + sizeCells
MoreWindows == at + RegionCells <= Len(tree.reg) /\ Len(windows) < MaxRegions

\* One turn of the loop of lines 104-122.
ParseRecord ==
    LET base == NumberAt(tree.reg, at, addrCells)
        size == NumberAt(tree.reg, at + addrCells, sizeCells)
    IN  /\ pc = "parse" /\ MoreWindows
        /\ at' = at + RegionCells
        /\ windows' = IF base >= TwoGB \/ size = 0 THEN windows
             ELSE Append(windows, [start |-> U32(base), end |-> U32(WindowEnd(base, size))])
        /\ UNCHANGED <<bus, call, pc, span, hit, result, stack, keys, scan, regions>>

ParseEnd ==
    /\ pc = "parse" /\ ~MoreWindows
    /\ pc' = "scan"
    /\ UNCHANGED <<bus, call, at, span, hit, result, stack, keys, memVars>>

\* The header lies in one of the windows.
InWindow(mh, w) == mh.lo >= w.start /\ mh.hi <= w.end
Kept(mh) == mh.fast /\ \E i \in DOMAIN windows : InWindow(mh, windows[i])

MoreHeaders == scan <= Len(call.memList) /\ Len(regions) < MaxRegions

\* One turn of the loop of lines 130-150, under Forbid().
ScanHeader ==
    /\ pc = "scan" /\ MoreHeaders
    /\ LET mh == call.memList[scan]
       IN  regions' = IF Kept(mh) THEN Append(regions, [start |-> mh.lo, end |-> mh.hi])
                                  ELSE regions
    /\ scan' = scan + 1
    /\ UNCHANGED <<vars, windows>>

ScanEnd ==
    /\ pc = "scan" /\ ~MoreHeaders
    /\ pc' = "done"
    /\ UNCHANGED <<bus, call, at, span, hit, result, stack, keys, memVars>>

Init == (MapInit /\ NodesIdle /\ MemIdle) \/ (NodesInit /\ MemIdle) \/ MemInit
Next ==
    \/ MapNext /\ UNCHANGED <<stack, keys, memVars>>
    \/ NodesNext /\ UNCHANGED memVars
    \/ OpenMemory \/ CloseMemory \/ ParseRecord \/ ParseEnd \/ ScanHeader \/ ScanEnd
Spec == Init /\ [][Next]_devVars

\* dma_addr_reachable(): addr and len are 32-bit, so is their sum.
Reachable_Wraps(addr, len) ==
    LET end == U32(addr + (IF len = 0 THEN 1 ELSE len))
    IN  IF regions = <<>> THEN addr >= ChipEnd
        ELSE \E i \in DOMAIN regions : addr >= regions[i].start /\ end <= regions[i].end
Reachable(addr, len) ==
    LET end == U32(addr + (IF len = 0 THEN 1 ELSE len))
    IN  /\ end >= addr
        /\ IF regions = <<>> THEN addr >= ChipEnd
           ELSE \E i \in DOMAIN regions : addr >= regions[i].start /\ end <= regions[i].end

-----------------------------------------------------------------------------
(* Properties *)

\* What the tree says, without widths, loops or limits: the memory its records
\* describe, as far as it lies below 2 GiB.
Windows == IF RegionCells = 0 \/ tree.found # "all" THEN {}
           ELSE {k * RegionCells : k \in 0 .. (Len(tree.reg) \div RegionCells) - 1}
Described == {Span(NumberAt(tree.reg, p, addrCells), NumberAt(tree.reg, p + addrCells, sizeCells))
                \cap (0 .. TwoGB - 1) : p \in Windows}
IsEmu68(mh) == mh.fast /\ \E d \in Described : Span(mh.lo, mh.hi - mh.lo) \subseteq d
Emu68Headers == {i \in DOMAIN call.memList : IsEmu68(call.memList[i])}

\* The table holds bounds of Emu68 RAM headers and nothing else, so no DMA is
\* ever aimed at Chip or Zorro RAM; and it holds all of them unless the tree
\* or the memory list has more than the table does.
RegionsExact ==
    pc = "done" /\ IsInit =>
        LET found == {[start |-> call.memList[i].lo, end |-> call.memList[i].hi] : i \in Emu68Headers}
            held  == {regions[i] : i \in DOMAIN regions}
        IN  /\ held \subseteq found
            /\ Cardinality(Windows) <= MaxRegions /\ Cardinality(Emu68Headers) <= MaxRegions
                  => held = found

\* With regions known, a buffer passes dma_addr_reachable() exactly if all its
\* bytes lie in one Emu68 region, for every address and length, the ones whose
\* end wraps included.
ReachableExact ==
    pc = "done" /\ IsInit /\ regions # <<>> =>
        \A addr, len \in 0 .. Cell - 1 :
            Reachable(addr, len) <=>
                \E i \in DOMAIN regions :
                    Span(addr, IF len = 0 THEN 1 ELSE len)
                      \subseteq Span(regions[i].start, regions[i].end - regions[i].start)
=============================================================================
