----------------------------- MODULE AddressMap -----------------------------
(***************************************************************************)
(* What an address space is to the processor that reads and writes it: two *)
(* maps, one for each way of access, from addresses to cells of modules.   *)
(* An address may lead nowhere, and a module may be switched off; the bus  *)
(* then still carries the last value that crossed it.                      *)
(***************************************************************************)
EXTENDS Naturals

CONSTANTS
    Address,        (* the addresses of the space                          *)
    Module,         (* what can be attached: memories, register files      *)
    Size,           (* Size[m]: number of cells of module m                *)
    Writable,       (* the modules whose cells a write changes             *)
    Value,          (* what a cell holds                                   *)
    Open            (* no cell                                             *)

VARIABLES
    target,         (* target[way][a]: the cell address a leads to         *)
    enabled,        (* the modules that answer                             *)
    content,        (* the values of the cells                             *)
    bus             (* the last value on the bus                           *)

vars == <<target, enabled, content, bus>>

Way == {"read", "write"}

Cells == UNION {{m} \X (0..(Size[m] - 1)) : m \in Module}

Extent(m, base) == {a \in Address : base <= a /\ a < base + Size[m]}

Init ==
    /\ target = [way \in Way |-> [a \in Address |-> Open]]
    /\ enabled = Module
    /\ content \in [Cells -> Value]
    /\ bus \in Value

-----------------------------------------------------------------------------
(* A module is attached where nothing else is. *)
Attach(ways, m, base) ==
    /\ \A way \in ways : \A a \in Extent(m, base) : target[way][a] = Open
    /\ target' = [way \in Way |-> [a \in Address |->
                    IF way \in ways /\ a \in Extent(m, base)
                    THEN <<m, a - base>> ELSE target[way][a]]]

(* The addresses that lead to m, or to a port that begins at base. *)
LeadTo(map, m) == {a \in Address : map[a] # Open /\ map[a][1] = m}
PortAt(map, base) == {a \in Address : map[a] # Open /\ a = base + map[a][2]}

Without(map, gone) == [a \in Address |-> IF a \in gone THEN Open ELSE map[a]]

DetachModule(m) ==
    target' = [way \in Way |-> Without(target[way], LeadTo(target[way], m))]

DetachAt(base) ==
    target' = [way \in Way |-> Without(target[way], PortAt(target[way], base))]

DetachAll == target' = [way \in Way |-> [a \in Address |-> Open]]

Rewire ==
    /\ UNCHANGED <<enabled, content, bus>>
    /\ \/ \E ways \in SUBSET Way, m \in Module, base \in Address : Attach(ways, m, base)
       \/ \E m \in Module : DetachModule(m)
       \/ \E base \in Address : DetachAt(base)
       \/ DetachAll

Switch(m, on) ==
    /\ enabled' = IF on THEN enabled \cup {m} ELSE enabled \ {m}
    /\ UNCHANGED <<target, content, bus>>

-----------------------------------------------------------------------------
Answers(cell) == cell # Open /\ cell[1] \in enabled

Read(a) ==
    /\ bus' = IF Answers(target["read"][a]) THEN content[target["read"][a]] ELSE bus
    /\ UNCHANGED <<target, enabled, content>>

Write(a, v) ==
    LET cell == target["write"][a] IN
    /\ bus' = v
    /\ content' = IF Answers(cell) /\ cell[1] \in Writable
                  THEN [content EXCEPT ![cell] = v] ELSE content
    /\ UNCHANGED <<target, enabled>>

Next ==
    \/ \E m \in Module, on \in BOOLEAN : Switch(m, on)
    \/ \E a \in Address : Read(a)
    \/ \E a \in Address, v \in Value : Write(a, v)
    \/ Rewire

Spec == Init /\ [][Next]_vars
=============================================================================
