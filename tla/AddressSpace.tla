---------------------------- MODULE AddressSpace ----------------------------
(***************************************************************************)
(* AddressSpace (memory/): the bus of the CPU and the bus of the PPU.      *)
(*                                                                         *)
(* A port attaches a module at a base address, for reading, for writing,   *)
(* or for both; a module attached at several bases is its own mirror.  The *)
(* two vectors of ports are sorted by base address after every insertion   *)
(* and removals keep them sorted, so each vector is modelled by the set of *)
(* its ports and "the element before the first one with a greater base" by *)
(* the port with the greatest base not above the address.                  *)
(*                                                                         *)
(* add_port asserts that the new port overlaps no other; the project is    *)
(* built with assertions, so a call that overlaps ends the program.  A     *)
(* port that reaches past the last address is never added.  find_port      *)
(* evaluates it->base_address before it compares it with end(); whatever   *)
(* it reads there, the comparison that follows ends the search.  On a      *)
(* vector that has never held a port it would follow a null pointer;       *)
(* NES::init fills both spaces before they are used.                       *)
(***************************************************************************)
EXTENDS Naturals

CONSTANTS
    Span,           (* number of addresses                         (65536) *)
    Module,         (* MemoryInterfaceable objects                         *)
    Size,           (* their m_size                                        *)
    Writable,       (* RAM and writable bank windows; a ROM ignores writes *)
    Value,          (* data                                                *)
    Open            (* nullptr, as a result of find_port                   *)

Address == 0..(Span - 1)

ASSUME SpaceAssumption ==
    /\ Span \in Nat \ {0}
    /\ Size \in [Module -> Nat \ {0}]
    /\ Writable \subseteq Module

Cells == UNION {{m} \X (0..(Size[m] - 1)) : m \in Module}

ASSUME OpenAssumption == Open \notin Cells

VARIABLES
    m_read_ports, m_write_ports,
    valid,               (* m_valid of every module                        *)
    content,             (* the data of every module                       *)
    m_last_bus_value

ports == <<m_read_ports, m_write_ports>>
vars == <<ports, valid, content, m_last_bus_value>>

Port == [module : Module, base : Address]

End(p) == p.base + Size[p.module]

Covers(p, a) == p.base <= a /\ a < End(p)

Init ==
    /\ m_read_ports = {}
    /\ m_write_ports = {}
    /\ valid = [m \in Module |-> TRUE]
    /\ content \in [Cells -> Value]
    /\ m_last_bus_value \in Value

-----------------------------------------------------------------------------
(* A slip to be caught: only the first address of the new port is checked. *)
BaseIsFree(port, list) == ~\E p \in list : Covers(p, port.base)

(***************************************************************************)
(* The loop of add_port_impl over the addresses of the new port.           *)
(***************************************************************************)
IsFree(port, list) ==
    \A i \in 0..(Size[port.module] - 1) : ~\E p \in list : Covers(p, port.base + i)

AddReadPort(port) ==
    /\ IsFree(port, m_read_ports)
    /\ m_read_ports' = m_read_ports \cup {port}
    /\ UNCHANGED <<m_write_ports, valid, content, m_last_bus_value>>

AddWritePort(port) ==
    /\ IsFree(port, m_write_ports)
    /\ m_write_ports' = m_write_ports \cup {port}
    /\ UNCHANGED <<m_read_ports, valid, content, m_last_bus_value>>

AddPort(port) ==
    /\ IsFree(port, m_read_ports)
    /\ IsFree(port, m_write_ports)
    /\ m_read_ports' = m_read_ports \cup {port}
    /\ m_write_ports' = m_write_ports \cup {port}
    /\ UNCHANGED <<valid, content, m_last_bus_value>>

RemoveModule(m) ==
    /\ m_read_ports' = {p \in m_read_ports : p.module # m}
    /\ m_write_ports' = {p \in m_write_ports : p.module # m}
    /\ UNCHANGED <<valid, content, m_last_bus_value>>

RemoveAt(addr) ==
    /\ m_read_ports' = {p \in m_read_ports : p.base # addr}
    /\ m_write_ports' = {p \in m_write_ports : p.base # addr}
    /\ UNCHANGED <<valid, content, m_last_bus_value>>

Clear ==
    /\ m_read_ports' = {}
    /\ m_write_ports' = {}
    /\ UNCHANGED <<valid, content, m_last_bus_value>>

SetValid(m, on) ==
    /\ valid' = [valid EXCEPT ![m] = on]
    /\ UNCHANGED <<ports, content, m_last_bus_value>>

-----------------------------------------------------------------------------
(***************************************************************************)
(* find_port: the last port whose base is not above the address, if it     *)
(* reaches that far and its module is switched on.                         *)
(***************************************************************************)
LastUpTo(addr, list) ==
    {p \in list : p.base <= addr /\ \A q \in list : q.base <= addr => q.base <= p.base}

(* A slip to be caught: the last address of a port is left out. *)
FindPortShort(addr, list) ==
    {p \in LastUpTo(addr, list) : valid[p.module] /\ addr + 1 < End(p)}

FindPort(addr, list) ==
    {p \in LastUpTo(addr, list) : valid[p.module] /\ addr < End(p)}

CellOf(p, addr) == <<p.module, addr - p.base>>

Read(ptr) ==
    /\ m_read_ports # {}
    /\ \/ /\ FindPort(ptr, m_read_ports) = {}
          /\ UNCHANGED m_last_bus_value
       \/ \E p \in FindPort(ptr, m_read_ports) :
             m_last_bus_value' = content[CellOf(p, ptr)]
    /\ UNCHANGED <<ports, valid, content>>

Write(ptr, value) ==
    /\ m_write_ports # {}
    /\ m_last_bus_value' = value
    /\ \/ /\ \A p \in FindPort(ptr, m_write_ports) : p.module \notin Writable
          /\ UNCHANGED content
       \/ \E p \in FindPort(ptr, m_write_ports) :
             /\ p.module \in Writable
             /\ content' = [content EXCEPT ![CellOf(p, ptr)] = value]
    /\ UNCHANGED <<ports, valid>>

Next ==
    \/ \E port \in Port :
          /\ End(port) <= Span
          /\ AddReadPort(port) \/ AddWritePort(port) \/ AddPort(port)
    \/ \E m \in Module : RemoveModule(m)
    \/ \E addr \in Address : RemoveAt(addr)
    \/ Clear
    \/ \E m \in Module, on \in BOOLEAN : SetValid(m, on)
    \/ \E ptr \in Address : Read(ptr)
    \/ \E ptr \in Address, value \in Value : Write(ptr, value)

Spec == Init /\ [][Next]_vars

-----------------------------------------------------------------------------
(* The variables hold values of their C++ types. *)
TypeOK ==
    /\ m_read_ports \subseteq Port
    /\ m_write_ports \subseteq Port
    /\ valid \in [Module -> BOOLEAN]
    /\ content \in [Cells -> Value]
    /\ m_last_bus_value \in Value

(***************************************************************************)
(* "Two ports must not overlap" (memory/README.md): each address is        *)
(* covered by one port of each vector at most, and no port reaches past    *)
(* the last address.  find_port looks at one port only and relies on it.   *)
(***************************************************************************)
NoOverlap(list) ==
    /\ \A p \in list : End(p) <= Span
    /\ \A p, q \in list : p # q => End(p) <= q.base \/ End(q) <= p.base

PortsDisjoint == NoOverlap(m_read_ports) /\ NoOverlap(m_write_ports)

(***************************************************************************)
(* The address space implements AddressMap: whatever was attached and      *)
(* removed in whatever order, the one port find_port looks at is the one   *)
(* that covers the address, a switched off module leaves the bus floating, *)
(* and mirrors of a module share its cells.                                *)
(***************************************************************************)
Target(list) ==
    [a \in Address |->
        IF \E p \in list : Covers(p, a)
        THEN CellOf(CHOOSE p \in list : Covers(p, a), a)
        ELSE Open]

Map == INSTANCE AddressMap
          WITH target <- [way \in {"read", "write"} |->
                            Target(IF way = "read" THEN m_read_ports ELSE m_write_ports)],
               enabled <- {m \in Module : valid[m]},
               bus <- m_last_bus_value

ImplementsAddressMap == Map!Spec
=============================================================================
