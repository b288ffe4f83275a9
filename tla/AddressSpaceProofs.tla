------------------------- MODULE AddressSpaceProofs -------------------------
(***************************************************************************)
(* Proofs about the address space, for buses of any width, any set of      *)
(* modules of any size and any sequence of calls.                          *)
(*                                                                         *)
(* The invariant is that the ports of a vector do not overlap.  It is what *)
(* makes looking at a single port enough: a port with a greater base than  *)
(* the one that covers the address would begin inside that one.            *)
(***************************************************************************)
EXTENDS AddressSpace, TLAPS

Inv == TypeOK /\ PortsDisjoint

-----------------------------------------------------------------------------
(* The check of every address of a new port is enough to keep ports apart. *)
LEMMA AddKeepsApart ==
    ASSUME NEW list \in SUBSET Port, NoOverlap(list),
           NEW port \in Port, End(port) <= Span, IsFree(port, list)
    PROVE  NoOverlap(list \cup {port})
  <1>1. ASSUME NEW p \in list
        PROVE  End(p) <= port.base \/ End(port) <= p.base
    <2>1. /\ p.base \in Nat /\ port.base \in Nat
          /\ Size[p.module] \in Nat \ {0} /\ Size[port.module] \in Nat \ {0}
      BY SpaceAssumption DEF Port, Address
    <2>2. CASE p.base <= port.base
      <3>1. 0 \in 0..(Size[port.module] - 1)
        BY <2>1
      <3>2. ~Covers(p, port.base + 0)
        BY <3>1 DEF IsFree
      <3>. QED
        BY <2>1, <2>2, <3>2 DEF Covers, End
    <2>3. CASE port.base < p.base /\ p.base < End(port)
      <3>1. p.base - port.base \in 0..(Size[port.module] - 1)
        BY <2>1, <2>3 DEF End
      <3>2. ~Covers(p, port.base + (p.base - port.base))
        BY <3>1 DEF IsFree
      <3>. QED
        BY <2>1, <3>2 DEF Covers, End
    <2>4. CASE End(port) <= p.base
      BY <2>4
    <2>. QED
      BY <2>1, <2>2, <2>3, <2>4 DEF End
  <1>. QED
    BY <1>1 DEF NoOverlap

(* Removing ports keeps the others apart. *)
LEMMA FewerStayApart ==
    ASSUME NEW list, NEW rest \in SUBSET list, NoOverlap(list)
    PROVE  NoOverlap(rest)
  BY DEF NoOverlap

(* A cell reached through a port is a cell of its module. *)
LEMMA CellOfIsCell ==
    ASSUME NEW p \in Port, NEW a \in Address, Covers(p, a)
    PROVE  CellOf(p, a) \in Cells /\ CellOf(p, a) # Open
  <1>1. a - p.base \in 0..(Size[p.module] - 1)
    BY SpaceAssumption DEF Port, Address, Covers, End
  <1>2. p.module \in Module
    BY DEF Port
  <1>3. CellOf(p, a) \in {p.module} \X (0..(Size[p.module] - 1))
    BY <1>1 DEF CellOf
  <1>4. CellOf(p, a) \in Cells
    BY <1>2, <1>3 DEF Cells
  <1>. QED
    BY <1>4, OpenAssumption

-----------------------------------------------------------------------------
(* Two ports of a vector never cover the same address. *)
LEMMA OnePortCovers ==
    ASSUME NEW list \in SUBSET Port, NoOverlap(list), NEW a \in Address,
           NEW p \in list, NEW q \in list, Covers(p, a), Covers(q, a)
    PROVE  p = q
  <1>1. /\ p.base \in Nat /\ q.base \in Nat /\ a \in Nat
        /\ Size[p.module] \in Nat /\ Size[q.module] \in Nat
    BY SpaceAssumption DEF Port, Address
  <1>. QED
    BY <1>1 DEF NoOverlap, Covers, End

(* find_port finds the port that covers the address, if it is switched on. *)
LEMMA FindPortFinds ==
    ASSUME NEW list \in SUBSET Port, NoOverlap(list), NEW a \in Address
    PROVE  FindPort(a, list) = {p \in list : Covers(p, a) /\ valid[p.module]}
  <1>1. ASSUME NEW p \in list, Covers(p, a), NEW q \in list, q.base <= a
        PROVE  q.base <= p.base
    <2>1. /\ p.base \in Nat /\ q.base \in Nat /\ a \in Nat
          /\ Size[p.module] \in Nat \ {0} /\ Size[q.module] \in Nat \ {0}
      BY SpaceAssumption DEF Port, Address
    <2>2. CASE p = q
      BY <2>1, <2>2
    <2>3. CASE End(p) <= q.base
      BY <1>1, <2>1, <2>3 DEF Covers, End
    <2>4. CASE End(q) <= p.base
      BY <2>1, <2>4 DEF End
    <2>. QED
      BY <2>2, <2>3, <2>4 DEF NoOverlap
  <1>. QED
    BY <1>1 DEF FindPort, LastUpTo, Covers

(* The map of a vector leads where its ports lead. *)
LEMMA TargetCovered ==
    ASSUME NEW list \in SUBSET Port, NoOverlap(list), NEW a \in Address,
           NEW p \in list, Covers(p, a)
    PROVE  Target(list)[a] = CellOf(p, a) /\ Target(list)[a] # Open
  <1>1. (CHOOSE q \in list : Covers(q, a)) = p
    BY OnePortCovers
  <1>2. Target(list)[a] = CellOf(p, a)
    BY <1>1 DEF Target
  <1>3. p \in Port
    OBVIOUS
  <1>. QED
    BY <1>2, <1>3, CellOfIsCell

LEMMA TargetOpen ==
    ASSUME NEW list, NEW a \in Address, \A p \in list : ~Covers(p, a)
    PROVE  Target(list)[a] = Open
  BY DEF Target

-----------------------------------------------------------------------------
(* What the changes of a vector do to its map. *)
LEMMA AddTarget ==
    ASSUME NEW list \in SUBSET Port, NoOverlap(list),
           NEW port \in Port, End(port) <= Span, IsFree(port, list)
    PROVE  /\ \A a \in Map!Extent(port.module, port.base) : Target(list)[a] = Open
           /\ Target(list \cup {port}) =
                 [a \in Address |-> IF a \in Map!Extent(port.module, port.base)
                                   THEN <<port.module, a - port.base>>
                                   ELSE Target(list)[a]]
  <1>1. NoOverlap(list \cup {port}) /\ list \cup {port} \in SUBSET Port
    BY AddKeepsApart
  <1>2. ASSUME NEW a \in Address
        PROVE  a \in Map!Extent(port.module, port.base) <=> Covers(port, a)
    BY DEF Map!Extent, Covers, End
  <1>3. ASSUME NEW a \in Address, Covers(port, a)
        PROVE  \A p \in list : ~Covers(p, a)
    <2>1. /\ a \in Nat /\ port.base \in Nat /\ Size[port.module] \in Nat
      BY SpaceAssumption DEF Port, Address
    <2>2. a - port.base \in 0..(Size[port.module] - 1)
      BY <1>3, <2>1 DEF Covers, End
    <2>3. port.base + (a - port.base) = a
      BY <2>1
    <2>. QED
      BY <2>2, <2>3 DEF IsFree
  <1>4. \A a \in Map!Extent(port.module, port.base) : Target(list)[a] = Open
    BY <1>2, <1>3, TargetOpen DEF Map!Extent
  <1>5. ASSUME NEW a \in Address
        PROVE  Target(list \cup {port})[a] =
                 IF a \in Map!Extent(port.module, port.base)
                 THEN <<port.module, a - port.base>> ELSE Target(list)[a]
    <2>1. CASE Covers(port, a)
      BY <1>1, <1>2, <2>1, TargetCovered DEF CellOf
    <2>2. CASE ~Covers(port, a) /\ \E p \in list : Covers(p, a)
      <3>1. PICK p \in list : Covers(p, a)
        BY <2>2
      <3>2. Target(list)[a] = CellOf(p, a)
        BY <3>1, TargetCovered
      <3>3. Target(list \cup {port})[a] = CellOf(p, a)
        BY <1>1, <3>1, TargetCovered
      <3>. QED
        BY <1>2, <2>2, <3>2, <3>3
    <2>3. CASE ~Covers(port, a) /\ \A p \in list : ~Covers(p, a)
      BY <1>2, <2>3, TargetOpen
    <2>. QED
      BY <2>1, <2>2, <2>3
  <1>6. Target(list \cup {port}) = [a \in Address |-> Target(list \cup {port})[a]]
    BY DEF Target
  <1>. QED
    BY <1>4, <1>5, <1>6

LEMMA RestTarget ==
    ASSUME NEW list \in SUBSET Port, NoOverlap(list), NEW rest \in SUBSET list,
           NEW gone \in SUBSET Address,
           \A a \in Address, p \in list : Covers(p, a) => (a \in gone <=> p \notin rest)
    PROVE  Target(rest) = Map!Without(Target(list), gone)
  <1>1. NoOverlap(rest) /\ rest \in SUBSET Port
    BY FewerStayApart
  <1>2. ASSUME NEW a \in Address
        PROVE  Target(rest)[a] = IF a \in gone THEN Open ELSE Target(list)[a]
    <2>1. CASE \E p \in rest : Covers(p, a)
      <3>1. PICK p \in rest : Covers(p, a)
        BY <2>1
      <3>2. Target(rest)[a] = CellOf(p, a)
        BY <1>1, <3>1, TargetCovered
      <3>3. Target(list)[a] = CellOf(p, a) /\ a \notin gone
        BY <3>1, TargetCovered
      <3>. QED
        BY <3>2, <3>3
    <2>2. CASE \A p \in rest : ~Covers(p, a)
      <3>1. Target(rest)[a] = Open
        BY <2>2, TargetOpen
      <3>2. CASE \A p \in list : ~Covers(p, a)
        BY <3>1, <3>2, TargetOpen
      <3>3. CASE \E p \in list : Covers(p, a)
        BY <2>2, <3>1, <3>3
      <3>. QED
        BY <3>2, <3>3
    <2>. QED
      BY <2>1, <2>2
  <1>3. Target(rest) = [a \in Address |-> Target(rest)[a]]
    BY DEF Target
  <1>. QED
    BY <1>2, <1>3 DEF Map!Without

LEMMA RemoveModuleTarget ==
    ASSUME NEW list \in SUBSET Port, NoOverlap(list), NEW m \in Module
    PROVE  Target({p \in list : p.module # m}) =
             Map!Without(Target(list), Map!LeadTo(Target(list), m))
  <1>. DEFINE rest == {p \in list : p.module # m}
              gone == Map!LeadTo(Target(list), m)
  <1>1. ASSUME NEW a \in Address, NEW p \in list, Covers(p, a)
        PROVE  a \in gone <=> p \notin rest
    BY <1>1, TargetCovered DEF Map!LeadTo, CellOf
  <1>2. gone \in SUBSET Address
    BY DEF Map!LeadTo
  <1>3. rest \in SUBSET list
    OBVIOUS
  <1>. HIDE DEF rest, gone
  <1>4. Target(rest) = Map!Without(Target(list), gone)
    BY <1>1, <1>2, <1>3, RestTarget
  <1>. QED
    BY <1>4 DEF rest, gone

LEMMA RemoveAtTarget ==
    ASSUME NEW list \in SUBSET Port, NoOverlap(list), NEW base \in Address
    PROVE  Target({p \in list : p.base # base}) =
             Map!Without(Target(list), Map!PortAt(Target(list), base))
  <1>. DEFINE rest == {p \in list : p.base # base}
              gone == Map!PortAt(Target(list), base)
  <1>1. ASSUME NEW a \in Address, NEW p \in list, Covers(p, a)
        PROVE  a \in gone <=> p \notin rest
    <2>1. a \in Nat /\ p.base \in Nat /\ base \in Nat /\ p.base <= a
      BY <1>1 DEF Port, Address, Covers
    <2>2. Target(list)[a] = CellOf(p, a) /\ Target(list)[a] # Open
      BY <1>1, TargetCovered
    <2>3. a \in gone <=> a = base + (a - p.base)
      BY <2>2 DEF Map!PortAt, CellOf
    <2>. QED
      BY <2>1, <2>3
  <1>2. gone \in SUBSET Address
    BY DEF Map!PortAt
  <1>3. rest \in SUBSET list
    OBVIOUS
  <1>. HIDE DEF rest, gone
  <1>4. Target(rest) = Map!Without(Target(list), gone)
    BY <1>1, <1>2, <1>3, RestTarget
  <1>. QED
    BY <1>4 DEF rest, gone

LEMMA EmptyTarget == Target({}) = [a \in Address |-> Open]
  BY DEF Target

-----------------------------------------------------------------------------
(* The invariant. *)
LEMMA InitInv == Init => Inv
  BY DEF Init, Inv, TypeOK, PortsDisjoint, NoOverlap

LEMMA RewireInv ==
    ASSUME Inv, NEW port \in Port, End(port) <= Span,
           AddReadPort(port) \/ AddWritePort(port) \/ AddPort(port)
    PROVE  Inv'
  <1>1. /\ m_read_ports \in SUBSET Port /\ NoOverlap(m_read_ports)
        /\ m_write_ports \in SUBSET Port /\ NoOverlap(m_write_ports)
    BY DEF Inv, TypeOK, PortsDisjoint
  <1>2. IsFree(port, m_read_ports) => NoOverlap(m_read_ports \cup {port})
    BY <1>1, AddKeepsApart
  <1>3. IsFree(port, m_write_ports) => NoOverlap(m_write_ports \cup {port})
    BY <1>1, AddKeepsApart
  <1>4. PortsDisjoint'
    BY <1>1, <1>2, <1>3 DEF AddReadPort, AddWritePort, AddPort, PortsDisjoint, NoOverlap, End
  <1>5. TypeOK'
    BY DEF Inv, TypeOK, AddReadPort, AddWritePort, AddPort
  <1>. QED
    BY <1>4, <1>5 DEF Inv

LEMMA RemoveInv ==
    ASSUME Inv,
           \/ \E m \in Module : RemoveModule(m)
           \/ \E addr \in Address : RemoveAt(addr)
           \/ Clear
    PROVE  Inv'
  BY DEF Inv, TypeOK, PortsDisjoint, NoOverlap, End, RemoveModule, RemoveAt, Clear

LEMMA AccessInv ==
    ASSUME Inv,
           \/ \E m \in Module, on \in BOOLEAN : SetValid(m, on)
           \/ \E ptr \in Address : Read(ptr)
           \/ \E ptr \in Address, value \in Value : Write(ptr, value)
    PROVE  Inv'
  <1>1. PortsDisjoint'
    BY DEF Inv, PortsDisjoint, NoOverlap, End, SetValid, Read, Write, ports
  <1>2. CASE \E m \in Module, on \in BOOLEAN : SetValid(m, on)
    BY <1>1, <1>2 DEF Inv, TypeOK, SetValid, ports
  <1>3. CASE \E ptr \in Address : Read(ptr)
    <2>1. PICK ptr \in Address : Read(ptr)
      BY <1>3
    <2>2. ASSUME NEW p \in FindPort(ptr, m_read_ports)
          PROVE  content[CellOf(p, ptr)] \in Value
      <3>1. p \in Port /\ Covers(p, ptr)
        BY DEF Inv, TypeOK, FindPort, LastUpTo, Covers
      <3>. QED
        BY <3>1, CellOfIsCell DEF Inv, TypeOK
    <2>. QED
      BY <1>1, <2>1, <2>2 DEF Inv, TypeOK, Read, ports
  <1>4. CASE \E ptr \in Address, value \in Value : Write(ptr, value)
    BY <1>1, <1>4 DEF Inv, TypeOK, Write, ports
  <1>. QED
    BY <1>2, <1>3, <1>4

LEMMA NextInv == Inv /\ [Next]_vars => Inv'
  <1>. SUFFICES ASSUME Inv, [Next]_vars PROVE Inv'
    OBVIOUS
  <1>1. CASE UNCHANGED vars
    BY <1>1 DEF Inv, TypeOK, PortsDisjoint, NoOverlap, End, vars, ports
  <1>2. CASE Next
    BY <1>2, RewireInv, RemoveInv, AccessInv DEF Next
  <1>. QED
    BY <1>1, <1>2

THEOREM Invariance == Spec => []Inv
  BY InitInv, NextInv, PTL DEF Spec

(***************************************************************************)
(* The variables keep the types of their C++ counterparts: no access ever  *)
(* leaves the data of the module it was led to.                            *)
(***************************************************************************)
THEOREM TypeCorrect == Spec => []TypeOK
  <1>1. Inv => TypeOK
    BY DEF Inv
  <1>. QED
    BY <1>1, Invariance, PTL

(***************************************************************************)
(* Whatever is attached and removed in whatever order, no two ports of a   *)
(* vector overlap: the check in add_port and the removals never let them.  *)
(***************************************************************************)
THEOREM PortsStayDisjoint == Spec => []PortsDisjoint
  <1>1. Inv => PortsDisjoint
    BY DEF Inv
  <1>. QED
    BY <1>1, Invariance, PTL

-----------------------------------------------------------------------------
(* Every call is a call of the map, or changes nothing in it. *)
LEMMA AddRefines ==
    ASSUME Inv, NEW port \in Port, End(port) <= Span,
           AddReadPort(port) \/ AddWritePort(port) \/ AddPort(port)
    PROVE  Map!Next
  <1>. DEFINE reached == Map!Extent(port.module, port.base)
  <1>1. /\ m_read_ports \in SUBSET Port /\ NoOverlap(m_read_ports)
        /\ m_write_ports \in SUBSET Port /\ NoOverlap(m_write_ports)
    BY DEF Inv, TypeOK, PortsDisjoint
  <1>2. ASSUME IsFree(port, m_read_ports)
        PROVE  /\ \A a \in reached : Target(m_read_ports)[a] = Open
               /\ Target(m_read_ports \cup {port}) =
                    [a \in Address |-> IF a \in reached THEN <<port.module, a - port.base>>
                                      ELSE Target(m_read_ports)[a]]
    BY <1>1, <1>2, AddTarget
  <1>3. ASSUME IsFree(port, m_write_ports)
        PROVE  /\ \A a \in reached : Target(m_write_ports)[a] = Open
               /\ Target(m_write_ports \cup {port}) =
                    [a \in Address |-> IF a \in reached THEN <<port.module, a - port.base>>
                                      ELSE Target(m_write_ports)[a]]
    BY <1>1, <1>3, AddTarget
  <1>4. \A list : Target(list) = [a \in Address |-> Target(list)[a]]
    BY DEF Target
  <1>. HIDE DEF reached
  <1>5. ASSUME AddReadPort(port)
        PROVE  Map!Attach({"read"}, port.module, port.base)
    <2>1. Target(m_read_ports') = Target(m_read_ports \cup {port})
          /\ Target(m_write_ports') = Target(m_write_ports)
      BY <1>5 DEF AddReadPort
    <2>. QED
      BY <1>2, <1>4, <1>5, <2>1 DEF AddReadPort, Map!Attach, Map!Way, reached
  <1>6. ASSUME AddWritePort(port)
        PROVE  Map!Attach({"write"}, port.module, port.base)
    <2>1. Target(m_write_ports') = Target(m_write_ports \cup {port})
          /\ Target(m_read_ports') = Target(m_read_ports)
      BY <1>6 DEF AddWritePort
    <2>. QED
      BY <1>3, <1>4, <1>6, <2>1 DEF AddWritePort, Map!Attach, Map!Way, reached
  <1>7. ASSUME AddPort(port)
        PROVE  Map!Attach({"read", "write"}, port.module, port.base)
    <2>1. Target(m_read_ports') = Target(m_read_ports \cup {port})
          /\ Target(m_write_ports') = Target(m_write_ports \cup {port})
      BY <1>7 DEF AddPort
    <2>. QED
      BY <1>2, <1>3, <1>4, <1>7, <2>1 DEF AddPort, Map!Attach, Map!Way, reached
  <1>8. /\ port.module \in Module /\ port.base \in Address
        /\ {"read"} \in SUBSET Map!Way /\ {"write"} \in SUBSET Map!Way
        /\ {"read", "write"} \in SUBSET Map!Way
    BY DEF Port, Map!Way
  <1>9. UNCHANGED <<valid, content, m_last_bus_value>>
    BY DEF AddReadPort, AddWritePort, AddPort
  <1>10. \E ways \in SUBSET Map!Way, m \in Module, base \in Address : Map!Attach(ways, m, base)
    BY <1>5, <1>6, <1>7, <1>8
  <1>. QED
    BY <1>9, <1>10 DEF Map!Next, Map!Rewire

LEMMA RemoveRefines ==
    ASSUME Inv,
           \/ \E m \in Module : RemoveModule(m)
           \/ \E addr \in Address : RemoveAt(addr)
           \/ Clear
    PROVE  Map!Next
  <1>1. /\ m_read_ports \in SUBSET Port /\ NoOverlap(m_read_ports)
        /\ m_write_ports \in SUBSET Port /\ NoOverlap(m_write_ports)
    BY DEF Inv, TypeOK, PortsDisjoint
  <1>2. ASSUME NEW m \in Module, RemoveModule(m)
        PROVE  Map!DetachModule(m)
    <2>1. /\ Target(m_read_ports') = Map!Without(Target(m_read_ports),
                                               Map!LeadTo(Target(m_read_ports), m))
          /\ Target(m_write_ports') = Map!Without(Target(m_write_ports),
                                                Map!LeadTo(Target(m_write_ports), m))
      BY <1>1, <1>2, RemoveModuleTarget DEF RemoveModule
    <2>. QED
      BY <2>1 DEF Map!DetachModule, Map!Way
  <1>3. ASSUME NEW addr \in Address, RemoveAt(addr)
        PROVE  Map!DetachAt(addr)
    <2>1. /\ Target(m_read_ports') = Map!Without(Target(m_read_ports),
                                               Map!PortAt(Target(m_read_ports), addr))
          /\ Target(m_write_ports') = Map!Without(Target(m_write_ports),
                                                Map!PortAt(Target(m_write_ports), addr))
      BY <1>1, <1>3, RemoveAtTarget DEF RemoveAt
    <2>. QED
      BY <2>1 DEF Map!DetachAt, Map!Way
  <1>4. ASSUME Clear
        PROVE  Map!DetachAll
    BY <1>4, EmptyTarget DEF Clear, Map!DetachAll, Map!Way
  <1>5. UNCHANGED <<valid, content, m_last_bus_value>>
    BY DEF RemoveModule, RemoveAt, Clear
  <1>. QED
    BY <1>2, <1>3, <1>4, <1>5 DEF Map!Next, Map!Rewire

LEMMA SetValidRefines ==
    ASSUME Inv, NEW m \in Module, NEW on \in BOOLEAN, SetValid(m, on)
    PROVE  Map!Next
  <1>1. {x \in Module : valid'[x]} =
          IF on THEN {x \in Module : valid[x]} \cup {m} ELSE {x \in Module : valid[x]} \ {m}
    BY DEF SetValid, Inv, TypeOK
  <1>2. UNCHANGED <<m_read_ports, m_write_ports, content, m_last_bus_value>>
    BY DEF SetValid, ports
  <1>3. Map!Switch(m, on)
    BY <1>1, <1>2 DEF Map!Switch, Target
  <1>. QED
    BY <1>3 DEF Map!Next

(***************************************************************************)
(* An access: find_port finds a port exactly if the map answers, and the   *)
(* port leads to the cell of the map.                                      *)
(***************************************************************************)
LEMMA FindPortAnswers ==
    ASSUME Inv, NEW a \in Address, NEW list \in SUBSET Port, NoOverlap(list)
    PROVE  /\ FindPort(a, list) = {} <=> ~Map!Answers(Target(list)[a])
           /\ \A p \in FindPort(a, list) :
                 CellOf(p, a) = Target(list)[a] /\ p.module = Target(list)[a][1]
  <1>1. FindPort(a, list) = {p \in list : Covers(p, a) /\ valid[p.module]}
    BY FindPortFinds
  <1>2. ASSUME NEW p \in list, Covers(p, a)
        PROVE  /\ Target(list)[a] = CellOf(p, a) /\ Target(list)[a] # Open
               /\ Target(list)[a][1] = p.module /\ p.module \in Module
    BY <1>2, TargetCovered DEF CellOf, Port
  <1>3. CASE \A p \in list : ~Covers(p, a)
    BY <1>1, <1>3, TargetOpen DEF Map!Answers
  <1>4. CASE \E p \in list : Covers(p, a)
    <2>1. PICK p \in list : Covers(p, a)
      BY <1>4
    <2>2. \A q \in list : Covers(q, a) => q = p
      BY <2>1, OnePortCovers
    <2>3. Map!Answers(Target(list)[a]) <=> valid[p.module]
      BY <1>2, <2>1 DEF Map!Answers
    <2>. QED
      BY <1>1, <1>2, <2>1, <2>2, <2>3
  <1>. QED
    BY <1>3, <1>4

LEMMA ReadRefines ==
    ASSUME Inv, NEW ptr \in Address, Read(ptr)
    PROVE  Map!Next
  <1>1. m_read_ports \in SUBSET Port /\ NoOverlap(m_read_ports)
    BY DEF Inv, TypeOK, PortsDisjoint
  <1>2. UNCHANGED <<m_read_ports, m_write_ports, valid, content>>
    BY DEF Read, ports
  <1>3. m_last_bus_value' = IF Map!Answers(Target(m_read_ports)[ptr])
                            THEN content[Target(m_read_ports)[ptr]] ELSE m_last_bus_value
    BY <1>1, FindPortAnswers DEF Read
  <1>4. Map!Read(ptr)
    BY <1>2, <1>3 DEF Map!Read, Target, Map!Answers
  <1>. QED
    BY <1>4 DEF Map!Next

LEMMA WriteRefines ==
    ASSUME Inv, NEW ptr \in Address, NEW value \in Value, Write(ptr, value)
    PROVE  Map!Next
  <1>1. m_write_ports \in SUBSET Port /\ NoOverlap(m_write_ports)
    BY DEF Inv, TypeOK, PortsDisjoint
  <1>2. UNCHANGED <<m_read_ports, m_write_ports, valid>> /\ m_last_bus_value' = value
    BY DEF Write, ports
  <1>. DEFINE cell == Target(m_write_ports)[ptr]
  <1>3. \A p, q \in FindPort(ptr, m_write_ports) : p = q
    <2>1. FindPort(ptr, m_write_ports) =
            {p \in m_write_ports : Covers(p, ptr) /\ valid[p.module]}
      BY <1>1, FindPortFinds
    <2>. QED
      BY <1>1, <2>1, OnePortCovers
  <1>4. content' = IF Map!Answers(cell) /\ cell[1] \in Writable
                   THEN [content EXCEPT ![cell] = value] ELSE content
    BY <1>1, <1>3, FindPortAnswers DEF Write
  <1>5. Map!Write(ptr, value)
    BY <1>2, <1>4 DEF Map!Write, Target, Map!Answers
  <1>. QED
    BY <1>5 DEF Map!Next

(***************************************************************************)
(* The sorted vectors of ports implement the map, for every bus, every set *)
(* of modules and every sequence of calls.                                 *)
(***************************************************************************)
THEOREM AddressSpaceRefinesMap == Spec => ImplementsAddressMap
  <1>1. Init => Map!Init
    BY EmptyTarget DEF Init, Map!Init, Map!Way, Map!Cells, Cells
  <1>2. Inv /\ [Next]_vars => [Map!Next]_(Map!vars)
    <2>. SUFFICES ASSUME Inv, [Next]_vars PROVE [Map!Next]_(Map!vars)
      OBVIOUS
    <2>1. CASE UNCHANGED vars
      BY <2>1 DEF vars, ports, Map!vars, Target
    <2>2. CASE Next
      BY <2>2, AddRefines, RemoveRefines, SetValidRefines, ReadRefines, WriteRefines
         DEF Next
    <2>. QED
      BY <2>1, <2>2
  <1>. QED
    BY <1>1, <1>2, Invariance, PTL DEF Spec, ImplementsAddressMap, Map!Spec
=============================================================================
