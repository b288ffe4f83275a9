--------------------------- MODULE ConsoleProofs ----------------------------
(***************************************************************************)
(* Proofs about the program around the machine, for every set of files a   *)
(* player may start, any number of sessions, kills and failing saves, any  *)
(* length of the event queue and any number of reads of the controller.    *)
(*                                                                         *)
(* Three invariants that have little to do with each other: what the queue *)
(* of events still has to say about the keys, how far the game has read on *)
(* in the controller, and what the disk holds for which game.              *)
(***************************************************************************)
EXTENDS Console, TLAPS

KeyNames == {Buttons[i] : i \in 1..8}

Event ==
    [type : {"pressed", "released"}, key : KeyNames] \cup {[type |-> "closed", key |-> ""]}

(* The waiting events about a key. *)
About(q, b, i) == q[i].type # "closed" /\ q[i].key = b

Latest(q, b, i) == About(q, b, i) /\ \A j \in 1..Len(q) : j > i => ~About(q, b, j)

(***************************************************************************)
(* The last waiting event about a key says what the player does with it;   *)
(* when none is waiting, the game has heard of the key being up.           *)
(***************************************************************************)
Reported(q, held, told, b) ==
    \/ \E i \in 1..Len(q) : Latest(q, b, i) /\ (q[i].type = "pressed" <=> b \in held)
    \/ (\A i \in 1..Len(q) : ~About(q, b, i)) /\ (b \in told => b \in held)

NoOpposites(told) == \A b \in told : Opposite(b) \cap told = {}

(***************************************************************************)
(* The buttons that the game will be told of once all that waits has been  *)
(* told, by way of what it is told after each event.                       *)
(***************************************************************************)
ToldNext(told, e) == IF e.type = "closed" THEN told ELSE AfterKey(told, e)

LeadsTo(told, q, final) ==
    \E T \in Seq(SUBSET KeyNames) :
        /\ Len(T) = Len(q) + 1 /\ T[1] = told /\ T[Len(q) + 1] = final
        /\ \A i \in 1..Len(q) : T[i + 1] = ToldNext(T[i], q[i])

(* What is told in the end agrees with the keys held. *)
Settled(told, held, against) ==
    /\ told \subseteq held
    /\ held \ against \subseteq told
    /\ \A b \in held : Opposite(b) \cap held # {} => ({b} \cup Opposite(b)) \cap told # {}

KeyInv ==
    /\ scenario \in Scenarios
    /\ \E final \in SUBSET KeyNames :
          LeadsTo(state, queue, final) /\ Settled(final, keys, contested)
    /\ queue \in Seq(Event) /\ keys \subseteq KeyNames /\ state \subseteq KeyNames
    /\ NoOpposites(state)
    /\ \A b \in KeyNames : Reported(queue, keys, state, b)

(* How far the game has read on since the strobe went off. *)
PollInv ==
    /\ polled.nth \in Nat /\ m_strobe_on \in BOOLEAN
    /\ m_strobe_on => polled.nth = 0
    /\ m_button_to_output = IF polled.nth > 8 THEN 8 ELSE polled.nth
    /\ PollsReadButtons

Titles == {h.title : h \in scenario.games}

FilesTyped ==
    /\ scenario \in Scenarios
    /\ phase \in {"off", "events", "frame", "closing", "saving"}
    /\ last \in {"none", "running", "closed", "killed", "refused", "rom", "zero", "ram"}
    /\ crt_ram \in RamValues \cup {0}
    /\ sav \in [Titles -> [size : Int, value : RamValues \cup {0}]]
    /\ saved \in [Titles -> RamValues \cup {0, Unknown}]

CartLoaded ==
    phase # "off" \/ last = "ram" => \E h \in scenario.games : cart_data = load_nes_file(h)

(* A save that ran to its end is on the disk, in a file of the right size. *)
SavedOnDisk ==
    \A h \in scenario.games :
        saved[h.title] # Unknown =>
            sav[h.title] = [size |-> load_nes_file(h).nvram_size, value |-> saved[h.title]]

SaveInv == FilesTyped /\ CartLoaded /\ SavedOnDisk /\ SaveComesBack

-----------------------------------------------------------------------------
(* Who acts: the two constructs of Main that name a loaded cartridge, or a step. *)
LEMMA MainSteps ==
    ASSUME Main
    PROVE  \/ \E h \in scenario.games :
                 \/ Refuse(h, load_nes_file(h))
                 \/ Abort(h, load_nes_file(h))
                 \/ Start(h, load_nes_file(h))
           \/ PollEvent
           \/ RunFrame \/ OpenSave \/ WriteSave \/ NothingToSave
  BY DEF Main

(* The keys come in two pairs of opposites. *)
LEMMA OppositesMutual ==
    ASSUME NEW b, NEW c, c \in Opposite(b)
    PROVE  Opposite(c) = {b} /\ Opposite(b) = {c} /\ b # c
  BY DEF Opposite

LEMMA EventFields ==
    ASSUME NEW e \in Event
    PROVE  /\ e.type \in {"pressed", "released", "closed"}
           /\ e.type # "closed" => e.key \in KeyNames
           /\ e.type = "released" => e = [type |-> "released", key |-> e.key]
  <1>1. CASE e \in [type : {"pressed", "released"}, key : KeyNames]
    BY <1>1
  <1>2. CASE e = [type |-> "closed", key |-> ""]
    BY <1>2
  <1>. QED
    BY <1>1, <1>2 DEF Event

(* One more event. *)
LEMMA AppendReported ==
    ASSUME NEW q \in Seq(Event), NEW held, NEW after, NEW told, NEW e \in Event,
           NEW b,
           Reported(q, held, told, b),
           \/ e.type = "pressed" /\ after = held \cup {e.key}
           \/ e.type = "released" /\ after = held \ {e.key}
           \/ e.type = "closed" /\ after = held
    PROVE  Reported(Append(q, e), after, told, b)
  <1>. DEFINE r == Append(q, e)
              n == Len(q)
  <1>1. /\ n \in Nat /\ Len(r) = n + 1 /\ r[n + 1] = e
        /\ \A i \in 1..n : r[i] = q[i]
    OBVIOUS
  <1>. HIDE DEF r, n
  <1>2. CASE e.type # "closed" /\ e.key = b
    <2>1. n + 1 \in 1..Len(r) /\ \A j \in 1..Len(r) : ~(j > n + 1)
      BY <1>1
    <2>2. Latest(r, b, n + 1)
      BY <1>1, <1>2, <2>1 DEF Latest, About
    <2>3. r[n + 1].type = "pressed" <=> b \in after
      BY <1>1, <1>2
    <2>. QED
      BY <2>1, <2>2, <2>3 DEF Reported, r
  <1>3. CASE ~(e.type # "closed" /\ e.key = b)
    <2>1. b \in after <=> b \in held
      BY <1>3
    <2>2. ~About(r, b, n + 1)
      BY <1>1, <1>3 DEF About
    <2>3. ASSUME NEW i \in 1..n, Latest(q, b, i), q[i].type = "pressed" <=> b \in held
          PROVE  Reported(r, after, told, b)
      <3>1. i \in 1..Len(r) /\ r[i].type = q[i].type
        BY <1>1
      <3>2. \A j \in 1..Len(r) : j = n + 1 \/ (j \in 1..n /\ r[j] = q[j])
        BY <1>1
      <3>3. Latest(r, b, i)
        BY <1>1, <2>2, <2>3, <3>1, <3>2 DEF Latest, About, n
      <3>. QED
        BY <2>1, <2>3, <3>1, <3>3 DEF Reported
    <2>4. ASSUME \A i \in 1..n : ~About(q, b, i), b \in told => b \in held
          PROVE  Reported(r, after, told, b)
      <3>1. \A i \in 1..Len(r) : ~About(r, b, i)
        BY <1>1, <2>2, <2>4 DEF About
      <3>. QED
        BY <2>1, <2>4, <3>1 DEF Reported
    <2>. QED
      BY <2>3, <2>4 DEF Reported, n, r
  <1>. QED
    BY <1>2, <1>3

(* The first event is taken out and told to the game. *)
LEMMA TailReported ==
    ASSUME NEW q \in Seq(Event), q # <<>>, NEW held, NEW told, NEW after, NEW b,
           Reported(q, held, told, b),
           \/ q[1].type = "closed" /\ after = told
           \/ q[1].type = "released" /\ after = told \ {q[1].key}
           \/ /\ q[1].type = "pressed"
              /\ \/ after = told \cup {q[1].key}
                 \/ after = told /\ Opposite(q[1].key) # {}
    PROVE  Reported(Tail(q), held, after, b)
  <1>. DEFINE r == Tail(q)
              n == Len(q)
  <1>1. /\ n \in Nat /\ n > 0 /\ Len(r) = n - 1
        /\ \A i \in 1..Len(r) : r[i] = q[i + 1]
    OBVIOUS
  <1>. HIDE DEF r, n
  <1>2. ASSUME NEW i \in 1..n, Latest(q, b, i), q[i].type = "pressed" <=> b \in held, i # 1
        PROVE  Reported(r, held, after, b)
    <2>1. i - 1 \in 1..Len(r) /\ r[i - 1] = q[i]
      BY <1>1, <1>2
    <2>2. \A j \in 1..Len(r) : j > i - 1 => j + 1 \in 1..n /\ j + 1 > i /\ r[j] = q[j + 1]
      BY <1>1, <1>2
    <2>3. Latest(r, b, i - 1)
      <3>1. About(r, b, i - 1)
        BY <1>2, <2>1 DEF Latest, About
      <3>2. ASSUME NEW j \in 1..Len(r), j > i - 1 PROVE ~About(r, b, j)
        <4>1. j + 1 \in 1..n /\ j + 1 > i /\ r[j] = q[j + 1]
          BY <2>2, <3>2
        <4>2. ~About(q, b, j + 1)
          BY <1>2, <4>1 DEF Latest, n
        <4>. QED
          BY <4>1, <4>2 DEF About
      <3>. QED
        BY <3>1, <3>2 DEF Latest
    <2>. QED
      BY <1>2, <2>1, <2>3 DEF Reported
  <1>3. ASSUME Latest(q, b, 1), q[1].type = "pressed" <=> b \in held
        PROVE  Reported(r, held, after, b)
    <2>1. \A j \in 1..Len(r) : ~About(r, b, j)
      <3>1. \A j \in 1..Len(r) : j + 1 \in 1..n /\ j + 1 > 1 /\ r[j] = q[j + 1]
        BY <1>1
      <3>. QED
        BY <1>3, <3>1 DEF Latest, About, n
    <2>2. q[1].type # "closed" /\ q[1].key = b
      BY <1>3 DEF Latest, About
    <2>. QED
      BY <1>3, <2>1, <2>2 DEF Reported
  <1>4. ASSUME \A i \in 1..n : ~About(q, b, i), b \in told => b \in held
        PROVE  Reported(r, held, after, b)
    <2>1. \A j \in 1..Len(r) : ~About(r, b, j)
      <3>1. \A j \in 1..Len(r) : j + 1 \in 1..n /\ r[j] = q[j + 1]
        BY <1>1
      <3>. QED
        BY <1>4, <3>1 DEF About
    <2>2. 1 \in 1..n /\ ~About(q, b, 1)
      BY <1>1, <1>4
    <2>3. b \in after <=> b \in told
      BY <2>2 DEF About
    <2>. QED
      BY <1>4, <2>1, <2>3 DEF Reported
  <1>. QED
    BY <1>2, <1>3, <1>4 DEF Reported, n, r

(* One more event waits, and the game will be told of it last. *)
LEMMA AppendLeads ==
    ASSUME NEW q \in Seq(Event), NEW e \in Event, NEW told, NEW final,
           LeadsTo(told, q, final), ToldNext(final, e) \in SUBSET KeyNames
    PROVE  LeadsTo(told, Append(q, e), ToldNext(final, e))
  <1>1. PICK T \in Seq(SUBSET KeyNames) :
            /\ Len(T) = Len(q) + 1 /\ T[1] = told /\ T[Len(q) + 1] = final
            /\ \A i \in 1..Len(q) : T[i + 1] = ToldNext(T[i], q[i])
    BY DEF LeadsTo
  <1>. DEFINE r == Append(q, e)
              last_told == ToldNext(final, e)
              U == Append(T, last_told)
              n == Len(q)
  <1>2. /\ n \in Nat /\ Len(r) = n + 1 /\ r[n + 1] = e /\ \A i \in 1..n : r[i] = q[i]
    OBVIOUS
  <1>. HIDE DEF r, last_told
  <1>3. /\ U \in Seq(SUBSET KeyNames) /\ Len(U) = Len(T) + 1 /\ U[Len(T) + 1] = last_told
        /\ \A i \in 1..Len(T) : U[i] = T[i]
    BY DEF last_told
  <1>. HIDE DEF U, n
  <1>4. Len(U) = Len(r) + 1 /\ U[Len(r) + 1] = last_told /\ U[1] = told
    BY <1>1, <1>2, <1>3 DEF n
  <1>5. ASSUME NEW i \in 1..Len(r) PROVE U[i + 1] = ToldNext(U[i], r[i])
    <2>1. CASE i = n + 1
      BY <1>1, <1>2, <1>3, <2>1 DEF n, last_told
    <2>2. CASE i \in 1..n
      <3>1. U[i + 1] = T[i + 1] /\ U[i] = T[i] /\ r[i] = q[i]
        BY <1>1, <1>2, <1>3, <2>2 DEF n
      <3>. QED
        BY <1>1, <2>2, <3>1 DEF n
    <2>. QED
      BY <1>2, <2>1, <2>2
  <1>6. LeadsTo(told, r, last_told)
    BY <1>3, <1>4, <1>5 DEF LeadsTo
  <1>. QED
    BY <1>6 DEF r, last_told

(* The game is told of the first event, and the rest still waits. *)
LEMMA TailLeads ==
    ASSUME NEW q \in Seq(Event), q # <<>>, NEW told, NEW final, LeadsTo(told, q, final)
    PROVE  LeadsTo(ToldNext(told, q[1]), Tail(q), final)
  <1>1. PICK T \in Seq(SUBSET KeyNames) :
            /\ Len(T) = Len(q) + 1 /\ T[1] = told /\ T[Len(q) + 1] = final
            /\ \A i \in 1..Len(q) : T[i + 1] = ToldNext(T[i], q[i])
    BY DEF LeadsTo
  <1>. DEFINE r == Tail(q)
              U == Tail(T)
              n == Len(q)
  <1>2. n \in Nat /\ n > 0 /\ Len(r) = n - 1 /\ \A i \in 1..Len(r) : r[i] = q[i + 1]
    OBVIOUS
  <1>3. T # <<>> /\ Len(T) = n + 1
    BY <1>1, <1>2
  <1>. HIDE DEF r
  <1>4. /\ U \in Seq(SUBSET KeyNames) /\ Len(U) = n /\ \A i \in 1..n : U[i] = T[i + 1]
    BY <1>2, <1>3
  <1>. HIDE DEF U
  <1>5. Len(U) = Len(r) + 1 /\ U[1] = ToldNext(told, q[1]) /\ U[Len(r) + 1] = final
    BY <1>1, <1>2, <1>4
  <1>6. ASSUME NEW i \in 1..Len(r) PROVE U[i + 1] = ToldNext(U[i], r[i])
    <2>1. i + 1 \in 1..n /\ i \in 1..n
      BY <1>2
    <2>2. U[i + 1] = T[(i + 1) + 1] /\ U[i] = T[i + 1] /\ r[i] = q[i + 1]
      BY <1>2, <1>4, <2>1
    <2>. QED
      BY <1>1, <2>1, <2>2
  <1>. QED
    BY <1>4, <1>5, <1>6 DEF LeadsTo, r

(* A press, a release and a close leave what will be told in agreement with the keys. *)
LEMMA PressSettles ==
    ASSUME NEW told \in SUBSET KeyNames, NEW held, NEW against, NEW b \in KeyNames,
           NEW after, NEW left, Settled(told, held, against),
           after = IF Opposite(b) \cap told # {} THEN told ELSE told \cup {b},
           left = IF Opposite(b) \cap held = {} THEN against \ {b}
                  ELSE against \cup ({b} \ held)
    PROVE  Settled(after, held \cup {b}, left)
  <1>1. after \subseteq held \cup {b}
    BY DEF Settled
  <1>2. ASSUME NEW c \in held \cup {b}, c \notin left PROVE c \in after
    <2>1. CASE c = b
      <3>1. CASE Opposite(b) \cap held = {}
        BY <2>1, <3>1 DEF Settled
      <3>2. CASE Opposite(b) \cap held # {}
        BY <1>2, <2>1, <3>2 DEF Settled
      <3>. QED
        BY <3>1, <3>2
    <2>2. CASE c # b
      BY <1>2, <2>2 DEF Settled
    <2>. QED
      BY <2>1, <2>2
  <1>3. ASSUME NEW c \in held \cup {b}, Opposite(c) \cap (held \cup {b}) # {}
        PROVE  ({c} \cup Opposite(c)) \cap after # {}
    <2>1. CASE c = b
      BY <2>1
    <2>2. CASE b \in Opposite(c)
      <3>1. Opposite(b) = {c}
        BY <2>2, OppositesMutual
      <3>. QED
        BY <2>2, <3>1
    <2>3. CASE c # b /\ b \notin Opposite(c)
      BY <1>3, <2>3 DEF Settled
    <2>. QED
      BY <2>1, <2>2, <2>3
  <1>. QED
    BY <1>1, <1>2, <1>3 DEF Settled

LEMMA ReleaseSettles ==
    ASSUME NEW told, NEW held, NEW against, NEW b, Settled(told, held, against)
    PROVE  Settled(told \ {b}, held \ {b}, against \ {b})
  <1>1. ASSUME NEW c \in held \ {b}, Opposite(c) \cap (held \ {b}) # {}
        PROVE  ({c} \cup Opposite(c)) \cap (told \ {b}) # {}
    <2>1. PICK d \in held \ {b} : d \in Opposite(c)
      BY <1>1
    <2>2. Opposite(c) = {d}
      BY <2>1, OppositesMutual
    <2>3. ({c} \cup Opposite(c)) \cap told # {}
      BY <2>1 DEF Settled
    <2>. QED
      BY <2>1, <2>2, <2>3
  <1>. QED
    BY <1>1 DEF Settled

(***************************************************************************)
(* The steps that touch the queue, the keys held or the buttons told; all  *)
(* others leave them alone.                                                *)
(***************************************************************************)
Untouched == UNCHANGED <<scenario, queue, keys, contested, state>>

(* When nothing waits, the game has been told all there is to tell. *)
LEMMA NothingWaits ==
    ASSUME NEW told \in SUBSET KeyNames
    PROVE  \A final : LeadsTo(told, <<>>, final) <=> final = told
  <1>1. <<told>> \in Seq(SUBSET KeyNames) /\ Len(<<told>>) = 1 /\ <<told>>[1] = told
    OBVIOUS
  <1>2. Len(<<>>) = 0 /\ 1..0 = {} /\ 0 + 1 = 1
    OBVIOUS
  <1>. QED
    BY <1>1, <1>2 DEF LeadsTo

LEMMA HappensKeeps ==
    ASSUME KeyInv, NEW e \in Event, Happens(e),
           \/ /\ e.type = "pressed" /\ keys' = keys \cup {e.key}
              /\ contested' = IF Opposite(e.key) \cap keys = {} THEN contested \ {e.key}
                              ELSE contested \cup ({e.key} \ keys)
           \/ /\ e.type = "released" /\ keys' = keys \ {e.key}
              /\ contested' = contested \ {e.key}
           \/ e.type = "closed" /\ keys' = keys /\ contested' = contested,
           keys' \subseteq KeyNames
    PROVE  KeyInv'
  <1>1. queue' = Append(queue, e) /\ state' = state /\ scenario' = scenario
    BY DEF Happens, controller
  <1>2. queue' \in Seq(Event)
    BY <1>1 DEF KeyInv
  <1>3. ASSUME NEW b \in KeyNames PROVE Reported(queue', keys', state', b)
    <2>1. queue \in Seq(Event) /\ Reported(queue, keys, state, b)
      BY DEF KeyInv
    <2>2. Reported(Append(queue, e), keys', state, b)
      BY <2>1, AppendReported
    <2>. QED
      BY <1>1, <2>2
  <1>4. PICK final \in SUBSET KeyNames :
            LeadsTo(state, queue, final) /\ Settled(final, keys, contested)
    BY DEF KeyInv
  <1>5. ToldNext(final, e) \in SUBSET KeyNames /\ Settled(ToldNext(final, e), keys', contested')
    <2>1. e.type # "closed" => e.key \in KeyNames
      BY EventFields
    <2>2. CASE e.type = "pressed"
      <3>1. ToldNext(final, e) = IF Opposite(e.key) \cap final # {} THEN final
                                 ELSE final \cup {e.key}
        BY <2>2 DEF ToldNext, AfterKey, IsPress
      <3>2. Settled(ToldNext(final, e), keys \cup {e.key}, contested')
        BY <1>4, <2>1, <2>2, <3>1, PressSettles
      <3>. QED
        BY <2>1, <2>2, <3>1, <3>2
    <2>3. CASE e.type = "released"
      <3>1. ToldNext(final, e) = final \ {e.key}
        BY <2>3 DEF ToldNext, AfterKey, IsPress
      <3>2. Settled(final \ {e.key}, keys \ {e.key}, contested \ {e.key})
        BY <1>4, ReleaseSettles
      <3>3. final \ {e.key} \in SUBSET KeyNames
        BY <1>4
      <3>4. keys' = keys \ {e.key} /\ contested' = contested \ {e.key}
        BY <2>3
      <3>. QED
        BY <3>1, <3>2, <3>3, <3>4
    <2>4. CASE e.type = "closed"
      BY <1>4, <2>4 DEF ToldNext
    <2>. QED
      BY <2>2, <2>3, <2>4
  <1>6. LeadsTo(state', queue', ToldNext(final, e))
    <2>1. queue \in Seq(Event)
      BY DEF KeyInv
    <2>. QED
      BY <1>1, <1>4, <1>5, <2>1, AppendLeads
  <1>. QED
    BY <1>1, <1>2, <1>3, <1>5, <1>6 DEF KeyInv, NoOpposites

LEMMA PollKeeps ==
    ASSUME KeyInv, PollEvent
    PROVE  KeyInv'
  <1>1. /\ queue \in Seq(Event) /\ queue # <<>> /\ queue' = Tail(queue)
        /\ keys' = keys /\ contested' = contested /\ scenario' = scenario
    BY DEF KeyInv, PollEvent
  <1>2. /\ Head(queue) = queue[1] /\ queue[1] \in Event /\ queue' \in Seq(Event)
    BY <1>1
  <1>. DEFINE e == queue[1]
  <1>3. \/ e.type = "closed" /\ state' = state
        \/ e.type = "released" /\ state' = state \ {e.key}
        \/ /\ e.type = "pressed" /\ Opposite(e.key) \cap state = {}
           /\ state' = state \cup {e.key}
        \/ e.type = "pressed" /\ Opposite(e.key) # {} /\ state' = state
    <2>1. e.type \in {"pressed", "released", "closed"}
      BY <1>2, EventFields
    <2>2. IF e.type = "closed" THEN state' = state ELSE state' = AfterKey(state, e)
      BY <1>2 DEF PollEvent
    <2>. QED
      BY <2>1, <2>2 DEF AfterKey, IsPress
  <1>4. e.type # "closed" => e.key \in KeyNames
    BY <1>2, EventFields
  <1>5. state' \subseteq KeyNames
    BY <1>3, <1>4 DEF KeyInv
  <1>6. NoOpposites(state')
    BY <1>3, OppositesMutual DEF KeyInv, NoOpposites
  <1>7. ASSUME NEW b \in KeyNames PROVE Reported(queue', keys', state', b)
    <2>1. Reported(queue, keys, state, b)
      BY DEF KeyInv
    <2>2. Reported(Tail(queue), keys, state', b)
      BY <1>1, <1>3, <2>1, TailReported
    <2>. QED
      BY <1>1, <2>2
  <1>8. PICK final \in SUBSET KeyNames :
            LeadsTo(state, queue, final) /\ Settled(final, keys, contested)
    BY DEF KeyInv
  <1>9. LeadsTo(state', queue', final) /\ Settled(final, keys', contested')
    <2>1. state' = ToldNext(state, e)
      BY <1>2 DEF PollEvent, ToldNext
    <2>2. LeadsTo(ToldNext(state, queue[1]), Tail(queue), final)
      BY <1>1, <1>8, TailLeads
    <2>. QED
      BY <1>1, <1>8, <2>1, <2>2
  <1>. QED
    BY <1>1, <1>2, <1>5, <1>6, <1>7, <1>9 DEF KeyInv

LEMMA KeysNext ==
    ASSUME KeyInv, [Next]_vars
    PROVE  KeyInv'
  <1>1. CASE Untouched
    BY <1>1 DEF Untouched, KeyInv, NoOpposites
  <1>2. CASE Main
    <2>1. ASSUME NEW h \in scenario.games, Refuse(h, load_nes_file(h)) PROVE Untouched
      BY <2>1 DEF Refuse, StartsAs, Dies, player, controller, Untouched
    <2>2. ASSUME NEW h \in scenario.games, Abort(h, load_nes_file(h)) PROVE Untouched
      BY <2>2 DEF Abort, StartsAs, Dies, player, controller, Untouched
    <2>3. ASSUME NEW h \in scenario.games, Start(h, load_nes_file(h)) PROVE KeyInv'
      <3>1. /\ keys' = {} /\ queue' = <<>> /\ state' = {} /\ contested' = {}
            /\ scenario' = scenario
        BY <2>3 DEF Start, StartsAs
      <3>2. \A b \in KeyNames : Reported(queue', keys', state', b)
        BY <3>1 DEF Reported
      <3>3. LeadsTo(state', queue', {}) /\ Settled({}, keys', contested')
        BY <3>1, NothingWaits DEF Settled
      <3>. QED
        BY <3>1, <3>2, <3>3 DEF KeyInv, NoOpposites
    <2>4. CASE PollEvent
      BY <2>4, PollKeeps
    <2>5. ASSUME RunFrame \/ OpenSave \/ WriteSave \/ NothingToSave
          PROVE  Untouched
      BY <2>5
         DEF RunFrame, OpenSave, WriteSave, NothingToSave, Ends, player, controller, Untouched
    <2>. QED
      BY <1>1, <1>2, <2>1, <2>2, <2>3, <2>4, <2>5, MainSteps
  <1>3. CASE Game
    BY <1>1, <1>3
       DEF Game, register_write, read_data, set_output, Emulated, GameWrites, player, controller,
           Untouched
  <1>4. CASE Player
    <2>1. ASSUME NEW key \in scenario.keys, KeyPressed(key) PROVE KeyInv'
      <3>1. key \in KeyNames
        BY ScenarioAssumption DEF KeyInv, KeyNames
      <3>. DEFINE e == [type |-> "pressed", key |-> key]
      <3>2. e \in Event /\ e.type = "pressed" /\ e.key = key
        BY <3>1 DEF Event
      <3>3. /\ Happens(e) /\ keys' = keys \cup {key} /\ keys' \subseteq KeyNames
            /\ contested' = IF Opposite(key) \cap keys = {} THEN contested \ {key}
                            ELSE contested \cup ({key} \ keys)
        BY <2>1, <3>1 DEF KeyPressed, KeyInv
      <3>. HIDE DEF e
      <3>. QED
        BY <3>2, <3>3, HappensKeeps
    <2>2. ASSUME NEW key \in scenario.keys, KeyReleased(key) PROVE KeyInv'
      <3>1. key \in KeyNames
        BY ScenarioAssumption DEF KeyInv, KeyNames
      <3>. DEFINE e == [type |-> "released", key |-> key]
      <3>2. e \in Event /\ e.type = "released" /\ e.key = key
        BY <3>1 DEF Event
      <3>3. /\ Happens(e) /\ keys' = keys \ {key} /\ keys' \subseteq KeyNames
            /\ contested' = contested \ {key}
        BY <2>2, <3>1 DEF KeyReleased, KeyInv
      <3>. HIDE DEF e
      <3>. QED
        BY <3>2, <3>3, HappensKeeps
    <2>3. CASE Closed
      <3>. DEFINE e == [type |-> "closed", key |-> ""]
      <3>1. e \in Event /\ e.type = "closed"
        BY DEF Event
      <3>2. Happens(e) /\ keys' = keys /\ contested' = contested /\ keys' \subseteq KeyNames
        BY <2>3 DEF Closed, KeyInv
      <3>. HIDE DEF e
      <3>. QED
        BY <3>1, <3>2, HappensKeeps
    <2>4. CASE Killed
      BY <1>1, <2>4 DEF Killed, Ends, player, controller, Untouched
    <2>. QED
      BY <1>4, <2>1, <2>2, <2>3, <2>4 DEF Player
  <1>5. CASE UNCHANGED vars
    BY <1>1, <1>5 DEF vars, player, controller, Untouched
  <1>. QED
    BY <1>2, <1>3, <1>4, <1>5 DEF Next

LEMMA KeysInit == Init => KeyInv
  <1>. SUFFICES ASSUME Init PROVE KeyInv
    OBVIOUS
  <1>1. /\ queue = <<>> /\ keys = {} /\ state = {} /\ contested = {}
        /\ scenario \in Scenarios
    BY DEF Init
  <1>2. \A b \in KeyNames : Reported(queue, keys, state, b)
    BY <1>1 DEF Reported
  <1>3. LeadsTo(state, queue, {}) /\ Settled({}, keys, contested)
    BY <1>1, NothingWaits DEF Settled
  <1>. QED
    BY <1>1, <1>2, <1>3 DEF KeyInv, NoOpposites

LEMMA KeysAlways == Spec => []KeyInv
  <1>1. KeyInv /\ [Next]_vars => KeyInv'
    BY KeysNext
  <1>. QED
    BY <1>1, KeysInit, PTL DEF Spec

(***************************************************************************)
(* What the game reads from the controller is what the player holds, as    *)
(* far as the window has reported it: main loses no release, mixes up no   *)
(* keys and never tells the game two opposite directions; it drops no key  *)
(* but one pressed against its opposite, and of two opposites it tells one *)
(* (however many events are waiting and however they are spread over       *)
(* frames).                                                                *)
(***************************************************************************)
THEOREM ButtonsAsHeld == Spec => []ButtonsFollowKeys
  <1>1. ASSUME KeyInv PROVE ButtonsFollowKeys
    <2>1. /\ queue \in Seq(Event) /\ keys \subseteq KeyNames /\ state \subseteq KeyNames
          /\ NoOpposites(state) /\ \A b \in KeyNames : Reported(queue, keys, state, b)
      BY <1>1 DEF KeyInv
    <2>2. ASSUME NEW b \in state \ keys
          PROVE  \E i \in 1..Len(queue) : queue[i] = [type |-> "released", key |-> b]
      <3>1. b \in KeyNames /\ Reported(queue, keys, state, b)
        BY <2>1
      <3>2. PICK i \in 1..Len(queue) : Latest(queue, b, i) /\ queue[i].type # "pressed"
        BY <2>2, <3>1 DEF Reported
      <3>3. queue[i] \in Event
        BY <2>1, <3>2
      <3>4. queue[i].type # "closed" /\ queue[i].key = b
        BY <3>2 DEF Latest, About
      <3>5. queue[i] = [type |-> "released", key |-> b]
        BY <3>2, <3>3, <3>4, EventFields
      <3>. QED
        BY <3>2, <3>5
    <2>3. ASSUME queue = <<>>, NEW b \in keys
          PROVE  /\ b \notin contested => b \in state
                 /\ Opposite(b) \cap keys # {} => ({b} \cup Opposite(b)) \cap state # {}
      <3>1. PICK final \in SUBSET KeyNames :
                LeadsTo(state, queue, final) /\ Settled(final, keys, contested)
        BY <1>1 DEF KeyInv
      <3>2. final = state
        BY <2>1, <2>3, <3>1, NothingWaits
      <3>. QED
        BY <2>3, <3>1, <3>2 DEF Settled
    <2>. QED
      BY <2>1, <2>2, <2>3 DEF ButtonsFollowKeys, NoOpposites
  <1>. QED
    BY <1>1, KeysAlways, PTL

-----------------------------------------------------------------------------
(* The controller: the reads follow the buttons one by one. *)
LEMMA PollNext ==
    ASSUME PollInv, [Next]_vars
    PROVE  PollInv'
  <1>. DEFINE Aside == UNCHANGED <<polled, m_strobe_on, m_button_to_output>>
  <1>1. ASSUME Aside PROVE PollInv'
    BY <1>1 DEF PollInv, PollsReadButtons
  <1>2. CASE Main
    <2>1. ASSUME NEW h \in scenario.games,
                 Refuse(h, load_nes_file(h)) \/ Abort(h, load_nes_file(h))
          PROVE  Aside
      BY <2>1 DEF Refuse, Abort, Dies, controller
    <2>2. ASSUME NEW h \in scenario.games, Start(h, load_nes_file(h)) PROVE PollInv'
      <3>1. /\ m_strobe_on' = TRUE /\ m_button_to_output' = 0
            /\ polled' = [nth |-> 0, bit |-> 0, state |-> {}]
        BY <2>2 DEF Start
      <3>. QED
        BY <3>1 DEF PollInv, PollsReadButtons
    <2>3. ASSUME PollEvent \/ RunFrame \/ OpenSave \/ WriteSave \/ NothingToSave
          PROVE  Aside
      BY <2>3
         DEF PollEvent, RunFrame, OpenSave, WriteSave, NothingToSave, Ends, controller
    <2>. HIDE DEF Aside
    <2>. QED
      BY <1>1, <1>2, <2>1, <2>2, <2>3, MainSteps
  <1>3. CASE Game
    <2>1. CASE register_write
      BY <1>1, <2>1 DEF register_write, controller
    <2>2. ASSUME NEW val, GameWrites(val) PROVE Aside
      BY <2>2 DEF GameWrites, controller
    <2>3. ASSUME NEW byte \in {0, 1, 2}, set_output(byte) PROVE PollInv'
      <3>1. CASE byte % 2 = 1
        <4>1. /\ m_strobe_on' = TRUE /\ m_button_to_output' = 0
              /\ polled' = [nth |-> 0, bit |-> 0, state |-> {}]
          BY <2>3, <3>1 DEF set_output, PositionAfter
        <4>. QED
          BY <4>1 DEF PollInv, PollsReadButtons
      <3>2. CASE byte % 2 # 1
        <4>1. m_strobe_on' = FALSE /\ UNCHANGED <<m_button_to_output, polled>>
          BY <2>3, <3>2 DEF set_output, PositionAfter
        <4>. QED
          BY <4>1 DEF PollInv, PollsReadButtons
      <3>. QED
        BY <3>1, <3>2
    <2>4. CASE read_data
      <3>1. CASE m_strobe_on
        BY <1>1, <2>4, <3>1 DEF read_data
      <3>2. CASE ~m_strobe_on
        <4>1. /\ polled.nth \in Nat /\ m_strobe_on \in BOOLEAN /\ m_strobe_on' = m_strobe_on
              /\ m_button_to_output = IF polled.nth > 8 THEN 8 ELSE polled.nth
          BY <2>4 DEF PollInv, read_data
        <4>2. /\ polled' = [nth |-> polled.nth + 1, state |-> state,
                            bit |-> IF m_button_to_output > 7 THEN 1
                                    ELSE BitOf(Buttons[m_button_to_output + 1])]
              /\ m_button_to_output' = IF m_button_to_output > 7 THEN m_button_to_output
                                       ELSE m_button_to_output + 1
          BY <2>4, <3>2 DEF read_data
        <4>3. CASE polled.nth >= 8
          <5>1. m_button_to_output = 8
            BY <4>1, <4>3
          <5>2. polled'.nth = polled.nth + 1 /\ polled'.bit = 1 /\ m_button_to_output' = 8
            BY <4>2, <5>1
          <5>3. polled'.nth \in Nat /\ polled'.nth > 8
            BY <4>1, <4>3, <5>2
          <5>. QED
            BY <3>2, <4>1, <5>2, <5>3 DEF PollInv, PollsReadButtons
        <4>4. CASE polled.nth < 8
          <5>1. m_button_to_output = polled.nth
            BY <4>1, <4>4
          <5>2. /\ polled'.nth = polled.nth + 1 /\ polled'.state = state
                /\ m_button_to_output' = polled.nth + 1
                /\ polled'.bit = BitOf(Buttons[polled.nth + 1])
            BY <4>1, <4>2, <4>4, <5>1
          <5>3. polled'.nth \in Nat /\ polled'.nth <= 8 /\ m_button_to_output' = polled'.nth
            BY <4>1, <4>4, <5>2
          <5>4. polled'.bit = IF Buttons[polled'.nth] \in polled'.state THEN 1 ELSE 0
            BY <5>2 DEF BitOf
          <5>. QED
            BY <3>2, <4>1, <5>3, <5>4 DEF PollInv, PollsReadButtons
        <4>. QED
          BY <4>1, <4>3, <4>4
      <3>. QED
        BY <3>1, <3>2
    <2>. HIDE DEF Aside
    <2>. QED
      BY <1>1, <1>3, <2>1, <2>2, <2>3, <2>4 DEF Game
  <1>4. CASE Player
    <2>1. Aside
      BY <1>4 DEF Player, KeyPressed, KeyReleased, Closed, Happens, Killed, Ends, controller
    <2>. QED
      BY <1>1, <2>1
  <1>5. CASE UNCHANGED vars
    BY <1>1, <1>5 DEF vars, controller
  <1>. QED
    BY <1>2, <1>3, <1>4, <1>5 DEF Next

LEMMA PollInit == Init => PollInv
  BY DEF Init, PollInv, PollsReadButtons

(***************************************************************************)
(* The answers of the controller come in the order a, b, select, start,    *)
(* up, down, left, right, one for each read of $4016 since the strobe went *)
(* off, and 1 for every later read: the position that read_data advances   *)
(* never gets out of step with the game, whatever is done in between.      *)
(***************************************************************************)
THEOREM ReadsInOrder == Spec => []PollsReadButtons
  <1>1. PollInv /\ [Next]_vars => PollInv'
    BY PollNext
  <1>2. PollInv => PollsReadButtons
    BY DEF PollInv
  <1>. QED
    BY <1>1, <1>2, PollInit, PTL DEF Spec

-----------------------------------------------------------------------------
(* What the loader makes of a header. *)
LEMMA LoadedCart ==
    ASSUME scenario \in Scenarios, NEW h \in scenario.games
    PROVE  /\ load_nes_file(h).title = h.title
           /\ load_nes_file(h).nvram_size \in Int /\ load_nes_file(h).prg_ram_size \in Int
           /\ \A g \in scenario.games : g.title = h.title => g = h
  <1>1. h.shift_prg_ram \in 0..15 /\ h.shift_nvram \in 0..15
    BY ScenarioAssumption
  <1>2. ASSUME NEW shift \in 0..15 PROVE RamSize(shift) \in Int
    <2>1. 2^shift \in Int
      BY <1>2
    <2>. QED
      BY <2>1 DEF RamSize
  <1>3. RamSize(h.shift_prg_ram) \in Int /\ RamSize(h.shift_nvram) \in Int
    BY <1>1, <1>2
  <1>4. /\ load_nes_file(h).title = h.title
        /\ load_nes_file(h).prg_ram_size = IF h.format = "nes2" THEN RamSize(h.shift_prg_ram)
                                           ELSE 8192
        /\ load_nes_file(h).nvram_size = IF h.format = "nes2" THEN RamSize(h.shift_nvram) ELSE 0
    BY DEF load_nes_file
  <1>5. \A g \in scenario.games : g.title = h.title => g = h
    BY ScenarioAssumption
  <1>. QED
    BY <1>3, <1>4, <1>5

(* The steps that concern neither the cartridge nor the disk. *)
Elsewhere ==
    /\ UNCHANGED <<scenario, cart_data, crt_ram, sav, saved, untouched>>
    /\ last' \in {last, "killed", "closed"}
    /\ \/ phase' = "off" /\ last' # "ram"
       \/ phase' = phase /\ last' = last
       \/ phase = "events" /\ phase' = "frame" /\ last' = last
       \/ phase = "frame" /\ phase' \in {"events", "closing"} /\ last' = last

LEMMA ElsewhereKeeps ==
    ASSUME SaveInv, Elsewhere
    PROVE  SaveInv'
  <1>1. FilesTyped'
    BY DEF SaveInv, Elsewhere, FilesTyped, Titles
  <1>2. CartLoaded'
    BY DEF SaveInv, Elsewhere, CartLoaded
  <1>3. SavedOnDisk'
    BY DEF SaveInv, Elsewhere, SavedOnDisk
  <1>4. SaveComesBack'
    BY DEF SaveInv, Elsewhere, SaveComesBack, Running
  <1>. QED
    BY <1>1, <1>2, <1>3, <1>4 DEF SaveInv

LEMMA AbortKeeps ==
    ASSUME SaveInv, NEW h \in scenario.games,
           Refuse(h, load_nes_file(h)) \/ Abort(h, load_nes_file(h))
    PROVE  SaveInv'
  <1>1. /\ UNCHANGED <<scenario, sav, saved, crt_ram>> /\ phase' = "off"
        /\ last' \in {"refused", "rom", "zero", "ram"}
        /\ last' # "refused" => cart_data' = load_nes_file(h)
        /\ last' = "ram" => Mismatch(load_nes_file(h))
    BY DEF Refuse, Abort, StartsAs, Dies, files
  <1>2. FilesTyped'
    BY <1>1 DEF SaveInv, FilesTyped, Titles
  <1>3. CartLoaded'
    BY <1>1 DEF CartLoaded
  <1>4. SavedOnDisk'
    BY <1>1 DEF SaveInv, SavedOnDisk
  <1>5. SaveComesBack'
    <2>1. ASSUME last' = "ram" PROVE ~SavesAll(cart_data')
      <3>. DEFINE c == load_nes_file(h)
      <3>1. c.nvram_size \in Int /\ c.prg_ram_size \in Int
        BY LoadedCart DEF SaveInv, FilesTyped
      <3>2. c.nvram_size # CrtRamSize(c) /\ c.mapper = 1
        BY <1>1, <2>1 DEF Mismatch
      <3>. HIDE DEF c
      <3>3. c.nvram_size < c.prg_ram_size
        BY <3>1, <3>2 DEF CrtRamSize
      <3>. QED
        BY <1>1, <2>1, <3>1, <3>3 DEF c, SavesAll
    <2>. QED
      BY <1>1, <2>1 DEF SaveComesBack, Running
  <1>. QED
    BY <1>2, <1>3, <1>4, <1>5 DEF SaveInv

LEMMA StartKeeps ==
    ASSUME SaveInv, NEW h \in scenario.games, Start(h, load_nes_file(h))
    PROVE  SaveInv'
  <1>. DEFINE c == load_nes_file(h)
  <1>1. /\ UNCHANGED <<scenario, sav, saved>> /\ phase' = "events" /\ last' = "running"
        /\ cart_data' = c /\ crt_ram' = load_battery(c)
    BY DEF Start, StartsAs, files
  <1>2. /\ c.title = h.title /\ c.nvram_size \in Int
        /\ h.title \in Titles
        /\ sav \in [Titles -> [size : Int, value : RamValues \cup {0}]]
    BY LoadedCart DEF SaveInv, FilesTyped, Titles
  <1>. HIDE DEF c
  <1>3. sav[c.title].value \in RamValues \cup {0} /\ sav[c.title].size \in Int
    BY <1>2
  <1>4. FilesTyped'
    <2>1. crt_ram' \in RamValues \cup {0}
      BY <1>1, <1>3 DEF load_battery
    <2>. QED
      BY <1>1, <2>1 DEF SaveInv, FilesTyped, Titles
  <1>5. CartLoaded'
    BY <1>1 DEF CartLoaded, c
  <1>6. SavedOnDisk'
    BY <1>1 DEF SaveInv, SavedOnDisk
  <1>7. ASSUME c.battery_saved_ram, CrtRamSize(c) > 0, saved[c.title] # Unknown
        PROVE  crt_ram' = saved[c.title]
    <2>1. sav[c.title] = [size |-> c.nvram_size, value |-> saved[c.title]]
      BY <1>2, <1>7 DEF SaveInv, SavedOnDisk, c
    <2>2. sav[c.title].size = c.nvram_size /\ sav[c.title].value = saved[c.title]
      BY <2>1
    <2>3. Readable(c)
      BY <1>2, <1>7, <2>2 DEF Readable
    <2>4. c.mapper = 1
      BY <1>7 DEF CrtRamSize
    <2>. QED
      BY <1>1, <2>2, <2>3, <2>4 DEF load_battery
  <1>8. SaveComesBack'
    BY <1>1, <1>7 DEF SaveComesBack
  <1>. QED
    BY <1>4, <1>5, <1>6, <1>8 DEF SaveInv

(* Opening a .sav file for writing, and writing it to its end. *)
LEMMA OpenKeeps ==
    ASSUME SaveInv, OpenSave
    PROVE  SaveInv'
  <1>1. /\ UNCHANGED <<scenario, last, cart_data, crt_ram, untouched>>
        /\ phase = "closing" /\ phase' = "saving"
        /\ sav' = [sav EXCEPT ![cart_data.title] = [size |-> 0, value |-> 0]]
        /\ saved' = [saved EXCEPT ![cart_data.title] = Unknown]
    BY DEF OpenSave, cartridge
  <1>2. /\ sav \in [Titles -> [size : Int, value : RamValues \cup {0}]]
        /\ saved \in [Titles -> RamValues \cup {0, Unknown}]
    BY DEF SaveInv, FilesTyped
  <1>3. FilesTyped'
    <2>1. [size |-> 0, value |-> 0] \in [size : Int, value : RamValues \cup {0}]
      OBVIOUS
    <2>2. sav' \in [Titles -> [size : Int, value : RamValues \cup {0}]]
      BY <1>1, <1>2, <2>1
    <2>3. saved' \in [Titles -> RamValues \cup {0, Unknown}]
      BY <1>1, <1>2
    <2>. QED
      BY <1>1, <2>2, <2>3 DEF SaveInv, FilesTyped, Titles
  <1>4. CartLoaded'
    BY <1>1 DEF SaveInv, CartLoaded
  <1>5. SavedOnDisk'
    <2>1. ASSUME NEW h \in scenario.games, saved'[h.title] # Unknown
          PROVE  sav'[h.title] = [size |-> load_nes_file(h).nvram_size,
                                  value |-> saved'[h.title]]
      <3>1. h.title \in Titles
        BY DEF Titles
      <3>2. h.title # cart_data.title
        BY <1>1, <1>2, <2>1, <3>1
      <3>3. saved'[h.title] = saved[h.title] /\ sav'[h.title] = sav[h.title]
        BY <1>1, <1>2, <3>1, <3>2
      <3>. QED
        BY <2>1, <3>3 DEF SaveInv, SavedOnDisk
    <2>. QED
      BY <1>1, <2>1 DEF SavedOnDisk
  <1>6. SaveComesBack'
    BY <1>1 DEF SaveInv, SaveComesBack, Running
  <1>. QED
    BY <1>3, <1>4, <1>5, <1>6 DEF SaveInv

LEMMA WriteKeeps ==
    ASSUME SaveInv, WriteSave
    PROVE  SaveInv'
  <1>1. /\ UNCHANGED <<scenario, cart_data, crt_ram, untouched>>
        /\ phase = "saving" /\ phase' = "off" /\ last' \in {"closed", "killed"}
        /\ \/ UNCHANGED <<sav, saved>>
           \/ /\ saved' = [saved EXCEPT ![cart_data.title] = crt_ram]
              /\ sav' = [sav EXCEPT ![cart_data.title] =
                            [size |-> cart_data.nvram_size, value |-> crt_ram]]
    BY DEF WriteSave, WriteAll, Ends, cartridge, files
  <1>2. /\ sav \in [Titles -> [size : Int, value : RamValues \cup {0}]]
        /\ saved \in [Titles -> RamValues \cup {0, Unknown}]
        /\ crt_ram \in RamValues \cup {0} /\ scenario \in Scenarios
    BY DEF SaveInv, FilesTyped
  <1>3. PICK g \in scenario.games : cart_data = load_nes_file(g)
    BY <1>1 DEF SaveInv, CartLoaded
  <1>4. /\ cart_data.title = g.title /\ cart_data.nvram_size \in Int
        /\ \A h \in scenario.games : h.title = g.title => h = g
        /\ g.title \in Titles
    BY <1>2, <1>3, LoadedCart DEF Titles
  <1>5. CASE UNCHANGED <<sav, saved>>
    BY <1>1, <1>5, ElsewhereKeeps DEF Elsewhere
  <1>6. CASE /\ saved' = [saved EXCEPT ![cart_data.title] = crt_ram]
             /\ sav' = [sav EXCEPT ![cart_data.title] =
                           [size |-> cart_data.nvram_size, value |-> crt_ram]]
    <2>1. FilesTyped'
      <3>1. [size |-> cart_data.nvram_size, value |-> crt_ram]
              \in [size : Int, value : RamValues \cup {0}]
        BY <1>2, <1>4
      <3>2. sav' \in [Titles -> [size : Int, value : RamValues \cup {0}]]
        BY <1>2, <1>6, <3>1
      <3>3. saved' \in [Titles -> RamValues \cup {0, Unknown}]
        BY <1>2, <1>6
      <3>. QED
        BY <1>1, <3>2, <3>3 DEF SaveInv, FilesTyped, Titles
    <2>2. CartLoaded'
      BY <1>1 DEF CartLoaded
    <2>3. SavedOnDisk'
      <3>1. ASSUME NEW h \in scenario.games, saved'[h.title] # Unknown
            PROVE  sav'[h.title] = [size |-> load_nes_file(h).nvram_size,
                                    value |-> saved'[h.title]]
        <4>1. h.title \in Titles
          BY DEF Titles
        <4>2. CASE h = g
          BY <1>2, <1>3, <1>4, <1>6, <4>2
        <4>3. CASE h # g
          <5>1. h.title # cart_data.title
            BY <1>4, <4>3
          <5>2. saved'[h.title] = saved[h.title] /\ sav'[h.title] = sav[h.title]
            BY <1>2, <1>6, <4>1, <5>1
          <5>. QED
            BY <3>1, <5>2 DEF SaveInv, SavedOnDisk
        <4>. QED
          BY <4>2, <4>3
      <3>. QED
        BY <1>1, <3>1 DEF SavedOnDisk
    <2>4. SaveComesBack'
      BY <1>1 DEF SaveComesBack, Running
    <2>. QED
      BY <2>1, <2>2, <2>3, <2>4 DEF SaveInv
  <1>. QED
    BY <1>1, <1>5, <1>6

LEMMA GameKeeps ==
    ASSUME SaveInv, Game
    PROVE  SaveInv'
  <1>1. ASSUME NEW val \in RamValues, GameWrites(val) PROVE SaveInv'
    <2>1. /\ UNCHANGED <<scenario, phase, last, cart_data, sav, saved>>
          /\ crt_ram' = val /\ untouched' = FALSE
      BY <1>1 DEF GameWrites, cartridge, files
    <2>2. FilesTyped' /\ CartLoaded' /\ SavedOnDisk'
      BY <2>1 DEF SaveInv, FilesTyped, Titles, CartLoaded, SavedOnDisk
    <2>3. SaveComesBack'
      BY <2>1 DEF SaveInv, SaveComesBack
    <2>. QED
      BY <2>2, <2>3 DEF SaveInv
  <1>2. CASE register_write
    BY <1>2, ElsewhereKeeps DEF register_write, files, Elsewhere
  <1>3. ASSUME read_data \/ \E byte \in {0, 1, 2} : set_output(byte) PROVE SaveInv'
    <2>1. Elsewhere
      BY <1>3 DEF read_data, set_output, Emulated, cartridge, files, Elsewhere
    <2>. QED
      BY <2>1, ElsewhereKeeps
  <1>. QED
    BY <1>1, <1>2, <1>3 DEF Game

LEMMA SaveNext ==
    ASSUME SaveInv, [Next]_vars
    PROVE  SaveInv'
  <1>1. CASE Main
    <2>1. ASSUME PollEvent \/ RunFrame \/ NothingToSave PROVE SaveInv'
      <3>1. CASE PollEvent
        BY <3>1, ElsewhereKeeps DEF PollEvent, cartridge, files, Elsewhere
      <3>2. CASE RunFrame
        BY <3>2, ElsewhereKeeps DEF RunFrame, cartridge, files, Elsewhere
      <3>3. CASE NothingToSave
        BY <3>3, ElsewhereKeeps DEF NothingToSave, Ends, cartridge, files, Elsewhere
      <3>. QED
        BY <2>1, <3>1, <3>2, <3>3
    <2>. QED
      BY <1>1, <2>1, MainSteps, AbortKeeps, StartKeeps, OpenKeeps, WriteKeeps
  <1>2. CASE Game
    BY <1>2, GameKeeps
  <1>3. CASE Player
    <2>1. Elsewhere
      BY <1>3
         DEF Player, KeyPressed, KeyReleased, Closed, Happens, Killed, Ends, cartridge, files,
             Elsewhere
    <2>. QED
      BY <2>1, ElsewhereKeeps
  <1>4. CASE UNCHANGED vars
    BY <1>4, ElsewhereKeeps DEF vars, cartridge, files, Elsewhere
  <1>. QED
    BY <1>1, <1>2, <1>3, <1>4 DEF Next

LEMMA SaveInit == Init => SaveInv
  <1>. SUFFICES ASSUME Init PROVE SaveInv
    OBVIOUS
  <1>1. /\ scenario \in Scenarios /\ phase = "off" /\ last = "none" /\ crt_ram = 0
        /\ sav = [t \in Titles |-> Absent] /\ saved = [t \in Titles |-> Unknown]
    BY DEF Init, Titles
  <1>2. FilesTyped
    <2>1. Absent \in [size : Int, value : RamValues \cup {0}]
      BY DEF Absent
    <2>. QED
      BY <1>1, <2>1 DEF FilesTyped
  <1>3. CartLoaded /\ SaveComesBack
    BY <1>1 DEF CartLoaded, SaveComesBack, Running
  <1>4. SavedOnDisk
    BY <1>1 DEF SavedOnDisk, Titles
  <1>. QED
    BY <1>2, <1>3, <1>4 DEF SaveInv

LEMMA SaveAlways == Spec => []SaveInv
  <1>1. SaveInv /\ [Next]_vars => SaveInv'
    BY SaveNext
  <1>. QED
    BY <1>1, SaveInit, PTL DEF Spec

(***************************************************************************)
(* The battery keeps what it was given: a game whose save ran to its end   *)
(* starts again with that RAM, whichever games were played, killed or      *)
(* refused in between and however often; and a cartridge that saves all    *)
(* the RAM it has is always let start, whatever is in its file.  (One that *)
(* has more than it saves is stopped by load_battery_ram's assertion.)     *)
(***************************************************************************)
THEOREM BatteryRemembers == Spec => []SaveComesBack
  <1>1. SaveInv => SaveComesBack
    BY DEF SaveInv
  <1>. QED
    BY <1>1, SaveAlways, PTL

-----------------------------------------------------------------------------
(***************************************************************************)
(* The cartridges with the memories their mappers expect: one or two banks *)
(* of program, which is what the 32 KB array of NROM and CNROM holds, and  *)
(* at least one bank of every memory that is switched.  The loader does    *)
(* not see to it.                                                          *)
(***************************************************************************)
BanksThere ==
    \A s \in Scenarios : \A h \in s.games :
        LET cart == load_nes_file(h) IN
        /\ cart.mapper \in {0, 3} => PrgBanks(cart) \in {1, 2}
        /\ cart.mapper = 2 => PrgBanks(cart) \in Nat \ {0}
        /\ cart.mapper = 3 => ChrBanks(cart) \in Nat \ {0}

BankInv ==
    /\ window \in [lo : Int, hi : Int, chr : Int, conflicts : BOOLEAN]
    /\ WindowsInside

LEMMA SetBankInside ==
    ASSUME NEW bank \in Nat, NEW count \in Nat \ {0}
    PROVE  set_bank(bank, count) \in 0..(count - 1)
  BY DEF set_bank

LEMMA SeenIsByte ==
    ASSUME NEW val \in Nat, NEW under \in Nat
    PROVE  Seen(val, under) \in Nat
  <1>. DEFINE both(i) == IF (val \div 2^i) % 2 = 1 /\ (under \div 2^i) % 2 = 1 THEN 2^i ELSE 0
  <1>1. both(0) \in Nat /\ both(1) \in Nat /\ both(2) \in Nat /\ both(3) \in Nat
    <2>1. 2^0 = 1 /\ 2^1 = 2 /\ 2^2 = 4 /\ 2^3 = 8
      OBVIOUS
    <2>. QED
      BY <2>1
  <1>2. Seen(val, under) = val \/ Seen(val, under) = both(0) + both(1) + both(2) + both(3)
    BY DEF Seen
  <1>. HIDE DEF both
  <1>. QED
    BY <1>1, <1>2

LEMMA StartOpensWindows ==
    ASSUME BanksThere, SaveInv, NEW h \in scenario.games, Start(h, load_nes_file(h))
    PROVE  BankInv'
  <1>. DEFINE c == load_nes_file(h)
  <1>1. /\ c.mapper \in 0..3 /\ cart_data' = c
        /\ window' = CASE c.mapper = 0 -> NromInit(c) [] c.mapper = 2 -> UxromInit(c)
                       [] c.mapper = 3 -> CnromInit(c) [] OTHER -> NoWindow
    BY DEF Start, MapperInit
  <1>2. /\ c.mapper \in {0, 3} => PrgBanks(c) \in {1, 2}
        /\ c.mapper = 2 => PrgBanks(c) \in Nat \ {0}
        /\ c.mapper = 3 => ChrBanks(c) \in Nat \ {0}
    BY DEF BanksThere, SaveInv, FilesTyped
  <1>. HIDE DEF c
  <1>3. c.mapper \in {0, 3} => set_bank(1, PrgBanks(c)) = PrgBanks(c) - 1
    BY <1>2 DEF set_bank
  <1>4. ASSUME PrgBanks(c) \in Nat \ {0}, c.mapper # 1,
               c.mapper = 3 => ChrBanks(c) \in Nat \ {0},
               window' \in [lo : Int, hi : Int, chr : Int, conflicts : BOOLEAN],
               window'.lo = 0, window'.hi = PrgBanks(c) - 1, window'.chr = 0
        PROVE  BankInv'
    <2>1. /\ window'.lo = 0 /\ window'.hi = PrgBanks(c) - 1 /\ window'.chr = 0
          /\ window' \in [lo : Int, hi : Int, chr : Int, conflicts : BOOLEAN]
      BY <1>4
    <2>2. /\ window'.lo \in 0..(PrgBanks(cart_data') - 1)
          /\ window'.hi = PrgBanks(cart_data') - 1
      BY <1>1, <1>4, <2>1
    <2>3. c.mapper = 3 => window'.chr \in 0..(ChrBanks(cart_data') - 1)
      BY <1>1, <1>4, <2>1
    <2>. QED
      BY <1>1, <2>1, <2>2, <2>3 DEF BankInv, WindowsInside
  <1>5. CASE c.mapper = 0
    <2>1. window' = NromInit(c)
      BY <1>1, <1>5
    <2>2. PrgBanks(c) \in Nat \ {0}
      BY <1>2, <1>5
    <2>3. /\ window' \in [lo : Int, hi : Int, chr : Int, conflicts : BOOLEAN]
          /\ window'.lo = 0 /\ window'.hi = PrgBanks(c) - 1 /\ window'.chr = 0
      BY <1>3, <1>5, <2>1, <2>2 DEF NromInit
    <2>. QED
      BY <1>4, <1>5, <2>2, <2>3
  <1>6. CASE c.mapper = 2
    <2>1. window' = UxromInit(c)
      BY <1>1, <1>6
    <2>2. PrgBanks(c) \in Nat \ {0}
      BY <1>2, <1>6
    <2>3. set_bank(PrgBanks(c) - 1, PrgBanks(c)) = PrgBanks(c) - 1
      <3>. DEFINE n == PrgBanks(c)
      <3>1. n \in Nat \ {0}
        BY <2>2
      <3>. HIDE DEF n
      <3>2. (n - 1) % n = n - 1
        BY <3>1
      <3>. QED
        BY <3>2 DEF n, set_bank
    <2>4. /\ window' \in [lo : Int, hi : Int, chr : Int, conflicts : BOOLEAN]
          /\ window'.lo = 0 /\ window'.hi = PrgBanks(c) - 1 /\ window'.chr = 0
      BY <2>1, <2>2, <2>3 DEF UxromInit
    <2>. QED
      BY <1>4, <1>6, <2>2, <2>4
  <1>7. CASE c.mapper = 3
    <2>1. window' = CnromInit(c)
      BY <1>1, <1>7
    <2>2. PrgBanks(c) \in Nat \ {0} /\ ChrBanks(c) \in Nat \ {0}
      BY <1>2, <1>7
    <2>3. CnromInit(c) = [lo |-> 0, hi |-> PrgBanks(c) - 1, chr |-> 0,
                          conflicts |-> c.submapper # 1]
      BY <1>3, <1>7 DEF CnromInit, NromInit
    <2>4. /\ window' \in [lo : Int, hi : Int, chr : Int, conflicts : BOOLEAN]
          /\ window'.lo = 0 /\ window'.hi = PrgBanks(c) - 1 /\ window'.chr = 0
      BY <2>1, <2>2, <2>3
    <2>. QED
      BY <1>4, <1>7, <2>2, <2>4
  <1>8. CASE c.mapper = 1
    <2>1. window' = NoWindow
      BY <1>1, <1>8
    <2>. QED
      BY <1>1, <1>8, <2>1 DEF BankInv, WindowsInside, NoWindow
  <1>. QED
    BY <1>1, <1>5, <1>6, <1>7, <1>8

LEMMA RegisterKeepsWindows ==
    ASSUME BanksThere, SaveInv, BankInv, register_write
    PROVE  BankInv'
  <1>1. /\ phase = "frame" /\ phase' = "frame" /\ cart_data' = cart_data
        /\ window \in [lo : Int, hi : Int, chr : Int, conflicts : BOOLEAN]
    BY DEF register_write, BankInv
  <1>2. PICK h \in scenario.games : cart_data = load_nes_file(h)
    BY <1>1 DEF SaveInv, CartLoaded
  <1>3. /\ cart_data.mapper = 2 => PrgBanks(cart_data) \in Nat \ {0}
        /\ cart_data.mapper = 3 => ChrBanks(cart_data) \in Nat \ {0}
    BY <1>2 DEF BanksThere, SaveInv, FilesTyped
  <1>4. PICK v \in Nat : UxromWrite(v) \/ CnromWrite(v)
    <2>1. PICK val, under \in Stores :
              UxromWrite(Seen(val, under)) \/ CnromWrite(Seen(val, under))
      BY DEF register_write
    <2>2. val \in Nat /\ under \in Nat
      BY ConsoleAssumption
    <2>. QED
      BY <2>1, <2>2, SeenIsByte
  <1>5. CASE UxromWrite(v)
    <2>1. set_bank(v % 16, PrgBanks(cart_data)) \in 0..(PrgBanks(cart_data) - 1)
      <3>1. v % 16 \in Nat
        OBVIOUS
      <3>. QED
        BY <1>3, <1>5, <3>1, SetBankInside DEF UxromWrite
    <2>2. /\ cart_data.mapper = 2
          /\ window' = [window EXCEPT !.lo = set_bank(v % 16, PrgBanks(cart_data))]
      BY <1>5 DEF UxromWrite
    <2>3. /\ window' \in [lo : Int, hi : Int, chr : Int, conflicts : BOOLEAN]
          /\ window'.lo \in 0..(PrgBanks(cart_data) - 1) /\ window'.hi = window.hi
      BY <1>1, <1>3, <2>1, <2>2
    <2>. QED
      BY <1>1, <2>2, <2>3 DEF BankInv, WindowsInside, Running
  <1>6. CASE CnromWrite(v)
    <2>1. set_bank(v % 4, ChrBanks(cart_data)) \in 0..(ChrBanks(cart_data) - 1)
      <3>1. v % 4 \in Nat
        OBVIOUS
      <3>. QED
        BY <1>3, <1>6, <3>1, SetBankInside DEF CnromWrite
    <2>2. /\ cart_data.mapper = 3
          /\ window' = [window EXCEPT !.chr = set_bank(v % 4, ChrBanks(cart_data))]
      BY <1>6 DEF CnromWrite
    <2>3. /\ window' \in [lo : Int, hi : Int, chr : Int, conflicts : BOOLEAN]
          /\ window'.chr \in 0..(ChrBanks(cart_data) - 1)
          /\ window'.lo = window.lo /\ window'.hi = window.hi
      BY <1>1, <1>3, <2>1, <2>2
    <2>. QED
      BY <1>1, <2>2, <2>3 DEF BankInv, WindowsInside, Running
  <1>. QED
    BY <1>4, <1>5, <1>6

LEMMA BanksNext ==
    ASSUME BanksThere, SaveInv, BankInv, [Next]_vars
    PROVE  BankInv'
  <1>. DEFINE Aside ==
         /\ window' = window
         /\ Running' => Running /\ cart_data' = cart_data
  <1>1. ASSUME Aside PROVE BankInv'
    BY <1>1 DEF BankInv, WindowsInside
  <1>2. CASE Main
    <2>1. ASSUME NEW h \in scenario.games,
                 Refuse(h, load_nes_file(h)) \/ Abort(h, load_nes_file(h))
          PROVE  Aside
      BY <2>1 DEF Refuse, Abort, Dies, Running
    <2>2. ASSUME PollEvent \/ RunFrame \/ OpenSave \/ WriteSave \/ NothingToSave
          PROVE  Aside
      BY <2>2
         DEF PollEvent, RunFrame, OpenSave, WriteSave, NothingToSave, Ends, cartridge, Running
    <2>. HIDE DEF Aside
    <2>. QED
      BY <1>1, <1>2, <2>1, <2>2, MainSteps, StartOpensWindows
  <1>3. CASE Game
    <2>1. ASSUME ~register_write PROVE Aside
      BY <1>3, <2>1
         DEF Game, read_data, set_output, Emulated, GameWrites, cartridge, Running
    <2>. QED
      BY <1>1, <2>1, RegisterKeepsWindows
  <1>4. CASE Player
    <2>1. Aside
      BY <1>4
         DEF Player, KeyPressed, KeyReleased, Closed, Happens, Killed, Ends, cartridge, Running
    <2>. QED
      BY <1>1, <2>1
  <1>5. CASE UNCHANGED vars
    BY <1>1, <1>5 DEF vars, cartridge, Running
  <1>. QED
    BY <1>2, <1>3, <1>4, <1>5 DEF Next

(***************************************************************************)
(* The windows of NROM, UxROM and CNROM show banks the cartridge has, the  *)
(* upper one always the last, which holds the vectors, and the controller  *)
(* never reads past its eight buttons, whatever the game stores where; for *)
(* cartridges with the memories their mapper expects.                      *)
(***************************************************************************)
THEOREM BanksStayInside ==
    ASSUME BanksThere
    PROVE  Spec => []TypeOK
  <1>1. Init => BankInv
    BY DEF Init, BankInv, NoWindow, WindowsInside, Running
  <1>2. SaveInv /\ BankInv /\ [Next]_vars => BankInv'
    BY BanksNext
  <1>3. Spec => []BankInv
    BY <1>1, <1>2, SaveAlways, PTL DEF Spec
  <1>4. Spec => []PollInv
    <2>1. PollInv /\ [Next]_vars => PollInv'
      BY PollNext
    <2>. QED
      BY <2>1, PollInit, PTL DEF Spec
  <1>5. SaveInv /\ KeyInv /\ PollInv /\ BankInv => TypeOK
    <2>. SUFFICES ASSUME SaveInv, KeyInv, PollInv, BankInv PROVE TypeOK
      OBVIOUS
    <2>1. m_button_to_output \in 0..8
      BY DEF PollInv
    <2>. QED
      BY <2>1 DEF SaveInv, FilesTyped, KeyInv, KeyNames, BankInv, TypeOK
  <1>. QED
    BY <1>3, <1>4, <1>5, SaveAlways, KeysAlways, PTL

=============================================================================
