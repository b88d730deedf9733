---------------------------- MODULE ReceiverSlots ----------------------------
(***************************************************************************)
(* Which receiver the dashboard page shows as A, B, C and D.  The node     *)
(* cards (four-node-dashboard-core.js) and the room map (room-d3.js) each  *)
(* allocate slots from the snapshots they see, the training request and    *)
(* the map's geometry layer (dashboard-stream.js) from the last snapshot.  *)
(* A surface first draws a snapshot it fetched and then those of the       *)
(* stream, and may miss any.                                               *)
(***************************************************************************)
EXTENDS Sequences, Ranks

CONSTANTS
  Receiver,    \* the receivers' ids, in the order of localeCompare: 1..n
  Slots,       \* how many slots a surface draws
  SlotIdLists  \* what slotDeviceIds can be; <<>>: slots in order of appearance

ASSUME SlotsAssumption ==
  /\ Slots \in Nat \ {0}
  /\ IsFiniteSet(Receiver) /\ Receiver = 1..Cardinality(Receiver)
  /\ \A ids \in SlotIdLists :
       ids \in Seq(Receiver) /\ \A i, j \in DOMAIN ids : ids[i] = ids[j] => i = j

VARIABLES
  slotIds,  \* the server's slotDeviceIds
  latest,   \* the receivers in the snapshot published last
  taken,    \* per surface, the snapshot it drew last
  given,    \* per surface, slotAssignments: the slot a receiver was given
  card,     \* per surface, the receiver drawn in each slot
  mapping   \* sourceMappings of the last training request

slotVars == <<slotIds, latest, taken, given, card, mapping>>

Surface == {"cards", "map"}
Slot == 1..Slots
Unset == 0
Nothing == [n \in Slot |-> Unset]

\* The i-th of a set of numbers, if there are that many.
NthOr(set, i) == IF i <= Cardinality(set) THEN Nth(set, i) ELSE Unset

SlotsInit ==
  /\ slotIds \in SlotIdLists
  /\ latest = {}
  /\ taken = [s \in Surface |-> {}]
  /\ given = [s \in Surface |-> [d \in Receiver |-> Unset]]
  /\ card = [s \in Surface |-> Nothing]
  /\ mapping = Nothing

\* publish and snapshotPayload: receivers are only ever added to the engine,
\* which sorts them by id; a server that starts again has forgotten them.
PublishNodes ==
  /\ latest' \in SUBSET Receiver
  /\ latest \subseteq latest' \/ latest' = {}
  /\ UNCHANGED <<slotIds, taken, given, card, mapping>>

-----------------------------------------------------------------------------
\* The slots of a surface, of which receivers new to it take the free ones.
Assign(g, known) ==
  LET fresh == {d \in known : g[d] = Unset}
      free  == {n \in Slot : \A d \in Receiver : g[d] # n}
  IN  [d \in Receiver |-> IF d \in fresh
                            THEN NthOr(free, Rank(fresh, d))
                            ELSE g[d]]

\* Mutant: the n-th receiver of the snapshot is drawn in the n-th slot.
AllocateByPosition(s, known) ==
  /\ card' = [card EXCEPT ![s] = [n \in Slot |-> NthOr(known, n)]]
  /\ UNCHANGED given

\* allocateSlots of the cards, assignSlots of the map: explicit ids win, else
\* a receiver keeps the first slot it was given.
Allocate(s, known) ==
  IF slotIds # <<>>
    THEN /\ card' = [card EXCEPT ![s] = [n \in Slot |->
                      IF n <= Len(slotIds) /\ slotIds[n] \in known THEN slotIds[n] ELSE Unset]]
         /\ UNCHANGED given
    ELSE LET g == Assign(given[s], known)
         IN  /\ given' = [given EXCEPT ![s] = g]
             /\ card' = [card EXCEPT ![s] = [n \in Slot |->
                  IF \E d \in known : g[d] = n THEN CHOOSE d \in known : g[d] = n ELSE Unset]]

\* A snapshot reaches the surface, fetched or from the stream.
Draw(s) ==
  /\ taken' = [taken EXCEPT ![s] = latest] /\ Allocate(s, latest)
  /\ UNCHANGED <<slotIds, latest, mapping>>

\* receiverMappings of the stream, sourceMappings of the position form.
MappingOf(known) ==
  [n \in Slot |-> IF n <= Len(slotIds) THEN slotIds[n] ELSE NthOr(known, n)]

\* A training request names the receivers of the snapshot received last.
RequestTraining ==
  /\ mapping' = MappingOf(taken["cards"])
  /\ UNCHANGED <<slotIds, latest, taken, given, card>>

\* renderReceiverGeometry takes the n-th receiver of the snapshot for slot n.
GeometryNode(n) == NthOr(taken["cards"], n)

SlotsNext == PublishNodes \/ RequestTraining \/ \E s \in Surface : Draw(s)

SlotsSpec == SlotsInit /\ [][SlotsNext]_slotVars

-----------------------------------------------------------------------------
(* The inductive invariant.                                                *)

SlotsTypeOK ==
  /\ slotIds \in SlotIdLists /\ latest \subseteq Receiver
  /\ taken \in [Surface -> SUBSET Receiver]
  /\ given \in [Surface -> [Receiver -> Slot \cup {Unset}]]
  /\ card \in [Surface -> [Slot -> Receiver \cup {Unset}]]
  /\ mapping \in [Slot -> Receiver \cup {Unset}]

\* No slot of a surface was given to two receivers.
GivenOnce ==
  \A s \in Surface, d, e \in Receiver :
    given[s][d] # Unset /\ given[s][d] = given[s][e] => d = e

\* A receiver is drawn in the slot it was given, or in that of its explicit id.
CardIsGiven ==
  \A s \in Surface, n \in Slot :
    card[s][n] # Unset =>
      IF slotIds = <<>> THEN given[s][card[s][n]] = n
      ELSE n <= Len(slotIds) /\ card[s][n] = slotIds[n]

\* A receiver trained in a slot with an explicit id is that id's.
MappingIsOwn ==
  \A n \in Slot : n <= Len(slotIds) => mapping[n] \in {slotIds[n], Unset}

SlotsIInv == SlotsTypeOK /\ GivenOnce /\ CardIsGiven /\ MappingIsOwn

-----------------------------------------------------------------------------
(* Properties.                                                             *)

\* A receiver never moves to another slot of the surface it is drawn on, and
\* no other receiver takes its slot, while receivers appear in any order,
\* disappear with the server and come back (allocateSlots, assignSlots).
CardKeepsReceiver ==
  [][\A s \in Surface, n \in Slot :
       card[s][n] # Unset =>
         /\ card'[s][n] \in {card[s][n], Unset}
         /\ \A m \in Slot \ {n} : card'[s][m] # card[s][n]]_slotVars

\* With slotDeviceIds, the cards, the map and the training request mean the
\* same receiver by a letter, whatever snapshots each of them saw.
SlotsAgree ==
  \A n \in DOMAIN slotIds \cap Slot :
    {card["cards"][n], card["map"][n], mapping[n]} \subseteq {slotIds[n], Unset}

\* What the map's geometry layer says of receiver A ("Receiver A: ready") is of
\* the receiver on card A (renderReceiverGeometry, renderNodeGrid).
GeometryTellsTruth ==
  \A n \in DOMAIN slotIds \cap Slot : GeometryNode(n) = card["cards"][n]
=============================================================================
