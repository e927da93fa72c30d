--------------------------- MODULE DrawStoreProofs ---------------------------
(***************************************************************************)
(* Proofs about DrawStore, for every set of names, contents and payloads:  *)
(* its type invariant, that a hidden overlay shows nothing, and that the   *)
(* network thread loses no item.  And, for plugins that behave as assumed  *)
(* where the theorem is stated: a flag already_rendered that is true, a    *)
(* window that shows the items of the map and no others, no picture under  *)
(* two names, and the last toggle as the one that is executed.             *)
(***************************************************************************)
EXTENDS DrawStore, TLAPS, WellFoundedInduction, SequenceTheorems

-----------------------------------------------------------------------------
(* Facts about keys, items and maps.                                       *)

\* The next element of a std::map exists when there is one further on.
LEMMA LeastInSet ==
    ASSUME NEW S, S \subseteq Nat, S # {}
    PROVE  Least(S) \in S /\ \A j \in S : Least(S) <= j
  <1> DEFINE R == {ss \in Nat \X Nat : ss[1] < ss[2]}
  <1>1. IsWellFoundedOn(R, Nat)
    BY NatLessThanWellFounded DEF OpToRel
  <1>2. PICK k \in S : \A j \in S : ~(<<j, k>> \in R)
    <2> HIDE DEF R
    <2>1. QED
      BY <1>1, WFMin
  <1>3. ASSUME NEW j \in S
        PROVE  k <= j
    <2>1. k \in Nat /\ j \in Nat
      OBVIOUS
    <2>2. <<j, k>> \in Nat \X Nat /\ <<j, k>>[1] = j /\ <<j, k>>[2] = k
      BY <2>1
    <2>3. ~(j < k)
      BY <1>2, <2>2
    <2>4. QED
      BY <2>1, <2>3
  <1>4. QED
    BY <1>3 DEF Least

\* An anonymous key is a key, and keys are positive numbers.
LEMMA AutoKeysAreKeys ==
    ASSUME NEW i \in 1..Len(AutoKeys)
    PROVE  AutoKeys[i] \in Keys
  BY DEF Keys

\* Keys are naturals, so the map has an order.
LEMMA KeysAreNat == Keys \subseteq Nat \ {0}
  <1>1. \A i \in 1..Len(AutoKeys) : AutoKeys[i] \in Nat \ {0}
    BY StoreAssumption, ElementOfSeq
  <1>2. QED
    BY <1>1, StoreAssumption DEF Keys

\* Erasing elements of a map of items leaves a map of items.
LEMMA WithoutIsMap ==
    ASSUME NEW m, IsMap(m), NEW S
    PROVE  IsMap(Without(m, S)) /\ DOMAIN Without(m, S) = DOMAIN m \ S
  BY DEF IsMap, Without

\* Setting the flag already_rendered of an item, alone or in a map.
LEMMA RenderedIsItem ==
    ASSUME NEW item \in Item, NEW b \in BOOLEAN
    PROVE  /\ [item EXCEPT !.rendered = b] \in Item
           /\ [item EXCEPT !.rendered = b].rendered = b
           /\ [item EXCEPT !.rendered = b].content = item.content
           /\ [item EXCEPT !.rendered = b].created = item.created
  BY DEF Item

\* Setting the flag of an item leaves a map with the same keys.
LEMMA RenderedIsMap ==
    ASSUME NEW m, IsMap(m), NEW k \in DOMAIN m, NEW b \in BOOLEAN
    PROVE  /\ IsMap([m EXCEPT ![k].rendered = b])
           /\ DOMAIN [m EXCEPT ![k].rendered = b] = DOMAIN m
  <1>1. [m[k] EXCEPT !.rendered = b] \in Item
    BY RenderedIsItem DEF IsMap
  <1>2. QED
    BY <1>1 DEF IsMap

\* The item of a message has the type of items.
LEMMA NewItemIsItem ==
    ASSUME NEW m \in Message, now \in Nat
    PROVE  NewItem(m) \in Item
  BY StoreAssumption DEF Message, NewItem, Item

\* The merged map is a map over the keys of both.
LEMMA MergedIsMap ==
    ASSUME IsMap(allDraws), IsMap(incoming)
    PROVE  IsMap(Merged) /\ DOMAIN Merged = DOMAIN incoming \cup DOMAIN allDraws
  <1>1. \A k \in DOMAIN incoming : [incoming[k] EXCEPT !.rendered = TRUE] \in Item
    BY RenderedIsItem DEF IsMap
  <1>2. QED
    BY <1>1 DEF IsMap, Merged

\* The pictures of a map of items.
LEMMA ContentsOfMap ==
    ASSUME NEW m, IsMap(m)
    PROVE  ContentsOf(m) \subseteq Contents \cup {Blank}
  BY DEF IsMap, ContentsOf, Item

-----------------------------------------------------------------------------
(* The inductive invariant.                                                *)

\* What the network thread relies on from one of its steps to the next: the
\* AUTOID keys suffice for the rest of the payload, an empty payload is not
\* merged, and the iterator is at an element of the map.
NetworkInv ==
    /\ ioPc = "parse" => autoNext + Len(todo) <= Len(AutoKeys) + 1
    /\ ioPc = "lock" => DOMAIN incoming # {}
    /\ ioPc = "dedup" => iter \in DOMAIN incoming

Inv == TypeOK /\ NetworkInv

\* The inductive invariant holds initially.
LEMMA InitInv == Init => Inv
  <1> SUFFICES ASSUME Init PROVE Inv
    OBVIOUS
  <1>1. IsMap(allDraws) /\ IsMap(incoming)
    BY DEF Init, IsMap, EmptyMap
  <1>2. todo \in Seq(Message \cup {Malformed})
    BY EmptySeq DEF Init
  <1>3. now \in Nat /\ lastCheckTime \in Nat /\ autoNext \in Nat \ {0}
    BY StoreAssumption, SMT DEF Init
  <1>4. QED
    BY <1>1, <1>2, <1>3 DEF Init, Inv, TypeOK, NetworkInv, Toggles

\* The steps of the network thread.
LEMMA ReceiveInv ==
    ASSUME Inv, NEW p \in Payloads, Receive(p)
    PROVE  Inv'
  <1>1. p \in Seq(Message \cup {Malformed}) /\ Len(p) \in Nat
    BY StoreAssumption, LenProperties
  <1>2. NetworkInv'
    BY <1>1 DEF Receive, NetworkInv
  <1>3. TypeOK'
    BY <1>1 DEF Receive, Inv, TypeOK, IsMap, mainVars
  <1>4. QED
    BY <1>2, <1>3 DEF Inv

\* One more item is parsed: under its name, or an AUTOID key that is left.
LEMMA ParseItemInv ==
    ASSUME Inv, ParseItem
    PROVE  Inv'
  <1> DEFINE m == Head(todo)
             key == IF m.id = NoId THEN AutoKeys[autoNext] ELSE m.id
  <1> USE DEF Inv
  <1>1. m \in Message /\ Tail(todo) \in Seq(Message \cup {Malformed})
        /\ Len(Tail(todo)) = Len(todo) - 1 /\ Len(todo) \in Nat \ {0}
    BY HeadTailProperties, EmptySeq DEF ParseItem, TypeOK
  <1>2. Len(AutoKeys) \in Nat
    BY StoreAssumption, LenProperties
  <1>3. autoNext \in 1..Len(AutoKeys)
    BY <1>1, <1>2 DEF ParseItem, TypeOK, NetworkInv
  <1>4. key \in Keys
    BY <1>1, <1>3, AutoKeysAreKeys DEF Message, Keys
  <1>5. NewItem(m) \in Item
    BY <1>1, NewItemIsItem DEF TypeOK
  <1>6. IsMap(incoming')
    <2> HIDE DEF m, key
    <2>1. IsMap([k \in DOMAIN incoming \cup {key} |->
                   IF k = key THEN NewItem(m) ELSE incoming[k]])
      BY <1>4, <1>5 DEF TypeOK, IsMap
    <2>2. QED
      BY <2>1 DEF ParseItem, TypeOK, m, key
  <1>7. /\ autoNext' \in Nat \ {0}
        /\ autoNext' + Len(todo') <= Len(AutoKeys) + 1
    BY <1>1, <1>2, <1>3 DEF ParseItem, TypeOK, NetworkInv
  <1>8. TypeOK'
    BY <1>1, <1>6, <1>7 DEF ParseItem, TypeOK, IsMap, mainVars
  <1>9. NetworkInv'
    BY <1>7 DEF ParseItem, NetworkInv
  <1>10. QED
    BY <1>8, <1>9

\* The payload is through, broken or dropped.
LEMMA ParseEndsInv ==
    ASSUME Inv, ParseFails \/ DropPayload \/ GoMerge \/ BuildThrows
    PROVE  Inv'
  <1> USE DEF Inv, TypeOK, NetworkInv, mainVars
  <1>1. IsMap(EmptyMap)
    BY DEF IsMap, EmptyMap
  <1>2. <<>> \in Seq(Message \cup {Malformed})
    BY EmptySeq
  <1>3. CASE ParseFails
    BY <1>1, <1>2, <1>3 DEF ParseFails, IsMap
  <1>4. CASE DropPayload
    BY <1>1, <1>4 DEF DropPayload, IsMap
  <1>5. CASE GoMerge
    BY <1>5 DEF GoMerge, IsMap
  <1>6. CASE BuildThrows
    BY <1>6 DEF BuildThrows, IsMap
  <1>7. QED
    BY <1>3, <1>4, <1>5, <1>6

\* The maps are joined, and the search begins at the first of a map that is not
\* empty.
LEMMA MergeInv ==
    ASSUME Inv, Merge
    PROVE  Inv'
  <1> USE DEF Inv
  <1>1. IsMap(Merged) /\ DOMAIN Merged # {}
    BY MergedIsMap DEF Merge, TypeOK, NetworkInv
  <1>2. DOMAIN Merged \subseteq Nat /\ DOMAIN Merged \subseteq Keys
    BY <1>1, KeysAreNat DEF IsMap
  <1>3. iter' \in DOMAIN incoming' /\ iter' \in Keys
    BY <1>1, <1>2, LeastInSet DEF Merge
  <1>4. IsMap(incoming') /\ IsMap(allDraws')
    BY <1>1 DEF Merge, IsMap, EmptyMap
  <1>5. lastToggle' \in Toggles
    BY DEF Merge, NewToggles, TypeOK
  <1>6. TypeOK'
    BY <1>3, <1>4, <1>5 DEF Merge, TypeOK, IsMap, mainVars
  <1>7. NetworkInv'
    BY <1>3 DEF Merge, NetworkInv
  <1>8. QED
    BY <1>6, <1>7

\* What lies behind the iterator is a set of keys, and so are its twins.
LEMMA AfterAreKeys ==
    ASSUME NEW m, IsMap(m), NEW k
    PROVE  After(k, m) \subseteq DOMAIN m /\ After(k, m) \subseteq Nat
  BY KeysAreNat DEF After, IsMap

\* The twin the search finds is behind the iterator and has its picture.
LEMMA TwinOfIter ==
    ASSUME Inv, ioPc = "dedup", Twins # {}
    PROVE  /\ Least(Twins) \in DOMAIN incoming /\ Least(Twins) # iter
           /\ Least(Twins) \in After(iter, incoming)
           /\ incoming[Least(Twins)].content = incoming[iter].content
           /\ incoming[Least(Twins)] \in Item /\ incoming[iter] \in Item
           /\ iter \in Nat
  <1>1. Twins \subseteq After(iter, incoming) /\ After(iter, incoming) \subseteq Nat
    BY AfterAreKeys DEF Inv, TypeOK, Twins
  <1>2. Least(Twins) \in Twins
    BY <1>1, LeastInSet
  <1>3. iter \in DOMAIN incoming /\ iter \in Nat
    BY KeysAreNat DEF Inv, NetworkInv, TypeOK, IsMap
  <1>4. Least(Twins) \in After(iter, incoming)
    BY <1>1, <1>2
  <1>5. Least(Twins) \in DOMAIN incoming /\ Least(Twins) # iter
    BY <1>1, <1>3, <1>4 DEF After
  <1>6. QED
    BY <1>2, <1>3, <1>4, <1>5 DEF Twins, Inv, TypeOK, IsMap

\* The iterator moves on to the next element of the map.
LEMMA DedupAdvanceInv ==
    ASSUME Inv, DedupAdvance
    PROVE  Inv'
  <1> USE DEF Inv
  <1>1. iter' \in After(iter, incoming)
    BY AfterAreKeys, LeastInSet DEF DedupAdvance, TypeOK
  <1>2. iter' \in DOMAIN incoming /\ iter' \in Keys
    BY <1>1, AfterAreKeys DEF TypeOK, IsMap
  <1>3. TypeOK'
    BY <1>2 DEF DedupAdvance, TypeOK, IsMap, mainVars
  <1>4. NetworkInv'
    BY <1>2 DEF DedupAdvance, NetworkInv
  <1>5. QED
    BY <1>3, <1>4

\* KeepOnly leaves a map of items without the one that goes.
LEMMA KeepOnlyIsMap ==
    ASSUME IsMap(incoming), NEW stays \in DOMAIN incoming, NEW gone \in DOMAIN incoming
    PROVE  /\ IsMap(KeepOnly(stays, gone))
           /\ DOMAIN KeepOnly(stays, gone) = DOMAIN incoming \ {gone}
  <1> DEFINE flag == incoming[stays].rendered \/ incoming[gone].rendered
             marked == [incoming EXCEPT ![stays].rendered = flag]
  <1>1. flag \in BOOLEAN
    BY DEF IsMap, Item
  <1>2. IsMap(marked) /\ DOMAIN marked = DOMAIN incoming
    <2> HIDE DEF flag
    <2>1. QED
      BY <1>1, RenderedIsMap
  <1>3. KeepOnly(stays, gone) = Without(marked, {gone})
    BY DEF KeepOnly
  <1> HIDE DEF marked
  <1>4. QED
    BY <1>2, <1>3, WithoutIsMap

\* The element at the iterator goes; the iterator is at one that stays.
LEMMA DedupEraseHereInv ==
    ASSUME Inv, DedupEraseHere
    PROVE  Inv'
  <1> USE DEF Inv
  <1>1. /\ Least(Twins) \in DOMAIN incoming /\ Least(Twins) # iter
        /\ Least(Twins) \in After(iter, incoming) /\ iter \in DOMAIN incoming
    BY TwinOfIter DEF DedupEraseHere, NetworkInv
  <1>2. IsMap(incoming') /\ DOMAIN incoming' = DOMAIN incoming \ {iter}
    BY <1>1, KeepOnlyIsMap DEF DedupEraseHere, TypeOK
  <1>3. iter' \in After(iter, incoming)
    BY <1>1, AfterAreKeys, LeastInSet DEF DedupEraseHere, TypeOK
  <1>4. iter' \in DOMAIN incoming' /\ iter' \in Keys
    <2>1. iter' \in DOMAIN incoming /\ iter' # iter
      BY <1>3, TwinOfIter, KeysAreNat DEF After, DedupEraseHere
    <2>2. QED
      BY <2>1, <1>2 DEF TypeOK, IsMap
  <1>5. TypeOK'
    BY <1>2, <1>4 DEF DedupEraseHere, TypeOK, IsMap, mainVars
  <1>6. NetworkInv'
    BY <1>4 DEF DedupEraseHere, NetworkInv
  <1>7. QED
    BY <1>5, <1>6

\* The twin goes, and the iterator may have been at the end of the map.
LEMMA DedupEraseDupInv ==
    ASSUME Inv, DedupEraseDup
    PROVE  Inv'
  <1> DEFINE kept == KeepOnly(iter, Least(Twins))
  <1> USE DEF Inv
  <1>1. /\ Least(Twins) \in DOMAIN incoming /\ Least(Twins) # iter
        /\ iter \in DOMAIN incoming
    BY TwinOfIter DEF DedupEraseDup, NetworkInv
  <1>2. IsMap(kept) /\ DOMAIN kept = DOMAIN incoming \ {Least(Twins)}
    BY <1>1, KeepOnlyIsMap DEF DedupEraseDup, TypeOK
  <1>3. /\ incoming' = kept /\ ioPc' \in {"dedup", "crashed"}
        /\ \/ After(iter, kept) # {} /\ iter' = Least(After(iter, kept))
           \/ iter' \in DOMAIN kept
    BY DEF DedupEraseDup, AtTheEnd
  <1> HIDE DEF kept
  <1>4. iter' \in DOMAIN incoming' /\ iter' \in Keys
    <2>1. CASE After(iter, kept) # {} /\ iter' = Least(After(iter, kept))
      <3>1. iter' \in After(iter, kept)
        BY <1>2, <2>1, AfterAreKeys, LeastInSet
      <3>2. QED
        BY <1>2, <1>3, <3>1, AfterAreKeys DEF IsMap
    <2>2. CASE iter' \in DOMAIN kept
      BY <1>2, <1>3, <2>2 DEF IsMap
    <2>3. QED
      BY <1>3, <2>1, <2>2
  <1>5. TypeOK'
    BY <1>2, <1>3, <1>4 DEF DedupEraseDup, TypeOK, IsMap, mainVars
  <1>6. NetworkInv'
    BY <1>3, <1>4 DEF NetworkInv
  <1>7. QED
    BY <1>5, <1>6

\* The map is handed over and the mutex is free.
LEMMA PublishInv ==
    ASSUME Inv, Publish
    PROVE  Inv'
  <1>1. IsMap(EmptyMap)
    BY DEF IsMap, EmptyMap
  <1>2. TypeOK'
    BY <1>1 DEF Inv, Publish, TypeOK, IsMap, mainVars
  <1>3. NetworkInv'
    BY DEF Publish, NetworkInv
  <1>4. QED
    BY <1>2, <1>3 DEF Inv

\* The main thread's steps between two frames.
LEMMA WakeInv ==
    ASSUME Inv, Wake \/ WakeAndCheck \/ LoseTransparency
    PROVE  Inv'
  <1> USE DEF Inv
  <1>1. Clock \in Nat
    BY DEF Clock, TypeOK
  <1>2. CASE Wake
    BY <1>1, <1>2 DEF Wake, TypeOK, IsMap, NetworkInv, ioVars
  <1>3. CASE WakeAndCheck
    BY <1>1, <1>3 DEF WakeAndCheck, TypeOK, IsMap, NetworkInv, ioVars
  <1>4. CASE LoseTransparency
    <2>1. targetAppActive' \in BOOLEAN
      BY <1>4 DEF LoseTransparency
    <2>2. UNCHANGED <<ioVars, allDraws>>
      BY <1>4 DEF LoseTransparency
    <2>3. TypeOK'
      BY <1>1, <1>4, <2>1 DEF LoseTransparency, TypeOK, IsMap, ioVars
    <2>4. QED
      BY <2>2, <2>3 DEF NetworkInv, ioVars
  <1>5. QED
    BY <1>2, <1>3, <1>4

\* The set of the items that stay marks every one as rendered after a redraw.
LEMMA RedrawnIsMap ==
    ASSUME IsMap(allDraws), NEW S
    PROVE  IsMap([k \in DOMAIN allDraws \ S |-> [allDraws[k] EXCEPT !.rendered = TRUE]])
  <1>1. \A k \in DOMAIN allDraws : [allDraws[k] EXCEPT !.rendered = TRUE] \in Item
    BY RenderedIsItem DEF IsMap
  <1>2. QED
    BY <1>1 DEF IsMap

\* What a frame draws or leaves is made of pictures.
LEMMA FrameScreen ==
    ASSUME TypeOK
    PROVE  /\ Drawn \subseteq Contents \cup {Blank, Banner}
           /\ HiddenScreen \subseteq Contents \cup {Blank, Banner}
           /\ HideAfter \in BOOLEAN
  <1>1. IsMap(Without(allDraws, Erased))
    BY WithoutIsMap DEF TypeOK
  <1>2. Drawn \subseteq Contents \cup {Blank}
    BY <1>1, ContentsOfMap DEF Drawn
  <1>3. HideAfter \in BOOLEAN
    BY DEF HideAfter, TypeOK
  <1>4. QED
    BY <1>2, <1>3 DEF HiddenScreen, TypeOK

\* The frames and the join.
LEMMA FrameInv ==
    ASSUME Inv, Frame \/ Joined
    PROVE  Inv'
  <1> USE DEF Inv
  <1>1. IsMap(Without(allDraws, Erased))
    BY WithoutIsMap DEF TypeOK
  <1>2. IsMap(allDraws')
    BY <1>1, RedrawnIsMap DEF Frame, FrameRedraw, FrameSkip, FrameHide, FrameExit,
       Joined, TypeOK
  <1>3. CASE FrameRedraw
    BY <1>2, <1>3, FrameScreen DEF FrameRedraw, TypeOK, IsMap, NetworkInv, ioVars
  <1>4. CASE FrameSkip
    BY <1>2, <1>4, FrameScreen DEF FrameSkip, TypeOK, IsMap, NetworkInv, ioVars
  <1>5. CASE FrameHide
    BY <1>2, <1>5, FrameScreen DEF FrameHide, TypeOK, IsMap, NetworkInv, ioVars
  <1>6. CASE FrameExit
    BY <1>2, <1>6, FrameScreen DEF FrameExit, TypeOK, IsMap, NetworkInv, ioVars
  <1>7. CASE Joined
    BY <1>2, <1>7, FrameScreen DEF Joined, TypeOK, IsMap, NetworkInv
  <1>8. QED
    BY <1>3, <1>4, <1>5, <1>6, <1>7 DEF Frame

\* Every step, and a stuttering one, preserves the inductive invariant.
LEMMA NextInv ==
    ASSUME Inv, [Next]_vars
    PROVE  Inv'
  <1>1. CASE Next
    BY <1>1, ReceiveInv, ParseItemInv, ParseEndsInv, MergeInv, DedupAdvanceInv,
       DedupEraseHereInv, DedupEraseDupInv, PublishInv, WakeInv, FrameInv
       DEF Next, Network, Main
  <1>2. CASE UNCHANGED vars
    BY <1>2 DEF Inv, TypeOK, NetworkInv, IsMap, vars, ioVars, mainVars
  <1>3. QED
    BY <1>1, <1>2

-----------------------------------------------------------------------------
(* What the steps do to the items of the two maps.                         *)

\* An item is what it was but for the flag already_rendered.
SameItem(item, old) == /\ item.content = old.content
                       /\ item.command = old.command
                       /\ item.created = old.created

\* A map holds items of another one under the same keys.
PartOf(map, old) == /\ DOMAIN map \subseteq DOMAIN old
                    /\ \A k \in DOMAIN map : SameItem(map[k], old[k])

\* Setting the flag leaves the rest of the item alone.
LEMMA FlagIsNoChange ==
    ASSUME NEW item \in Item, NEW b \in BOOLEAN
    PROVE  SameItem([item EXCEPT !.rendered = b], item)
  BY DEF Item, SameItem

\* Merge keeps what incoming has, and what only allDraws has.  A flag is set
\* when the item it replaces had the same picture.
LEMMA MergedItems ==
    ASSUME IsMap(allDraws), IsMap(incoming), NEW k \in DOMAIN Merged
    PROVE  /\ k \in DOMAIN incoming \/ k \in DOMAIN allDraws
           /\ k \in DOMAIN incoming => SameItem(Merged[k], incoming[k])
           /\ k \notin DOMAIN incoming => Merged[k] = allDraws[k]
           /\ k \in DOMAIN incoming /\ Merged[k].rendered =>
                \/ incoming[k].rendered
                \/ k \in DOMAIN allDraws /\ allDraws[k].content = incoming[k].content
  <1>1. k \in DOMAIN incoming \cup DOMAIN allDraws
    BY MergedIsMap
  <1>2. CASE k \notin DOMAIN incoming
    BY <1>1, <1>2 DEF Merged
  <1>3. CASE k \in DOMAIN incoming
    <2>1. incoming[k] \in Item
      BY <1>3 DEF IsMap
    <2>2. \/ Merged[k] = incoming[k]
          \/ /\ Merged[k] = [incoming[k] EXCEPT !.rendered = TRUE]
             /\ k \in DOMAIN allDraws /\ allDraws[k].content = incoming[k].content
      BY <1>1, <1>3 DEF Merged
    <2>3. SameItem([incoming[k] EXCEPT !.rendered = TRUE], incoming[k])
      BY <2>1, FlagIsNoChange
    <2>4. QED
      BY <1>3, <2>2, <2>3 DEF SameItem
  <1>4. QED
    BY <1>2, <1>3

\* An erasure of removeRenamedDuplicates leaves the others alone; the flag of
\* the one that stays is set if that of the erased one was.
LEMMA KeptItems ==
    ASSUME IsMap(incoming), NEW stays \in DOMAIN incoming, NEW gone \in DOMAIN incoming
    PROVE  LET kept == KeepOnly(stays, gone)
           IN /\ DOMAIN kept = DOMAIN incoming \ {gone}
              /\ \A k \in DOMAIN kept :
                   /\ SameItem(kept[k], incoming[k])
                   /\ kept[k].rendered <=>
                        \/ incoming[k].rendered
                        \/ k = stays /\ incoming[gone].rendered
  <1> DEFINE flag == incoming[stays].rendered \/ incoming[gone].rendered
             marked == [incoming EXCEPT ![stays].rendered = flag]
             kept == KeepOnly(stays, gone)
  <1>1. incoming[stays] \in Item /\ incoming[gone] \in Item
    BY DEF IsMap
  <1>2. flag \in BOOLEAN
    BY <1>1 DEF Item
  <1>3. /\ marked[stays] = [incoming[stays] EXCEPT !.rendered = flag]
        /\ \A j \in DOMAIN incoming \ {stays} : marked[j] = incoming[j]
        /\ DOMAIN marked = DOMAIN incoming
    <2> HIDE DEF flag
    <2>1. QED
      OBVIOUS
  <1>4. DOMAIN kept = DOMAIN incoming \ {gone} /\ \A k \in DOMAIN kept : kept[k] = marked[k]
    <2>1. kept = Without(marked, {gone})
      BY DEF KeepOnly
    <2> HIDE DEF marked, kept
    <2>2. QED
      BY <1>3, <2>1 DEF Without
  <1>5. SameItem(marked[stays], incoming[stays]) /\ marked[stays].rendered = flag
    <2> HIDE DEF flag, marked
    <2>1. QED
      BY <1>1, <1>2, <1>3, FlagIsNoChange, RenderedIsItem
  <1>6. ASSUME NEW k \in DOMAIN kept
        PROVE  /\ SameItem(kept[k], incoming[k])
               /\ kept[k].rendered <=> \/ incoming[k].rendered
                                       \/ k = stays /\ incoming[gone].rendered
    <2> HIDE DEF marked, kept
    <2>1. CASE k = stays
      BY <1>4, <1>5, <2>1
    <2>2. CASE k # stays
      <3>1. kept[k] = incoming[k]
        BY <1>3, <1>4, <2>2
      <3>2. kept[k].rendered \in BOOLEAN
        BY <1>4, <3>1 DEF IsMap, Item
      <3>3. QED
        BY <2>2, <3>1, <3>2 DEF SameItem
    <2>3. QED
      BY <2>1, <2>2
  <1>7. QED
    BY <1>4, <1>6

\* Of two equal items the one that is not older stays, and takes over the flag.
Erasure(stays, gone) ==
    /\ stays \in DOMAIN incoming /\ gone \in DOMAIN incoming /\ stays # gone
    /\ incoming[stays].content = incoming[gone].content
    /\ incoming[gone].created <= incoming[stays].created
    /\ PartOf(incoming', incoming)
    /\ DOMAIN incoming' = DOMAIN incoming \ {gone}
    /\ \A k \in DOMAIN incoming' :
         incoming'[k].rendered <=> \/ incoming[k].rendered
                                   \/ k = stays /\ incoming[gone].rendered

\* That is what both erasures do, of the element at iter and its next twin.
LEMMA ErasureOfTwin ==
    ASSUME Inv, DedupEraseHere \/ DedupEraseDup
    PROVE  /\ iter < Least(Twins) /\ iter \in Nat /\ Least(Twins) \in Nat
           /\ DedupEraseHere => Erasure(Least(Twins), iter)
           /\ DedupEraseDup => Erasure(iter, Least(Twins))
  <1>1. IsMap(incoming) /\ iter \in DOMAIN incoming
    BY DEF Inv, TypeOK, NetworkInv, DedupEraseHere, DedupEraseDup
  <1>2. /\ Least(Twins) \in DOMAIN incoming /\ Least(Twins) # iter
        /\ Least(Twins) \in After(iter, incoming) /\ iter \in Nat
        /\ incoming[Least(Twins)].content = incoming[iter].content
        /\ incoming[Least(Twins)].created \in Nat /\ incoming[iter].created \in Nat
    BY TwinOfIter DEF DedupEraseHere, DedupEraseDup, Item
  <1>3. iter < Least(Twins) /\ Least(Twins) \in Nat
    BY <1>1, <1>2, KeysAreNat DEF After, IsMap
  <1>4. ASSUME DedupEraseHere
        PROVE  Erasure(Least(Twins), iter)
    <2>1. incoming[iter].created <= incoming[Least(Twins)].created
      BY <1>2, <1>4 DEF DedupEraseHere, IterIsOlder
    <2>2. incoming' = KeepOnly(Least(Twins), iter)
      BY <1>4 DEF DedupEraseHere
    <2>3. /\ DOMAIN incoming' = DOMAIN incoming \ {iter}
          /\ \A k \in DOMAIN incoming' :
               /\ SameItem(incoming'[k], incoming[k])
               /\ incoming'[k].rendered <=>
                    \/ incoming[k].rendered
                    \/ k = Least(Twins) /\ incoming[iter].rendered
      BY <1>1, <1>2, <2>2, KeptItems
    <2>4. QED
      BY <1>1, <1>2, <2>1, <2>3 DEF PartOf, Erasure
  <1>5. ASSUME DedupEraseDup
        PROVE  Erasure(iter, Least(Twins))
    <2>1. incoming[Least(Twins)].created <= incoming[iter].created
      BY <1>2, <1>5 DEF DedupEraseDup, IterIsOlder
    <2>2. incoming' = KeepOnly(iter, Least(Twins))
      BY <1>5 DEF DedupEraseDup
    <2>3. /\ DOMAIN incoming' = DOMAIN incoming \ {Least(Twins)}
          /\ \A k \in DOMAIN incoming' :
               /\ SameItem(incoming'[k], incoming[k])
               /\ incoming'[k].rendered <=>
                    \/ incoming[k].rendered
                    \/ k = iter /\ incoming[Least(Twins)].rendered
      BY <1>1, <1>2, <2>2, KeptItems
    <2>4. QED
      BY <1>1, <1>2, <2>1, <2>3 DEF PartOf, Erasure
  <1>6. QED
    BY <1>2, <1>3, <1>4, <1>5

\* A frame takes items away and may set their flags; nothing else.
LEMMA FrameItems ==
    ASSUME IsMap(allDraws), Frame \/ Joined
    PROVE  PartOf(allDraws', allDraws)
  <1>1. PartOf(allDraws, allDraws)
    BY DEF PartOf, SameItem
  <1>2. PartOf(Without(allDraws, Erased), allDraws)
    BY DEF PartOf, SameItem, Without
  <1>3. PartOf([k \in DOMAIN allDraws \ Erased |->
                  [allDraws[k] EXCEPT !.rendered = TRUE]], allDraws)
    <2>1. \A k \in DOMAIN allDraws :
            SameItem([allDraws[k] EXCEPT !.rendered = TRUE], allDraws[k])
      BY FlagIsNoChange DEF IsMap
    <2>2. QED
      BY <2>1 DEF PartOf
  <1>4. QED
    BY <1>1, <1>2, <1>3 DEF Frame, FrameRedraw, FrameSkip, FrameHide, FrameExit, Joined

\* Between two frames the main thread touches no item and no picture.
LEMMA WakeChanges ==
    ASSUME Inv, Wake \/ WakeAndCheck \/ LoseTransparency
    PROVE  /\ UNCHANGED <<allDraws, ioVars, mutex, commandHideLayer, windowWasHidden,
                          screen, unframed, lastToggle>>
           /\ mainPc = "sleep" /\ mainPc' \in {"frame", "joining"}
           /\ now' \in Nat /\ now' >= now
  <1>1. Clock \in Nat /\ Clock >= now
    BY DEF Clock, Inv, TypeOK
  <1>2. CASE Wake
    BY <1>1, <1>2 DEF Wake
  <1>3. CASE WakeAndCheck
    BY <1>1, <1>3 DEF WakeAndCheck
  <1>4. CASE LoseTransparency
    <2>1. /\ UNCHANGED <<allDraws, ioVars, mutex, commandHideLayer, windowWasHidden,
                          screen, unframed, lastToggle>>
          /\ mainPc = "sleep" /\ mainPc' = "joining" /\ now' = Clock
      BY <1>4 DEF LoseTransparency
    <2>2. QED
      BY <1>1, <2>1
  <1>5. QED
    BY <1>2, <1>3, <1>4

-----------------------------------------------------------------------------
(* Types, the hidden window, and the items of a critical section.          *)

\* The invariant that carries the proofs: types, and the network thread's
\* iterator is always at an element of the map, also after an erasure
\* (tcp_session.hpp:156-184).
THEOREM Invariance == Spec => []Inv
  <1>1. QED
    BY InitInv, NextInv, PTL DEF Spec

\* Every variable keeps its type: maps of items over keys, an iterator at a
\* key, pictures on the window.
THEOREM TypeCorrect == Spec => []TypeOK
  <1>1. Inv => TypeOK
    BY DEF Inv
  <1>2. QED
    BY <1>1, Invariance, PTL

\* While the overlay counts as hidden the window is blank, for any payloads
\* and any interleaving of the two threads (main.cpp:209-231).
THEOREM HiddenIsBlank == Spec => []HiddenScreenIsBlank
  <1>1. Init => HiddenScreenIsBlank
    BY DEF Init, HiddenScreenIsBlank
  <1>2. ASSUME HiddenScreenIsBlank, [Next]_vars
        PROVE  HiddenScreenIsBlank'
    <2> USE DEF HiddenScreenIsBlank
    <2>1. CASE \E p \in Payloads : Receive(p)
      BY <1>2, <2>1 DEF Receive, mainVars
    <2>2. CASE Network
      BY <1>2, <2>2 DEF Network, ParseItem, ParseFails, DropPayload, GoMerge,
         BuildThrows, Merge, DedupAdvance, DedupEraseHere, DedupEraseDup, Publish,
         mainVars
    <2>3. CASE Wake \/ WakeAndCheck \/ LoseTransparency
      BY <1>2, <2>3 DEF Wake, WakeAndCheck, LoseTransparency
    <2>4. CASE FrameRedraw \/ FrameSkip
      BY <2>4 DEF FrameRedraw, FrameSkip
    <2>5. CASE FrameHide
      BY <1>2, <2>5 DEF FrameHide, HiddenScreen
    <2>6. CASE FrameExit
      BY <1>2, <2>6 DEF FrameExit
    <2>7. CASE Joined
      BY <1>2, <2>7 DEF Joined, HiddenScreen
    <2>8. CASE UNCHANGED vars
      BY <1>2, <2>8 DEF vars, mainVars
    <2>9. QED
      BY <1>2, <2>1, <2>2, <2>3, <2>4, <2>5, <2>6, <2>7, <2>8
         DEF Next, Main, Frame
  <1>3. QED
    BY <1>1, <1>2, PTL DEF Spec

\* An item is itself a witness that it was not lost.
LEMMA ItemKeepsItself ==
    ASSUME NEW m, IsMap(m), NEW k \in DOMAIN m
    PROVE  \E j \in DOMAIN m : /\ m[j].content = m[k].content
                               /\ m[j].created >= m[k].created
                               /\ m[k].rendered => m[j].rendered
  <1>1. m[k].created \in Nat
    BY DEF IsMap, Item
  <1>2. QED
    BY <1>1

\* One of two twins is erased, and the one that stays is not older and takes
\* over the flag: whatever had been in the map still has its witness.
LEMMA DedupKeepsItems ==
    ASSUME Inv, DedupEraseHere \/ DedupEraseDup
    PROVE  KeepsItems
  <1> SUFFICES ASSUME NEW k \in DOMAIN incoming, ioPc' = "dedup"
               PROVE  \E j \in DOMAIN incoming' :
                        /\ incoming'[j].content = incoming[k].content
                        /\ incoming'[j].created >= incoming[k].created
                        /\ incoming[k].rendered => incoming'[j].rendered
    BY DEF KeepsItems, DedupEraseHere, DedupEraseDup
  <1>1. IsMap(incoming) /\ IsMap(incoming')
    <2>1. Inv'
      BY DedupEraseHereInv, DedupEraseDupInv
    <2>2. QED
      BY <2>1 DEF Inv, TypeOK, IsMap
  <1>2. PICK stays, gone : Erasure(stays, gone)
    BY ErasureOfTwin
  <1>3. \A j \in DOMAIN incoming : incoming[j].created \in Nat
    BY <1>1 DEF IsMap, Item
  <1>4. CASE k = gone
    <2>1. /\ stays \in DOMAIN incoming' /\ SameItem(incoming'[stays], incoming[stays])
          /\ incoming[k].rendered => incoming'[stays].rendered
      BY <1>2, <1>4 DEF Erasure, PartOf
    <2>2. QED
      BY <1>2, <1>3, <1>4, <2>1 DEF Erasure, SameItem
  <1>5. CASE k # gone
    <2>1. k \in DOMAIN incoming' /\ SameItem(incoming'[k], incoming[k])
      BY <1>2, <1>5 DEF Erasure, PartOf
    <2>2. incoming[k].rendered => incoming'[k].rendered
      BY <1>2, <2>1 DEF Erasure
    <2>3. QED
      BY <1>3, <2>1, <2>2 DEF SameItem
  <1>6. QED
    BY <1>4, <1>5

\* A step that leaves incoming alone loses nothing, and Publish hands over all.
LEMMA OthersKeepItems ==
    ASSUME Inv, \/ UNCHANGED <<ioPc, incoming>>
                \/ ioPc # "dedup"
                \/ Publish \/ DedupAdvance
    PROVE  KeepsItems
  <1> SUFFICES ASSUME ioPc = "dedup" PROVE KeepsItems
    BY DEF KeepsItems
  <1>1. IsMap(incoming)
    BY DEF Inv, TypeOK
  <1>2. \/ ioPc' = "dedup" /\ incoming' = incoming
        \/ ioPc' = "read" /\ allDraws' = incoming
    BY DEF Publish, DedupAdvance
  <1>3. QED
    BY <1>1, <1>2, ItemKeepsItself DEF KeepsItems

\* Nothing is lost between Merge and Publish (tcp_session.hpp:156-184), however
\* many duplicates a payload and the map hold: an item keeps a witness with
\* its picture that is not older and is rendered if it was.
THEOREM ItemsSurvive == Spec => NoItemLost
  <1>1. ASSUME Inv, [Next]_vars
        PROVE  [KeepsItems]_vars
    <2>1. CASE \E p \in Payloads : Receive(p)
      BY <1>1, <2>1, OthersKeepItems DEF Receive
    <2>2. CASE ParseItem \/ ParseFails \/ DropPayload \/ GoMerge \/ BuildThrows \/ Merge
      BY <1>1, <2>2, OthersKeepItems
         DEF ParseItem, ParseFails, DropPayload, GoMerge, BuildThrows, Merge
    <2>3. CASE DedupAdvance \/ Publish
      BY <1>1, <2>3, OthersKeepItems
    <2>4. CASE DedupEraseHere \/ DedupEraseDup
      BY <1>1, <2>4, DedupKeepsItems
    <2>5. CASE Wake \/ WakeAndCheck \/ LoseTransparency \/ Frame
      BY <1>1, <2>5, OthersKeepItems DEF Wake, WakeAndCheck, LoseTransparency,
         Frame, FrameRedraw, FrameSkip, FrameHide, FrameExit, ioVars
    <2>6. CASE Joined
      BY <1>1, <2>6, OthersKeepItems DEF Joined
    <2>7. CASE UNCHANGED vars
      BY <2>7
    <2>8. QED
      BY <1>1, <2>1, <2>2, <2>3, <2>4, <2>5, <2>6, <2>7 DEF Next, Network, Main
  <1>2. Spec => [][KeepsItems]_vars
    BY <1>1, Invariance, PTL DEF Spec
  <1>3. QED
    BY <1>2 DEF NoItemLost

-----------------------------------------------------------------------------
(* Where the items are while the network thread works on a payload.        *)

\* The critical section holds the mutex and has emptied the shared map; what
\* was parsed has never been drawn; between two payloads nothing is kept.
PhaseInv ==
    /\ ioPc = "dedup" => mutex = "io" /\ DOMAIN allDraws = {}
    /\ ioPc \in {"read", "ended"} => DOMAIN incoming = {}
    /\ ioPc \in {"read", "parse", "lock"} =>
         \A k \in DOMAIN incoming : ~incoming[k].rendered

\* It holds initially.
LEMMA InitPhase == Init => PhaseInv
  BY DEF Init, PhaseInv, EmptyMap

\* Every step keeps the items where the program counter says.
LEMMA NextPhase ==
    ASSUME Inv, PhaseInv, [Next]_vars
    PROVE  PhaseInv'
  <1> USE DEF PhaseInv
  <1>1. CASE \E p \in Payloads : Receive(p)
    BY <1>1 DEF Receive
  <1>2. CASE ParseItem
    BY <1>2 DEF ParseItem, NewItem
  <1>3. CASE ParseFails \/ DropPayload \/ GoMerge \/ BuildThrows
    BY <1>3 DEF ParseFails, DropPayload, GoMerge, BuildThrows, EmptyMap
  <1>4. CASE Merge
    BY <1>4 DEF Merge, EmptyMap
  <1>5. CASE DedupAdvance \/ DedupEraseHere \/ DedupEraseDup
    BY <1>5 DEF DedupAdvance, DedupEraseHere, DedupEraseDup
  <1>6. CASE Publish
    BY <1>6 DEF Publish, EmptyMap
  <1>7. CASE Wake \/ WakeAndCheck \/ LoseTransparency
    BY <1>7 DEF Wake, WakeAndCheck, LoseTransparency, ioVars
  <1>8. CASE Frame
    BY <1>8 DEF Frame, FrameRedraw, FrameSkip, FrameHide, FrameExit, FrameStarts, ioVars
  <1>9. CASE Joined
    BY <1>9 DEF Joined
  <1>10. CASE UNCHANGED vars
    BY <1>10 DEF vars, ioVars
  <1>11. QED
    BY <1>1, <1>2, <1>3, <1>4, <1>5, <1>6, <1>7, <1>8, <1>9, <1>10
       DEF Next, Network, Main

-----------------------------------------------------------------------------
(* What is marked as rendered is on the window.                            *)

\* The marked items of a map are on the window.
OnScreen(map) == \A k \in DOMAIN map : map[k].rendered => map[k].content \in screen

\* Plugins that wait for a frame find it done when they send: the network
\* thread has no payload in its hands before the frame.  So the whole map was
\* drawn when Merge compares it with the new items, and the flag Merge sets
\* speaks of a picture that is on the window.
ShownInv ==
    /\ ioPc \in {"parse", "lock", "dedup"} => ~unframed
    /\ ~windowWasHidden =>
         /\ OnScreen(allDraws)
         /\ ioPc = "dedup" => OnScreen(incoming)
         /\ ~unframed => \A k \in DOMAIN allDraws : allDraws[k].rendered

\* Nothing is marked initially.
LEMMA InitShown == Init => ShownInv
  BY DEF Init, ShownInv, OnScreen, EmptyMap

\* Merge: an item is marked because the one it replaces was on the window.
LEMMA MergeShown ==
    ASSUME Inv, PhaseInv, ShownInv, Merge
    PROVE  ShownInv'
  <1>1. /\ incoming' = Merged /\ DOMAIN allDraws' = {}
        /\ UNCHANGED <<windowWasHidden, screen, unframed>>
        /\ ioPc = "lock" /\ ioPc' = "dedup"
    BY DEF Merge, EmptyMap, mainVars
  <1>2. ASSUME ~windowWasHidden, NEW k \in DOMAIN Merged, Merged[k].rendered
        PROVE  Merged[k].content \in screen
    <2>1. ~unframed /\ OnScreen(allDraws) /\ \A j \in DOMAIN allDraws : allDraws[j].rendered
      BY <1>1, <1>2 DEF ShownInv
    <2>2. \A j \in DOMAIN allDraws : allDraws[j].content \in screen
      BY <2>1 DEF OnScreen
    <2>3. k \notin DOMAIN incoming \/ ~incoming[k].rendered
      BY <1>1 DEF PhaseInv
    <2>4. QED
      BY <1>2, <2>2, <2>3, MergedItems DEF Inv, TypeOK, SameItem
  <1>3. QED
    BY <1>1, <1>2 DEF ShownInv, OnScreen

\* An erasure hands the flag to an item with the same picture.
LEMMA DedupShown ==
    ASSUME Inv, PhaseInv, ShownInv, DedupEraseHere \/ DedupEraseDup
    PROVE  ShownInv'
  <1>1. /\ UNCHANGED <<windowWasHidden, screen, unframed, allDraws>>
        /\ ioPc = "dedup" /\ ioPc' \in {"dedup", "crashed"}
    BY DEF DedupEraseHere, DedupEraseDup, mainVars
  <1>2. PICK stays, gone : Erasure(stays, gone)
    BY ErasureOfTwin
  <1>3. ASSUME ~windowWasHidden
        PROVE  \A k \in DOMAIN incoming' :
                 incoming'[k].rendered => incoming'[k].content \in screen
    <2>1. \A k \in DOMAIN incoming : incoming[k].rendered => incoming[k].content \in screen
      BY <1>1, <1>3 DEF ShownInv, OnScreen
    <2>2. QED
      BY <1>2, <2>1 DEF Erasure, PartOf, SameItem
  <1>4. QED
    BY <1>1, <1>3 DEF ShownInv, OnScreen

\* A frame draws everything it leaves, or nothing was missing.
LEMMA FrameShown ==
    ASSUME Inv, PhaseInv, ShownInv, Frame \/ Joined
    PROVE  ShownInv'
  <1>1. PartOf(allDraws', allDraws) /\ IsMap(allDraws)
    BY FrameItems DEF Inv, TypeOK
  <1>2. CASE FrameRedraw
    <2>1. ioPc # "dedup" /\ ioPc' = ioPc
      BY <1>2 DEF FrameRedraw, FrameStarts, PhaseInv, ioVars
    <2>2. \A k \in DOMAIN allDraws' : allDraws'[k].rendered
      BY <1>2, <1>1, RenderedIsItem DEF FrameRedraw, IsMap
    <2>3. \A k \in DOMAIN allDraws' : allDraws'[k].content \in screen'
      <3>1. ASSUME NEW k \in DOMAIN allDraws'
            PROVE  allDraws'[k].content \in screen'
        <4>1. k \in DOMAIN allDraws \ Erased
          BY <1>2 DEF FrameRedraw
        <4>2. allDraws'[k].content = allDraws[k].content
          BY <1>1 DEF PartOf, SameItem
        <4>3. QED
          BY <1>2, <4>1, <4>2 DEF FrameRedraw, Drawn, ContentsOf, Without
      <3>2. QED
        BY <3>1
    <2>4. unframed' = FALSE
      BY <1>2 DEF FrameRedraw
    <2>5. QED
      BY <2>1, <2>2, <2>3, <2>4 DEF ShownInv, OnScreen
  <1>3. CASE FrameSkip
    BY <1>3 DEF FrameSkip, FrameStarts, NeedsRedraw, skipRender, ShownInv, OnScreen,
       PhaseInv, ioVars
  <1>4. CASE FrameHide
    BY <1>4 DEF FrameHide, ShownInv, ioVars
  <1>5. CASE FrameExit
    <2>1. /\ UNCHANGED <<windowWasHidden, screen, unframed, ioPc>>
          /\ allDraws' = Without(allDraws, Erased) /\ ioPc # "dedup"
      BY <1>5 DEF FrameExit, FrameStarts, PhaseInv, ioVars
    <2>2. \A k \in DOMAIN allDraws' : k \in DOMAIN allDraws /\ allDraws'[k] = allDraws[k]
      BY <2>1 DEF Without
    <2>3. QED
      BY <2>1, <2>2 DEF ShownInv, OnScreen
  <1>6. CASE Joined
    BY <1>6 DEF Joined, ShownInv, OnScreen
  <1>7. QED
    BY <1>2, <1>3, <1>4, <1>5, <1>6 DEF Frame

\* Every step keeps what is marked on the window.
LEMMA NextShown ==
    ASSUME Paced, Inv, PhaseInv, ShownInv, [Next]_vars
    PROVE  ShownInv'
  <1>1. CASE \E p \in Payloads : Receive(p)
    BY <1>1 DEF Receive, mainVars, ShownInv, OnScreen
  <1>2. CASE ParseItem \/ ParseFails \/ DropPayload \/ GoMerge \/ BuildThrows
    BY <1>2 DEF ParseItem, ParseFails, DropPayload, GoMerge, BuildThrows, mainVars,
       ShownInv, OnScreen
  <1>3. CASE DedupAdvance \/ Publish
    BY <1>3 DEF DedupAdvance, Publish, mainVars, ShownInv, OnScreen
  <1>4. CASE Wake \/ WakeAndCheck \/ LoseTransparency
    BY <1>4, WakeChanges DEF ioVars, ShownInv, OnScreen
  <1>5. CASE UNCHANGED vars
    BY <1>5 DEF vars, ioVars, mainVars, ShownInv, OnScreen
  <1>6. QED
    BY <1>1, <1>2, <1>3, <1>4, <1>5, MergeShown, DedupShown, FrameShown
       DEF Next, Network, Main

\* While the overlay is shown an item that is marked as rendered is on the
\* window, for plugins that wait for a frame between two payloads and whatever
\* the payloads hold (drawables.h:162-163, tcp_session.hpp:129-151).
THEOREM RenderedIsShown ==
    ASSUME Paced
    PROVE  Spec => []RenderedIsOnScreen
  <1> DEFINE IInv == Inv /\ PhaseInv /\ ShownInv
  <1>1. Init => IInv
    BY InitInv, InitPhase, InitShown
  <1>2. IInv /\ [Next]_vars => IInv'
    BY NextInv, NextPhase, NextShown
  <1>3. IInv => RenderedIsOnScreen
    BY DEF ShownInv, OnScreen, RenderedIsOnScreen
  <1>4. QED
    BY <1>1, <1>2, <1>3, PTL DEF Spec

-----------------------------------------------------------------------------
(* The keys of the items.                                                  *)

\* A key the AUTOID counter has already generated.
Generated(k) == \E i \in 1..(autoNext - 1) : k = AutoKeys[i]

\* Every item has a name or a generated key, and what is parsed replaces only
\* items with a name.
KeyInv ==
    /\ \A k \in DOMAIN allDraws \cup DOMAIN incoming : k \in Ids \/ Generated(k)
    /\ ioPc \in {"parse", "lock"} => DOMAIN incoming \cap DOMAIN allDraws \subseteq Ids

\* The elements that are not parsed yet are from a payload.
TodoInv ==
    /\ \A i \in 1..Len(todo) : \E p \in Payloads : \E j \in 1..Len(p) : todo[i] = p[j]
    /\ ioPc # "parse" => todo = <<>>

\* What the network thread stores for the first element of the payload.
HeadKey == IF Head(todo).id = NoId THEN AutoKeys[autoNext] ELSE Head(todo).id

\* The element that is parsed is a message of a payload; when it is stored its
\* key is a name, or the next generated one and new.
LEMMA HeadOfTodo ==
    ASSUME Inv, TodoInv, ParseItem
    PROVE  /\ Head(todo) \in Message /\ todo # <<>>
           /\ Head(todo) = todo[1] /\ 1 \in 1..Len(todo)
           /\ Head(todo).content # Blank \/ Head(todo).command # NoCommand =>
                Head(todo) \in Stored
           /\ Head(todo).id = NoId => autoNext \in 1..Len(AutoKeys)
           /\ HeadKey \in Keys
           /\ Head(todo).id # NoId => HeadKey \in Ids
           /\ Head(todo).id = NoId => HeadKey = AutoKeys[autoNext]
  <1>1. /\ todo \in Seq(Message \cup {Malformed}) /\ todo # <<>>
        /\ Head(todo) # Malformed /\ ioPc = "parse"
    BY DEF Inv, TypeOK, ParseItem
  <1>2. Head(todo) \in Message /\ Len(todo) \in Nat \ {0} /\ Head(todo) = todo[1]
    BY <1>1, HeadTailProperties, EmptySeq
  <1>3. 1 \in 1..Len(todo)
    BY <1>2
  <1>4. PICK p \in Payloads : \E j \in 1..Len(p) : Head(todo) = p[j]
    BY <1>2, <1>3 DEF TodoInv
  <1>5. Head(todo) \in UNION {{q[i] : i \in 1..Len(q)} : q \in Payloads}
    BY <1>4
  <1>6. Head(todo).content # Blank \/ Head(todo).command # NoCommand =>
          Head(todo) \in Stored
    <2> DEFINE m == Head(todo)
    <2>1. m \in (UNION {{q[i] : i \in 1..Len(q)} : q \in Payloads}) \ {Malformed}
      BY <1>1, <1>5
    <2> HIDE DEF m
    <2>2. m.content # Blank \/ m.command # NoCommand => m \in Stored
      BY <2>1 DEF Stored
    <2>3. QED
      BY <2>2 DEF m
  <1>7. autoNext \in 1..Len(AutoKeys)
    <2>1. Len(AutoKeys) \in Nat
      BY StoreAssumption, LenProperties
    <2>2. autoNext + Len(todo) <= Len(AutoKeys) + 1 /\ autoNext \in Nat \ {0}
      BY <1>1 DEF Inv, TypeOK, NetworkInv
    <2>3. QED
      BY <1>2, <2>1, <2>2
  <1>8. Head(todo).id # NoId => HeadKey \in Ids
    BY <1>2 DEF Message, HeadKey
  <1>9. Head(todo).id = NoId => HeadKey = AutoKeys[autoNext]
    BY DEF HeadKey
  <1>10. QED
    BY <1>1, <1>2, <1>3, <1>6, <1>7, <1>8, <1>9, AutoKeysAreKeys DEF Keys

\* ParseItem stores the item under its key, or nothing.
LEMMA ParsedItem ==
    ASSUME Inv, TodoInv, ParseItem
    PROVE  \/ /\ UNCHANGED <<incoming, autoNext>>
              /\ Head(todo).content = Blank /\ Head(todo).command = NoCommand
           \/ /\ Head(todo) \in Stored
              /\ DOMAIN incoming' = DOMAIN incoming \cup {HeadKey}
              /\ incoming'[HeadKey] = NewItem(Head(todo))
              /\ \A k \in DOMAIN incoming' \ {HeadKey} : incoming'[k] = incoming[k]
              /\ autoNext' = IF Head(todo).id = NoId THEN autoNext + 1 ELSE autoNext
  <1>1. CASE UNCHANGED <<incoming, autoNext>> /\ Head(todo).content = Blank
             /\ Head(todo).command = NoCommand
    BY <1>1
  <1>2. CASE /\ Head(todo).content # Blank \/ Head(todo).command # NoCommand
             /\ incoming' = [k \in DOMAIN incoming \cup {HeadKey} |->
                               IF k = HeadKey THEN NewItem(Head(todo)) ELSE incoming[k]]
             /\ autoNext' = IF Head(todo).id = NoId THEN autoNext + 1 ELSE autoNext
    BY <1>2, HeadOfTodo
  <1>3. QED
    BY <1>1, <1>2 DEF ParseItem, HeadKey

\* The elements of the rest of a payload are elements of the payload.
LEMMA TailOfTodo ==
    ASSUME Inv, todo # <<>>
    PROVE  /\ Len(todo) \in Nat \ {0} /\ Len(Tail(todo)) = Len(todo) - 1
           /\ \A i \in 1..Len(Tail(todo)) :
                i + 1 \in 1..Len(todo) /\ Tail(todo)[i] = todo[i + 1]
  <1>1. todo \in Seq(Message \cup {Malformed})
    BY DEF Inv, TypeOK
  <1>2. Len(todo) \in Nat \ {0} /\ Len(Tail(todo)) = Len(todo) - 1
    BY <1>1, HeadTailProperties, EmptySeq
  <1>3. \A i \in 1..Len(Tail(todo)) : Tail(todo)[i] = todo[i + 1]
    BY <1>1, HeadTailProperties
  <1>4. QED
    BY <1>2, <1>3

\* No keys and no payload initially.
LEMMA InitKeys == Init => KeyInv /\ TodoInv
  BY EmptySeq DEF Init, KeyInv, TodoInv, EmptyMap

\* The rest of a payload stays the rest of a payload.
LEMMA NextTodo ==
    ASSUME Inv, TodoInv, [Next]_vars
    PROVE  TodoInv'
  <1> USE DEF TodoInv
  <1>1. CASE \E p \in Payloads : Receive(p)
    BY <1>1 DEF Receive
  <1>2. CASE ParseItem
    <2>1. todo' = Tail(todo) /\ ioPc' = "parse" /\ todo # <<>>
      BY <1>2 DEF ParseItem
    <2>2. QED
      BY <2>1, TailOfTodo
  <1>3. CASE ParseFails
    BY <1>3, EmptySeq DEF ParseFails
  <1>4. CASE DropPayload \/ GoMerge \/ BuildThrows
    BY <1>4 DEF DropPayload, GoMerge, BuildThrows
  <1>5. CASE Merge \/ DedupAdvance \/ DedupEraseHere \/ DedupEraseDup \/ Publish
    BY <1>5 DEF Merge, DedupAdvance, DedupEraseHere, DedupEraseDup, Publish
  <1>6. CASE Wake \/ WakeAndCheck \/ LoseTransparency
    BY <1>6, WakeChanges DEF ioVars
  <1>7. CASE Frame \/ Joined
    BY <1>7 DEF Frame, FrameRedraw, FrameSkip, FrameHide, FrameExit, Joined, ioVars
  <1>8. CASE UNCHANGED vars
    BY <1>8 DEF vars, ioVars
  <1>9. QED
    BY <1>1, <1>2, <1>3, <1>4, <1>5, <1>6, <1>7, <1>8 DEF Next, Network, Main

\* A new key is the next generated one, so nothing in the map has it.
LEMMA ParseKeys ==
    ASSUME AutoKeysAreFresh, Inv, TodoInv, KeyInv, ParseItem
    PROVE  KeyInv'
  <1>1. UNCHANGED allDraws /\ ioPc = "parse" /\ autoNext \in Nat \ {0}
    BY DEF ParseItem, Inv, TypeOK
  <1>2. CASE UNCHANGED <<incoming, autoNext>>
    BY <1>1, <1>2 DEF KeyInv, Generated, ParseItem
  <1>3. CASE /\ DOMAIN incoming' = DOMAIN incoming \cup {HeadKey}
             /\ autoNext' = IF Head(todo).id = NoId THEN autoNext + 1 ELSE autoNext
    <2>1. \A k : Generated(k) => Generated(k)'
      BY <1>1, <1>3 DEF Generated
    <2>2. CASE Head(todo).id # NoId
      BY <1>1, <1>3, <2>1, <2>2, HeadOfTodo DEF KeyInv
    <2>3. CASE Head(todo).id = NoId
      <3>1. HeadKey = AutoKeys[autoNext] /\ autoNext \in 1..Len(AutoKeys)
        BY <2>3, HeadOfTodo
      <3>2. \E i \in 1..(autoNext' - 1) : HeadKey = AutoKeys[i]
        BY <1>1, <1>3, <2>3, <3>1
      <3>3. HeadKey \notin DOMAIN allDraws
        <4>1. HeadKey \notin Ids
          BY <3>1 DEF AutoKeysAreFresh
        <4>2. ~Generated(HeadKey)
          <5>1. SUFFICES ASSUME NEW i \in 1..(autoNext - 1), HeadKey = AutoKeys[i]
                         PROVE  FALSE
            BY DEF Generated
          <5>2. i \in 1..Len(AutoKeys) /\ i # autoNext
            <6>1. Len(AutoKeys) \in Nat
              BY StoreAssumption, LenProperties
            <6>2. QED
              BY <1>1, <3>1, <6>1
          <5>3. QED
            BY <3>1, <5>1, <5>2 DEF AutoKeysAreFresh
        <4>3. QED
          BY <4>1, <4>2 DEF KeyInv
      <3>4. QED
        <4>1. \A k \in DOMAIN allDraws' \cup DOMAIN incoming' : k \in Ids \/ Generated(k)'
          BY <1>1, <1>3, <2>1, <3>2 DEF KeyInv, Generated
        <4>2. DOMAIN incoming' \cap DOMAIN allDraws' \subseteq Ids
          BY <1>1, <1>3, <3>3 DEF KeyInv
        <4>3. QED
          BY <4>1, <4>2 DEF KeyInv
    <2>4. QED
      BY <2>2, <2>3
  <1>4. QED
    BY <1>2, <1>3, ParsedItem

\* Every step keeps the keys apart.
LEMMA NextKeys ==
    ASSUME AutoKeysAreFresh, Inv, PhaseInv, TodoInv, KeyInv, [Next]_vars
    PROVE  KeyInv'
  <1> USE DEF KeyInv, Generated
  <1>1. CASE \E p \in Payloads : Receive(p)
    BY <1>1 DEF Receive, PhaseInv
  <1>2. CASE ParseFails \/ DropPayload
    BY <1>2 DEF ParseFails, DropPayload, EmptyMap
  <1>3. CASE GoMerge \/ BuildThrows \/ DedupAdvance
    BY <1>3 DEF GoMerge, BuildThrows, DedupAdvance
  <1>4. CASE Merge
    <2>1. DOMAIN incoming' = DOMAIN incoming \cup DOMAIN allDraws
      BY <1>4, MergedIsMap DEF Merge, Inv, TypeOK
    <2>2. QED
      BY <1>4, <2>1 DEF Merge, EmptyMap
  <1>5. CASE DedupEraseHere \/ DedupEraseDup
    <2>1. DOMAIN incoming' \subseteq DOMAIN incoming
      BY <1>5, ErasureOfTwin DEF Erasure
    <2>2. QED
      BY <1>5, <2>1 DEF DedupEraseHere, DedupEraseDup
  <1>6. CASE Publish
    BY <1>6 DEF Publish, EmptyMap
  <1>7. CASE Wake \/ WakeAndCheck \/ LoseTransparency
    BY <1>7, WakeChanges DEF ioVars
  <1>8. CASE Frame \/ Joined
    <2>1. DOMAIN allDraws' \subseteq DOMAIN allDraws
      BY <1>8, FrameItems DEF PartOf, Inv, TypeOK
    <2>2. UNCHANGED <<incoming, autoNext>> /\ (ioPc' = ioPc \/ ioPc' = "ended")
      BY <1>8 DEF Frame, FrameRedraw, FrameSkip, FrameHide, FrameExit, Joined, ioVars
    <2>3. QED
      BY <2>1, <2>2
  <1>9. CASE UNCHANGED vars
    BY <1>9 DEF vars, ioVars
  <1> HIDE DEF KeyInv, Generated
  <1>10. QED
    BY <1>1, <1>2, <1>3, <1>4, <1>5, <1>6, <1>7, <1>8, <1>9, ParseKeys
       DEF Next, Network, Main

-----------------------------------------------------------------------------
(* What is on the window is in the map.                                    *)

\* The picture of a name is the one its messages have.
PictureInv ==
    \A k \in Ids :
      /\ k \in DOMAIN allDraws =>
           \E m \in Stored : m.id = k /\ m.content = allDraws[k].content
      /\ k \in DOMAIN incoming =>
           \E m \in Stored : m.id = k /\ m.content = incoming[k].content

\* While the overlay is shown the window has no picture that is not in the
\* map, or in the network thread's hands while it holds the mutex.  The banner
\* is the exception: it stays until the first redraw.
ScreenInv ==
    ~windowWasHidden /\ mainPc \in {"sleep", "frame"} /\ screen # {Banner} =>
        /\ ioPc \notin {"dedup", "crashed"} => screen \subseteq ContentsOf(allDraws)
        /\ ioPc = "dedup" => screen \subseteq ContentsOf(incoming)

\* No names, and the banner on the window, initially.
LEMMA InitPictures == Init => PictureInv /\ ScreenInv
  BY DEF Init, PictureInv, ScreenInv, EmptyMap

\* The pictures of a part of a map.
LEMMA PartKeepsPictures ==
    ASSUME PartOf(allDraws', allDraws), PartOf(incoming', incoming), PictureInv
    PROVE  PictureInv'
  BY DEF PartOf, SameItem, PictureInv

\* The picture of a parsed name is that of its message.
LEMMA ParsePictures ==
    ASSUME AutoKeysAreFresh, Inv, TodoInv, PictureInv, ParseItem
    PROVE  PictureInv'
  <1>1. UNCHANGED allDraws
    BY DEF ParseItem
  <1>2. CASE UNCHANGED incoming
    BY <1>1, <1>2 DEF PictureInv
  <1>3. CASE /\ Head(todo) \in Stored
             /\ DOMAIN incoming' = DOMAIN incoming \cup {HeadKey}
             /\ incoming'[HeadKey] = NewItem(Head(todo))
             /\ \A k \in DOMAIN incoming' \ {HeadKey} : incoming'[k] = incoming[k]
    <2>1. ASSUME NEW k \in Ids, k \in DOMAIN incoming'
          PROVE  \E m \in Stored : m.id = k /\ m.content = incoming'[k].content
      <3>1. CASE k # HeadKey
        BY <1>3, <2>1, <3>1 DEF PictureInv
      <3>2. CASE k = HeadKey /\ Head(todo).id # NoId
        <4>1. Head(todo).id = k
          BY <3>2 DEF HeadKey
        <4>2. incoming'[k].content = Head(todo).content
          BY <1>3, <3>2 DEF NewItem
        <4>3. QED
          BY <1>3, <4>1, <4>2
      <3>3. CASE k = HeadKey /\ Head(todo).id = NoId
        BY <3>3, HeadOfTodo DEF AutoKeysAreFresh
      <3>4. QED
        BY <3>1, <3>2, <3>3
    <2>2. QED
      BY <1>1, <2>1 DEF PictureInv
  <1>4. QED
    BY <1>2, <1>3, ParsedItem

\* Every step keeps the pictures of the names.
LEMMA NextPictures ==
    ASSUME AutoKeysAreFresh, Inv, PhaseInv, TodoInv, PictureInv, [Next]_vars
    PROVE  PictureInv'
  <1>1. PartOf(allDraws, allDraws) /\ PartOf(incoming, incoming)
    BY DEF PartOf, SameItem
  <1>2. CASE UNCHANGED <<allDraws, incoming>>
    BY <1>2 DEF PictureInv
  <1>3. CASE ParseFails \/ DropPayload
    BY <1>3 DEF ParseFails, DropPayload, PictureInv, EmptyMap
  <1>4. CASE Merge
    <2>1. allDraws' = EmptyMap /\ incoming' = Merged
      BY <1>4 DEF Merge
    <2>2. \A k \in DOMAIN Merged :
            \/ k \in DOMAIN incoming /\ Merged[k].content = incoming[k].content
            \/ k \in DOMAIN allDraws /\ Merged[k].content = allDraws[k].content
      BY MergedItems DEF Inv, TypeOK, SameItem
    <2>3. QED
      BY <2>1, <2>2 DEF PictureInv, EmptyMap
  <1>5. CASE DedupEraseHere \/ DedupEraseDup
    <2>1. UNCHANGED allDraws
      BY <1>5 DEF DedupEraseHere, DedupEraseDup
    <2>2. PartOf(incoming', incoming)
      BY <1>5, ErasureOfTwin DEF Erasure
    <2>3. QED
      BY <1>1, <2>1, <2>2, PartKeepsPictures
  <1>6. CASE Publish
    BY <1>6 DEF Publish, EmptyMap, PictureInv
  <1>7. CASE Frame \/ Joined
    <2>1. PartOf(allDraws', allDraws)
      BY <1>7, FrameItems DEF Inv, TypeOK
    <2>2. UNCHANGED incoming
      BY <1>7 DEF Frame, FrameRedraw, FrameSkip, FrameHide, FrameExit, Joined, ioVars
    <2>3. QED
      BY <1>1, <2>1, <2>2, PartKeepsPictures
  <1>8. QED
    <2>1. CASE (\E p \in Payloads : Receive(p)) \/ GoMerge \/ BuildThrows \/ DedupAdvance
      BY <1>2, <2>1 DEF Receive, GoMerge, BuildThrows, DedupAdvance
    <2>2. CASE Wake \/ WakeAndCheck \/ LoseTransparency
      BY <1>2, <2>2, WakeChanges DEF ioVars
    <2>3. CASE UNCHANGED vars
      BY <1>2, <2>3 DEF vars, ioVars
    <2>4. QED
      BY <1>3, <1>4, <1>5, <1>6, <1>7, <2>1, <2>2, <2>3, ParsePictures
         DEF Next, Network, Main

\* What is drawn stays in the merged map: the item a message replaces has a
\* name, and so the same picture.
LEMMA MergeScreen ==
    ASSUME NamesKeepPictures, Inv, KeyInv, PictureInv, ScreenInv, Merge
    PROVE  ScreenInv'
  <1>1. /\ UNCHANGED <<windowWasHidden, mainPc, screen>> /\ incoming' = Merged
        /\ ioPc = "lock" /\ ioPc' = "dedup"
    BY DEF Merge, mainVars
  <1>2. ASSUME NEW k \in DOMAIN allDraws
        PROVE  k \in DOMAIN Merged /\ Merged[k].content = allDraws[k].content
    <2>1. k \in DOMAIN Merged
      BY MergedIsMap DEF Inv, TypeOK
    <2>2. CASE k \in DOMAIN incoming
      <3>1. k \in Ids
        BY <1>1, <2>2 DEF KeyInv
      <3>2. PICK m \in Stored : m.id = k /\ m.content = allDraws[k].content
        BY <3>1 DEF PictureInv
      <3>3. PICK n \in Stored : n.id = k /\ n.content = incoming[k].content
        BY <2>2, <3>1 DEF PictureInv
      <3>4. k # NoId
        BY <3>1, StoreAssumption DEF NoId
      <3>5. m.content = n.content
        BY <3>2, <3>3, <3>4 DEF NamesKeepPictures
      <3>6. Merged[k].content = incoming[k].content
        BY <2>1, <2>2, MergedItems DEF Inv, TypeOK, SameItem
      <3>7. QED
        BY <2>1, <3>2, <3>3, <3>5, <3>6
    <2>3. CASE k \notin DOMAIN incoming
      BY <2>1, <2>3, MergedItems DEF Inv, TypeOK
    <2>4. QED
      BY <2>2, <2>3
  <1>3. ContentsOf(allDraws) \subseteq ContentsOf(incoming')
    BY <1>1, <1>2 DEF ContentsOf
  <1>4. QED
    BY <1>1, <1>3 DEF ScreenInv

\* An erased item leaves its picture behind, under another key.
LEMMA DedupScreen ==
    ASSUME Inv, ScreenInv, DedupEraseHere \/ DedupEraseDup
    PROVE  ScreenInv'
  <1>1. /\ UNCHANGED <<windowWasHidden, mainPc, screen>>
        /\ ioPc = "dedup" /\ ioPc' \in {"dedup", "crashed"}
    BY DEF DedupEraseHere, DedupEraseDup, mainVars
  <1>2. PICK stays, gone : Erasure(stays, gone)
    BY ErasureOfTwin
  <1>3. ASSUME NEW k \in DOMAIN incoming
        PROVE  incoming[k].content \in ContentsOf(incoming')
    <2>1. stays \in DOMAIN incoming'
          /\ incoming'[stays].content = incoming[stays].content
      BY <1>2 DEF Erasure, PartOf, SameItem
    <2>2. CASE k = gone
      BY <1>2, <2>1, <2>2 DEF Erasure, ContentsOf
    <2>3. CASE k # gone
      <3>1. k \in DOMAIN incoming' /\ incoming'[k].content = incoming[k].content
        BY <1>2, <2>3 DEF Erasure, PartOf, SameItem
      <3>2. QED
        BY <3>1 DEF ContentsOf
    <2>4. QED
      BY <2>2, <2>3
  <1>4. ContentsOf(incoming) \subseteq ContentsOf(incoming')
    BY <1>3 DEF ContentsOf
  <1>5. QED
    BY <1>1, <1>4 DEF ScreenInv

\* A frame draws the items it leaves in the map, or the window is hidden.
LEMMA FrameScreenInv ==
    ASSUME Inv, PhaseInv, ScreenInv, Frame \/ Joined
    PROVE  ScreenInv'
  <1>1. CASE FrameRedraw
    <2>1. ioPc # "dedup" /\ ioPc' = ioPc
      BY <1>1 DEF FrameRedraw, FrameStarts, PhaseInv, ioVars
    <2>2. PartOf(allDraws', allDraws) /\ DOMAIN allDraws' = DOMAIN allDraws \ Erased
      BY <1>1, FrameItems DEF Frame, Inv, TypeOK, FrameRedraw
    <2>3. screen' = {allDraws[k].content : k \in DOMAIN allDraws'}
      BY <1>1, <2>2 DEF FrameRedraw, Drawn, ContentsOf, Without
    <2>4. screen' \subseteq ContentsOf(allDraws')
      BY <2>2, <2>3 DEF PartOf, SameItem, ContentsOf
    <2>5. QED
      BY <2>1, <2>4 DEF ScreenInv
  <1>2. CASE FrameSkip
    BY <1>2 DEF FrameSkip, FrameStarts, NeedsRedraw, ScreenInv, ioVars
  <1>3. CASE FrameHide
    BY <1>3 DEF FrameHide, ScreenInv
  <1>4. CASE FrameExit
    BY <1>4 DEF FrameExit, ScreenInv
  <1>5. CASE Joined
    BY <1>5 DEF Joined, ScreenInv
  <1>6. QED
    BY <1>1, <1>2, <1>3, <1>4, <1>5 DEF Frame

\* Every step keeps the window within the map.
LEMMA NextScreen ==
    ASSUME NamesKeepPictures, Inv, PhaseInv, KeyInv, PictureInv, ScreenInv, [Next]_vars
    PROVE  ScreenInv'
  <1>1. CASE /\ UNCHANGED <<windowWasHidden, mainPc, screen, allDraws>>
             /\ ioPc # "dedup" /\ ioPc' # "dedup" /\ ioPc # "crashed"
    BY <1>1 DEF ScreenInv
  <1>2. CASE \/ \E p \in Payloads : Receive(p)
             \/ ParseItem \/ ParseFails \/ DropPayload \/ GoMerge \/ BuildThrows
    BY <1>1, <1>2 DEF Receive, ParseItem, ParseFails, DropPayload, GoMerge, BuildThrows,
       mainVars
  <1>3. CASE DedupAdvance
    BY <1>3 DEF DedupAdvance, mainVars, ScreenInv
  <1>4. CASE Publish
    BY <1>4 DEF Publish, mainVars, ScreenInv
  <1>5. CASE Wake \/ WakeAndCheck \/ LoseTransparency
    BY <1>5, WakeChanges DEF ioVars, ScreenInv
  <1>6. CASE UNCHANGED vars
    BY <1>6 DEF vars, ioVars, mainVars, ScreenInv
  <1>7. QED
    BY <1>2, <1>3, <1>4, <1>5, <1>6, MergeScreen, DedupScreen, FrameScreenInv
       DEF Next, Network, Main

\* A map whose items are all rendered shows its pictures, and with no other on
\* the window the two are the same; the banner alone is no picture of an item.
LEMMA ScreenIsMap ==
    ASSUME Inv, ShownInv, ScreenInv
    PROVE  ScreenMatchesItems
  <1>1. SUFFICES ASSUME mainPc = "sleep", ~unframed, ~windowWasHidden,
                        ioPc \notin {"dedup", "crashed"}
                 PROVE  \/ screen = ContentsOf(allDraws)
                        \/ screen = {Banner} /\ DOMAIN allDraws = {}
    BY DEF ScreenMatchesItems
  <1>2. \A k \in DOMAIN allDraws : allDraws[k].content \in screen
    BY <1>1 DEF ShownInv, OnScreen
  <1>3. ContentsOf(allDraws) \subseteq screen
    BY <1>2 DEF ContentsOf
  <1>4. CASE screen = {Banner}
    <2>1. ContentsOf(allDraws) \subseteq Contents \cup {Blank}
      BY ContentsOfMap DEF Inv, TypeOK
    <2>2. ASSUME NEW k \in DOMAIN allDraws
          PROVE  FALSE
      BY <1>2, <1>4, <2>1, StoreAssumption DEF ContentsOf
    <2>3. QED
      BY <1>4, <2>2
  <1>5. CASE screen # {Banner}
    BY <1>1, <1>3, <1>5 DEF ScreenInv
  <1>6. QED
    BY <1>4, <1>5

\* After a frame the window shows exactly the items of the map, none of the
\* old ones and all of the new: for plugins that wait for a frame and give a
\* name always the same picture (main.cpp:152-231).
THEOREM ScreenIsExact ==
    ASSUME Paced, NamesKeepPictures, AutoKeysAreFresh
    PROVE  Spec => []ScreenMatchesItems
  <1> DEFINE IInv == /\ Inv /\ PhaseInv /\ ShownInv /\ KeyInv /\ TodoInv
                     /\ PictureInv /\ ScreenInv
  <1>1. Init => IInv
    BY InitInv, InitPhase, InitShown, InitKeys, InitPictures
  <1>2. IInv /\ [Next]_vars => IInv'
    BY NextInv, NextPhase, NextShown, NextKeys, NextTodo, NextPictures, NextScreen
  <1>3. IInv => ScreenMatchesItems
    BY ScreenIsMap
  <1>4. QED
    BY <1>1, <1>2, <1>3, PTL DEF Spec

-----------------------------------------------------------------------------
(* The duplicate search finds every twin, when a payload holds one item.   *)

\* Two elements of a map with the same picture, the first of them first.
Pair(map, i, j) == /\ i \in DOMAIN map /\ j \in DOMAIN map /\ i < j
                   /\ map[i].content = map[j].content

\* All items of a map are under one key.
OneKey(map) == \A i, j \in DOMAIN map : i = j

\* The search erases one twin and moves on, so it could miss a third.  With one
\* new item and no twins before there is one pair at most, and it is not behind
\* the iterator: the search never passes the first of the two.
TwinInv ==
    /\ NoTwinsInStore
    /\ ioPc = "parse" => \/ Len(todo) <= 1 /\ DOMAIN incoming = {}
                         \/ todo = <<>> /\ OneKey(incoming)
    /\ ioPc = "lock" => OneKey(incoming)
    /\ ioPc = "dedup" =>
         \A i, j \in DOMAIN incoming : Pair(incoming, i, j) =>
           /\ iter <= i
           /\ \A k, l \in DOMAIN incoming : Pair(incoming, k, l) => k = i /\ l = j

\* No twins initially.
LEMMA InitTwins == Init => TwinInv
  BY DEF Init, TwinInv, NoTwinsInStore, EmptyMap

\* A part of a map without twins has none.
LEMMA PartHasNoTwins ==
    ASSUME NoTwinsInStore, PartOf(allDraws', allDraws)
    PROVE  NoTwinsInStore'
  BY DEF NoTwinsInStore, PartOf, SameItem

\* The payload's only element is parsed: one item.
LEMMA ParseTwins ==
    ASSUME Inv, TodoInv, TwinInv, ParseItem
    PROVE  TwinInv'
  <1>1. ioPc = "parse" /\ todo # <<>> /\ UNCHANGED <<allDraws, ioPc>> /\ todo' = Tail(todo)
    BY DEF ParseItem
  <1>2. Len(todo) <= 1 /\ DOMAIN incoming = {}
    BY <1>1 DEF TwinInv
  <1>3. todo' = <<>>
    <2>1. Len(Tail(todo)) = 0
      BY <1>1, <1>2, TailOfTodo
    <2>2. Tail(todo) \in Seq(Message \cup {Malformed})
      BY <1>1, HeadTailProperties DEF Inv, TypeOK
    <2>3. QED
      BY <1>1, <2>1, <2>2, EmptySeq
  <1>4. OneKey(incoming')
    BY <1>2, ParsedItem DEF OneKey
  <1>5. QED
    BY <1>1, <1>3, <1>4 DEF TwinInv, NoTwinsInStore

\* Every pair in the merged map is the new item and the one with its picture.
LEMMA MergeTwins ==
    ASSUME Inv, TwinInv, Merge
    PROVE  TwinInv'
  <1> DEFINE m == Merged
  <1>1. /\ OneKey(incoming) /\ NoTwinsInStore /\ ioPc' = "dedup"
        /\ incoming' = m /\ DOMAIN allDraws' = {} /\ iter' = Least(DOMAIN m)
    BY DEF Merge, TwinInv, EmptyMap
  <1>2. DOMAIN m \subseteq Nat
    BY MergedIsMap, KeysAreNat DEF Inv, TypeOK, IsMap
  <1>3. ASSUME NEW i \in DOMAIN m, i \notin DOMAIN incoming
        PROVE  i \in DOMAIN allDraws /\ m[i] = allDraws[i]
    BY <1>3, MergedItems DEF Inv, TypeOK
  <1> HIDE DEF m
  <1>4. ASSUME NEW i \in DOMAIN m, NEW j \in DOMAIN m,
               i \notin DOMAIN incoming, j \notin DOMAIN incoming,
               m[i].content = m[j].content
        PROVE  i = j
    BY <1>1, <1>3, <1>4 DEF NoTwinsInStore
  <1>5. ASSUME NEW i \in DOMAIN m, NEW j \in DOMAIN m, Pair(m, i, j),
               NEW k \in DOMAIN m, NEW l \in DOMAIN m, Pair(m, k, l)
        PROVE  k = i /\ l = j
    <2>1. i < j /\ k < l /\ i \in Nat /\ j \in Nat /\ k \in Nat /\ l \in Nat
      BY <1>2, <1>5 DEF Pair
    <2>2. m[i].content = m[j].content /\ m[k].content = m[l].content
      BY <1>5 DEF Pair
    <2>3. PICK x \in {i, j} : x \in DOMAIN incoming
      BY <1>4, <2>1, <2>2
    <2>4. PICK y \in {k, l} : y \in DOMAIN incoming
      BY <1>4, <2>1, <2>2
    <2>5. x = y /\ \A z \in DOMAIN incoming : z = x
      BY <1>1, <2>3, <2>4 DEF OneKey
    <2>6. PICK v \in {i, j} : v # x /\ {i, j} = {x, v}
      BY <2>1
    <2>7. PICK w \in {k, l} : w # x /\ {k, l} = {x, w}
      BY <2>1, <2>5
    <2>8. v \notin DOMAIN incoming /\ w \notin DOMAIN incoming
      BY <2>5, <2>6, <2>7
    <2>9. m[v].content = m[w].content
      BY <2>2, <2>5, <2>6, <2>7
    <2>10. v = w
      BY <1>4, <2>6, <2>7, <2>8, <2>9
    <2>11. QED
      BY <2>1, <2>6, <2>7, <2>10
  <1>6. \A i \in DOMAIN m : Least(DOMAIN m) <= i
    BY <1>2, LeastInSet
  <1>7. QED
    BY <1>1, <1>5, <1>6 DEF TwinInv, NoTwinsInStore

\* The iterator moves on only when its element has no twin.
LEMMA AdvanceTwins ==
    ASSUME Inv, TwinInv, DedupAdvance
    PROVE  TwinInv'
  <1>1. /\ ioPc = "dedup" /\ UNCHANGED <<allDraws, incoming, ioPc>>
        /\ After(iter, incoming) # {} /\ Twins = {}
        /\ iter' = Least(After(iter, incoming))
    BY DEF DedupAdvance
  <1>2. After(iter, incoming) \subseteq Nat /\ DOMAIN incoming \subseteq Nat
    BY AfterAreKeys, KeysAreNat DEF Inv, TypeOK, IsMap
  <1>3. iter \in DOMAIN incoming
    BY <1>1 DEF Inv, NetworkInv
  <1>4. ASSUME NEW i \in DOMAIN incoming, NEW j \in DOMAIN incoming, Pair(incoming, i, j)
        PROVE  iter' <= i
    <2>1. iter <= i
      BY <1>1, <1>4 DEF TwinInv
    <2>2. i # iter
      BY <1>1, <1>4 DEF Pair, Twins, After
    <2>3. i \in After(iter, incoming)
      BY <1>2, <1>3, <2>1, <2>2 DEF After
    <2>4. QED
      BY <1>1, <1>2, <2>3, LeastInSet
  <1>5. QED
    BY <1>1, <1>4 DEF TwinInv, NoTwinsInStore

\* With one of the only two twins gone there is none.
LEMMA DedupTwins ==
    ASSUME Inv, TwinInv, DedupEraseHere \/ DedupEraseDup
    PROVE  TwinInv'
  <1>1. /\ ioPc = "dedup" /\ UNCHANGED <<allDraws, todo>> /\ ioPc' \in {"dedup", "crashed"}
    BY DEF DedupEraseHere, DedupEraseDup
  <1>2. PICK stays, gone : /\ Erasure(stays, gone)
                           /\ \/ Pair(incoming, stays, gone)
                              \/ Pair(incoming, gone, stays)
    <2>1. CASE DedupEraseHere
      BY <2>1, ErasureOfTwin DEF Pair, Erasure
    <2>2. CASE DedupEraseDup
      BY <2>2, ErasureOfTwin DEF Pair, Erasure
    <2>3. QED
      BY <2>1, <2>2
  <1>3. ASSUME NEW i, NEW j, Pair(incoming', i, j)
        PROVE  FALSE
    <2>1. Pair(incoming, i, j) /\ i # gone /\ j # gone
      BY <1>2, <1>3 DEF Pair, Erasure, PartOf, SameItem
    <2>2. QED
      BY <1>1, <1>2, <2>1 DEF TwinInv, Pair
  <1>4. QED
    BY <1>1, <1>3 DEF TwinInv, NoTwinsInStore

\* At the end no pair is left in front of the iterator, so there is none.
LEMMA PublishTwins ==
    ASSUME Inv, TwinInv, Publish
    PROVE  TwinInv'
  <1>1. /\ ioPc = "dedup" /\ ioPc' = "read" /\ allDraws' = incoming
        /\ After(iter, incoming) = {}
    BY DEF Publish
  <1>2. DOMAIN incoming \subseteq Nat /\ iter \in DOMAIN incoming
    BY <1>1, KeysAreNat DEF Inv, TypeOK, NetworkInv, IsMap
  <1>3. ASSUME NEW i \in DOMAIN incoming, NEW j \in DOMAIN incoming,
               incoming[i].content = incoming[j].content, i < j
        PROVE  FALSE
    <2>1. iter <= i
      BY <1>1, <1>3 DEF TwinInv, Pair
    <2>2. j \in After(iter, incoming)
      BY <1>2, <1>3, <2>1 DEF After
    <2>3. QED
      BY <1>1, <2>2
  <1>4. NoTwinsInStore'
    BY <1>1, <1>2, <1>3 DEF NoTwinsInStore
  <1>5. QED
    BY <1>1, <1>4 DEF TwinInv

\* Every step keeps twins out of the map.
LEMMA NextTwins ==
    ASSUME OneItemEach, Inv, PhaseInv, TodoInv, TwinInv, [Next]_vars
    PROVE  TwinInv'
  <1> USE DEF TwinInv
  <1>1. CASE \E p \in Payloads : Receive(p)
    BY <1>1 DEF Receive, OneItemEach, PhaseInv, NoTwinsInStore
  <1>2. CASE ParseFails \/ DropPayload \/ BuildThrows
    BY <1>2 DEF ParseFails, DropPayload, BuildThrows, NoTwinsInStore
  <1>3. CASE GoMerge
    BY <1>3 DEF GoMerge, NoTwinsInStore
  <1>4. CASE Wake \/ WakeAndCheck \/ LoseTransparency
    BY <1>4, WakeChanges DEF ioVars, NoTwinsInStore
  <1>5. CASE Frame \/ Joined
    <2>1. PartOf(allDraws', allDraws)
      BY <1>5, FrameItems DEF Inv, TypeOK
    <2>2. /\ UNCHANGED <<incoming, todo, iter>>
          /\ ioPc' = ioPc \/ ioPc' = "ended"
      BY <1>5 DEF Frame, FrameRedraw, FrameSkip, FrameHide, FrameExit, Joined, ioVars
    <2>3. QED
      BY <2>1, <2>2, PartHasNoTwins
  <1>6. CASE UNCHANGED vars
    BY <1>6 DEF vars, ioVars, NoTwinsInStore
  <1> HIDE DEF TwinInv
  <1>7. QED
    BY <1>1, <1>2, <1>3, <1>4, <1>5, <1>6, ParseTwins, MergeTwins, AdvanceTwins,
       DedupTwins, PublishTwins DEF Next, Network, Main

\* removeRenamedDuplicates leaves no picture in the map under two names, when
\* plugins send one item in a message (tcp_session.hpp:156-184).
THEOREM StoreHasNoTwins ==
    ASSUME OneItemEach
    PROVE  Spec => []NoTwinsInStore
  <1> DEFINE IInv == Inv /\ PhaseInv /\ TodoInv /\ TwinInv
  <1>1. Init => IInv
    BY InitInv, InitPhase, InitTwins, EmptySeq DEF Init, TodoInv
  <1>2. IInv /\ [Next]_vars => IInv'
    BY NextInv, NextPhase, NextTodo, NextTwins
  <1>3. IInv => NoTwinsInStore
    BY DEF TwinInv
  <1>4. QED
    BY <1>1, <1>2, <1>3, PTL DEF Spec

-----------------------------------------------------------------------------
(* The last toggle is the one that is executed.                            *)

\* The keys of the pure commands of a map.
Blanks(map) == {k \in DOMAIN map : map[k].content = Blank}

\* Pure commands are toggles and have a generated key.
PureIn(map) == \A k \in DOMAIN map : /\ map[k].content = Blank <=> map[k].command \in Toggles
                                     /\ map[k].content = Blank => k \notin Ids

\* An element of a payload that is a toggle.
IsToggle(m) == m # Malformed /\ m.command \in Toggles

\* The last toggle received has been executed.
ToggleServed == commandHideLayer <=> lastToggle = "overlay_off"

\* What was published is older than what is parsed.
AgeInv ==
    /\ \A k \in DOMAIN allDraws : allDraws[k].created < now
    /\ \A k \in DOMAIN incoming : incoming[k].created < now
    /\ ioPc \in {"parse", "lock"} =>
         \A k \in DOMAIN allDraws, j \in DOMAIN incoming :
           allDraws[k].created < incoming[j].created

\* The toggle a payload brings comes alone, parsed or still to be parsed.
ParseToggleInv ==
    /\ ioPc = "parse" =>
         /\ \A i, j \in 1..Len(todo) : IsToggle(todo[i]) /\ IsToggle(todo[j]) => i = j
         /\ Blanks(incoming) # {} => \A i \in 1..Len(todo) : ~IsToggle(todo[i])
    /\ ioPc \in {"parse", "lock"} => \A i, j \in Blanks(incoming) : i = j

\* During the duplicate search there are two toggles at most, the older one
\* from the map, and the search has not passed the first.
DedupToggleInv ==
    ioPc = "dedup" =>
      /\ \A i, j \in Blanks(incoming) : i < j =>
           /\ iter <= i
           /\ \A k \in Blanks(incoming) : k = i \/ k = j
      /\ \A i, j \in Blanks(incoming) :
           incoming[i].created = incoming[j].created => i = j
      /\ \A k \in Blanks(incoming) :
           (\A j \in Blanks(incoming) : incoming[j].created <= incoming[k].created) =>
             incoming[k].command = lastToggle
      /\ Blanks(incoming) = {} /\ mainPc \in {"sleep", "frame"} => ToggleServed

\* The map has one toggle at most, the last one received; without one the last
\* has been executed.
StoreToggleInv ==
    /\ \A i, j \in Blanks(allDraws) : i = j
    /\ \A k \in Blanks(allDraws) : allDraws[k].command = lastToggle
    /\ /\ Blanks(allDraws) = {} /\ ioPc \notin {"dedup", "crashed"}
       /\ mainPc \in {"sleep", "frame"}
       => ToggleServed

ToggleInv == /\ PureIn(allDraws) /\ PureIn(incoming) /\ AgeInv
             /\ ParseToggleInv /\ DedupToggleInv /\ StoreToggleInv

\* No toggle is waiting initially, and the overlay is shown.
LEMMA InitToggles == Init => ToggleInv
  BY EmptySeq DEF Init, ToggleInv, PureIn, AgeInv, ParseToggleInv, DedupToggleInv,
     StoreToggleInv, ToggleServed, Blanks, EmptyMap

\* A part of a map that keeps its pure commands apart does so, too.
LEMMA PartIsPure ==
    ASSUME NEW map, NEW old, PartOf(map, old), PureIn(old)
    PROVE  /\ PureIn(map)
           /\ Blanks(map) = Blanks(old) \cap DOMAIN map
           /\ \A k \in DOMAIN map : /\ map[k].command = old[k].command
                                    /\ map[k].created = old[k].created
                                    /\ map[k].content = old[k].content
  BY DEF PartOf, SameItem, PureIn, Blanks

\* Pure commands are created at instants.
LEMMA CreatedIsInt ==
    ASSUME NEW map, IsMap(map), NEW k \in DOMAIN map
    PROVE  map[k].created \in Nat /\ map[k].command \in Commands \cup {NoCommand}
           /\ map[k].content \in Contents \cup {Blank}
  BY DEF IsMap, Item

\* A payload brings one toggle at most.
LEMMA ReceiveToggles ==
    ASSUME TogglesArePlain, Inv, PhaseInv, ToggleInv, NEW p \in Payloads, Receive(p)
    PROVE  ToggleInv'
  <1>1. /\ UNCHANGED <<allDraws, incoming, iter, mainPc, commandHideLayer, lastToggle, now>>
        /\ ioPc = "read" /\ ioPc' = "parse" /\ todo' = p /\ DOMAIN incoming = {}
    BY DEF Receive, mainVars, PhaseInv
  <1>2. \A i, j \in 1..Len(p) : IsToggle(p[i]) /\ IsToggle(p[j]) => i = j
    BY DEF TogglesArePlain, IsToggle
  <1>3. ParseToggleInv'
    BY <1>1, <1>2 DEF ParseToggleInv, Blanks, IsToggle
  <1>4. PureIn(allDraws)' /\ PureIn(incoming)' /\ AgeInv'
    BY <1>1 DEF ToggleInv, PureIn, AgeInv
  <1>5. DedupToggleInv' /\ StoreToggleInv'
    BY <1>1 DEF ToggleInv, DedupToggleInv, StoreToggleInv, Blanks, ToggleServed
  <1>6. QED
    BY <1>3, <1>4, <1>5 DEF ToggleInv

\* A stored toggle gets a new key, and is newer than everything in the map.
LEMMA ParseToggles ==
    ASSUME TogglesArePlain, AutoKeysAreFresh, Inv, TodoInv, KeyInv, ToggleInv, ParseItem
    PROVE  ToggleInv'
  <1> DEFINE m == Head(todo)
  <1>1. /\ UNCHANGED <<allDraws, iter, ioPc, mainPc, commandHideLayer, lastToggle>>
        /\ ioPc = "parse" /\ todo' = Tail(todo) /\ now' = now + 1 /\ now \in Nat
        /\ todo # <<>> /\ IsMap(allDraws) /\ IsMap(incoming)
    BY DEF ParseItem, mainVars, Inv, TypeOK
  <1>2. /\ m \in Message /\ m # Malformed /\ m = todo[1] /\ 1 \in 1..Len(todo)
        /\ m.id = NoId => HeadKey \notin Ids
    BY HeadOfTodo DEF ParseItem, AutoKeysAreFresh
  <1>3. \A i \in 1..Len(Tail(todo)) :
          i + 1 \in 1..Len(todo) /\ Tail(todo)[i] = todo[i + 1] /\ i + 1 # 1
    <2>1. Len(Tail(todo)) \in Nat
      BY <1>1, TailOfTodo
    <2>2. QED
      BY <1>1, <2>1, TailOfTodo
  <1>4. StoreToggleInv' /\ DedupToggleInv'
    BY <1>1 DEF ToggleInv, StoreToggleInv, DedupToggleInv, Blanks, ToggleServed
  <1>5. PureIn(allDraws)'
    BY <1>1 DEF ToggleInv, PureIn
  <1>6. \A i, j \in 1..Len(todo') : IsToggle(todo'[i]) /\ IsToggle(todo'[j]) => i = j
    <2>1. \A i \in 1..Len(todo') : i \in Int
      OBVIOUS
    <2>2. \A i, j \in 1..Len(todo) : IsToggle(todo[i]) /\ IsToggle(todo[j]) => i = j
      BY <1>1 DEF ToggleInv, ParseToggleInv
    <2>3. QED
      BY <1>1, <1>3, <2>1, <2>2
  <1> HIDE DEF m
  <1>7. CASE UNCHANGED incoming
    <2>1. ParseToggleInv'
      BY <1>1, <1>3, <1>6, <1>7 DEF ToggleInv, ParseToggleInv, Blanks, IsToggle
    <2>2. PureIn(incoming)' /\ AgeInv'
      BY <1>1, <1>7, CreatedIsInt DEF ToggleInv, PureIn, AgeInv
    <2>3. QED
      BY <1>4, <1>5, <2>1, <2>2 DEF ToggleInv
  <1>8. CASE /\ m \in Stored
             /\ DOMAIN incoming' = DOMAIN incoming \cup {HeadKey}
             /\ incoming'[HeadKey] = NewItem(m)
             /\ \A k \in DOMAIN incoming' \ {HeadKey} : incoming'[k] = incoming[k]
    <2>1. /\ incoming'[HeadKey].content = m.content
          /\ incoming'[HeadKey].command = m.command
          /\ incoming'[HeadKey].created = now
      BY <1>8 DEF NewItem
    <2>2. /\ m.content = Blank <=> m.command \in Toggles
          /\ m.content = Blank => HeadKey \notin Ids
      BY <1>2, <1>8 DEF TogglesArePlain
    <2>3. PureIn(incoming)'
      BY <1>8, <2>1, <2>2 DEF ToggleInv, PureIn
    <2>4. AgeInv'
      <3>1. \A k \in DOMAIN incoming' : incoming'[k].created < now'
        BY <1>1, <1>8, <2>1, CreatedIsInt DEF ToggleInv, AgeInv
      <3>2. \A k \in DOMAIN allDraws, j \in DOMAIN incoming' :
              allDraws[k].created < incoming'[j].created
        BY <1>1, <1>8, <2>1 DEF ToggleInv, AgeInv
      <3>3. \A k \in DOMAIN allDraws : allDraws[k].created < now'
        BY <1>1, CreatedIsInt DEF ToggleInv, AgeInv
      <3>4. QED
        BY <1>1, <3>1, <3>2, <3>3 DEF AgeInv
    <2>5. m.content = Blank => /\ Blanks(incoming) = {}
                               /\ \A i \in 1..Len(todo') : ~IsToggle(todo'[i])
      <3>1. m.content = Blank => IsToggle(todo[1])
        BY <1>2, <2>2 DEF IsToggle
      <3>2. QED
        BY <1>1, <1>2, <1>3, <3>1 DEF ToggleInv, ParseToggleInv
    <2>6. Blanks(incoming') \subseteq Blanks(incoming) \cup {HeadKey}
      BY <1>8 DEF Blanks
    <2>7. HeadKey \in Blanks(incoming') => m.content = Blank
      BY <2>1 DEF Blanks
    <2>8. \A i, j \in Blanks(incoming') : i = j
      BY <1>1, <2>5, <2>6, <2>7 DEF ToggleInv, ParseToggleInv
    <2>9. Blanks(incoming') # {} => \A i \in 1..Len(todo') : ~IsToggle(todo'[i])
      <3>1. CASE m.content = Blank
        BY <2>5, <3>1
      <3>2. CASE m.content # Blank
        BY <1>1, <1>3, <2>6, <2>7, <3>2 DEF ToggleInv, ParseToggleInv
      <3>3. QED
        BY <3>1, <3>2
    <2>10. ParseToggleInv'
      BY <1>1, <1>6, <2>8, <2>9 DEF ParseToggleInv, Blanks, IsToggle
    <2>11. QED
      BY <1>4, <1>5, <2>3, <2>4, <2>10 DEF ToggleInv
  <1>9. QED
    BY <1>7, <1>8, ParsedItem DEF m

\* The payload is dropped or goes to the mutex: nothing is published.
LEMMA EndParseToggles ==
    ASSUME Inv, ToggleInv, ParseFails \/ DropPayload \/ GoMerge \/ BuildThrows
    PROVE  ToggleInv'
  <1>1. /\ UNCHANGED <<allDraws, iter, mainPc, commandHideLayer, lastToggle, now>>
        /\ \/ UNCHANGED incoming
           \/ DOMAIN incoming' = {}
        /\ ioPc = "parse" /\ ioPc' \in {"read", "lock", "crashed"}
        /\ ioPc' = "lock" => UNCHANGED incoming
    BY DEF ParseFails, DropPayload, GoMerge, BuildThrows, mainVars, EmptyMap
  <1>2. PureIn(allDraws)' /\ PureIn(incoming)' /\ AgeInv'
    BY <1>1 DEF ToggleInv, PureIn, AgeInv
  <1>3. ParseToggleInv'
    BY <1>1 DEF ToggleInv, ParseToggleInv, Blanks
  <1>4. StoreToggleInv' /\ DedupToggleInv'
    BY <1>1 DEF ToggleInv, StoreToggleInv, DedupToggleInv, Blanks, ToggleServed
  <1>5. QED
    BY <1>2, <1>3, <1>4 DEF ToggleInv

\* The toggle of the map and the one of the payload have different keys, and
\* the latter is the newer.
LEMMA MergeToggles ==
    ASSUME Inv, KeyInv, ToggleInv, Merge
    PROVE  ToggleInv'
  <1> DEFINE m == Merged
             old == Blanks(allDraws)
             new == Blanks(incoming)
  <1>1. /\ UNCHANGED <<mainPc, commandHideLayer, now>> /\ ioPc = "lock" /\ ioPc' = "dedup"
        /\ incoming' = m /\ DOMAIN allDraws' = {} /\ iter' = Least(DOMAIN m)
        /\ IsMap(allDraws) /\ IsMap(incoming)
    BY DEF Merge, mainVars, EmptyMap, Inv, TypeOK
  <1>2. /\ DOMAIN m \subseteq Nat /\ DOMAIN m = DOMAIN incoming \cup DOMAIN allDraws
    BY <1>1, MergedIsMap, KeysAreNat DEF IsMap
  <1>3. \A k \in DOMAIN m :
          /\ k \in DOMAIN incoming => SameItem(m[k], incoming[k])
          /\ k \notin DOMAIN incoming => m[k] = allDraws[k]
    BY <1>1, MergedItems
  <1>4. /\ PureIn(allDraws) /\ PureIn(incoming)
        /\ \A i, j \in old : i = j
        /\ \A i, j \in new : i = j
        /\ \A k \in old : allDraws[k].command = lastToggle
    BY <1>1 DEF ToggleInv, StoreToggleInv, ParseToggleInv
  <1> HIDE DEF m
  <1>5. old \cap DOMAIN incoming = {}
    BY <1>1, <1>4 DEF KeyInv, PureIn, Blanks
  <1>6. /\ Blanks(m) = old \cup new
        /\ \A k \in new : m[k].created = incoming[k].created
                          /\ m[k].command = incoming[k].command
        /\ \A k \in old : m[k].created = allDraws[k].created
                          /\ m[k].command = allDraws[k].command
    BY <1>2, <1>3, <1>5 DEF Blanks, SameItem
  <1>7. PureIn(m)
    BY <1>2, <1>3, <1>4 DEF PureIn, SameItem
  <1>8. \A k \in DOMAIN m : m[k].created < now
    BY <1>2, <1>3 DEF ToggleInv, AgeInv, SameItem
  <1>9. AgeInv' /\ PureIn(allDraws)' /\ PureIn(incoming)'
    BY <1>1, <1>7, <1>8 DEF AgeInv, PureIn
  <1>10. new = NewToggles
    BY <1>4 DEF NewToggles, PureIn, Blanks
  <1>11. \A k \in new : lastToggle' = incoming[k].command
    BY <1>4, <1>10 DEF Merge
  <1>12. new = {} => lastToggle' = lastToggle
    BY <1>10 DEF Merge
  <1>13. \A k \in old, j \in new : m[k].created < m[j].created
    BY <1>1, <1>6 DEF ToggleInv, AgeInv, Blanks
  <1>14. \A k \in Blanks(m) : m[k].created \in Nat
    BY <1>1, MergedIsMap, CreatedIsInt DEF Blanks, m
  <1> HIDE DEF old, new
  <1>15. ASSUME NEW k \in Blanks(m), \A j \in Blanks(m) : m[j].created <= m[k].created
         PROVE  m[k].command = lastToggle'
    <2>1. CASE k \in new
      BY <1>6, <1>11, <2>1
    <2>2. CASE k \in old
      <3>1. new = {}
        BY <1>6, <1>13, <1>14, <1>15, <2>2
      <3>2. QED
        BY <1>4, <1>6, <1>12, <2>2, <3>1
    <2>3. QED
      BY <1>6, <2>1, <2>2
  <1>16. \A i, j, k \in Blanks(m) : i # j => k = i \/ k = j
    BY <1>4, <1>6
  <1>17. \A i, j \in Blanks(m) : m[i].created = m[j].created => i = j
    BY <1>4, <1>6, <1>13, <1>14
  <1>18. \A k \in Blanks(m) : k \in Nat /\ Least(DOMAIN m) <= k
    BY <1>2, LeastInSet DEF Blanks
  <1>19. ASSUME Blanks(m) = {}, mainPc \in {"sleep", "frame"}
         PROVE  ToggleServed'
    <2>1. ToggleServed
      BY <1>1, <1>6, <1>19 DEF ToggleInv, StoreToggleInv, old
    <2>2. QED
      BY <1>1, <1>6, <1>12, <1>19, <2>1 DEF ToggleServed
  <1>20. DedupToggleInv'
    BY <1>1, <1>15, <1>16, <1>17, <1>18, <1>19 DEF DedupToggleInv
  <1>21. ParseToggleInv' /\ StoreToggleInv'
    BY <1>1 DEF ParseToggleInv, StoreToggleInv, Blanks
  <1>22. QED
    BY <1>9, <1>20, <1>21 DEF ToggleInv

\* The iterator leaves a toggle only when it is the last one.
LEMMA AdvanceToggles ==
    ASSUME Inv, ToggleInv, DedupAdvance
    PROVE  ToggleInv'
  <1>1. /\ ioPc = "dedup" /\ UNCHANGED <<allDraws, incoming, ioPc, mainPc,
                                         commandHideLayer, now, lastToggle>>
        /\ After(iter, incoming) # {} /\ Twins = {}
        /\ iter' = Least(After(iter, incoming))
    BY DEF DedupAdvance, mainVars
  <1>2. After(iter, incoming) \subseteq Nat /\ DOMAIN incoming \subseteq Nat
    BY AfterAreKeys, KeysAreNat DEF Inv, TypeOK, IsMap
  <1>3. iter \in DOMAIN incoming
    BY <1>1 DEF Inv, NetworkInv
  <1>4. ASSUME NEW i \in Blanks(incoming), NEW j \in Blanks(incoming), i < j
        PROVE  iter' <= i
    <2>1. iter <= i
      BY <1>1, <1>4 DEF ToggleInv, DedupToggleInv
    <2>2. i # iter
      BY <1>1, <1>4 DEF Blanks, Twins, After
    <2>3. i \in After(iter, incoming)
      BY <1>2, <1>3, <1>4, <2>1, <2>2 DEF After, Blanks
    <2>4. QED
      BY <1>1, <1>2, <2>3, LeastInSet
  <1>5. DedupToggleInv'
    BY <1>1, <1>4 DEF ToggleInv, DedupToggleInv, ToggleServed, Blanks
  <1>6. PureIn(allDraws)' /\ PureIn(incoming)' /\ AgeInv'
    BY <1>1 DEF ToggleInv, PureIn, AgeInv
  <1>7. ParseToggleInv' /\ StoreToggleInv'
    BY <1>1 DEF ToggleInv, ParseToggleInv, StoreToggleInv, ToggleServed, Blanks
  <1>8. QED
    BY <1>5, <1>6, <1>7 DEF ToggleInv

\* Where the iterator goes after an erasure: not beyond a toggle that had
\* another one behind it.
LEMMA IterAfterErasure ==
    ASSUME Inv, DedupEraseHere \/ DedupEraseDup, ioPc' = "dedup",
           NEW i \in DOMAIN incoming', NEW j \in DOMAIN incoming', iter < i, i < j
    PROVE  iter' <= i
  <1>1. IsMap(incoming) /\ IsMap(incoming')
    <2>1. Inv'
      BY DedupEraseHereInv, DedupEraseDupInv
    <2>2. QED
      BY <2>1 DEF Inv, TypeOK, IsMap
  <1>2. After(iter, incoming) \subseteq Nat /\ After(iter, incoming') \subseteq Nat
    BY <1>1, AfterAreKeys
  <1>3. CASE DedupEraseHere
    <2>1. i \in After(iter, incoming)
      BY <1>3, ErasureOfTwin DEF After, Erasure
    <2>2. iter' = Least(After(iter, incoming))
      BY <1>3 DEF DedupEraseHere
    <2>3. QED
      BY <1>2, <2>1, <2>2, LeastInSet
  <1>4. CASE DedupEraseDup
    <2>1. i \in After(iter, incoming')
      BY DEF After
    <2>2. iter' = Least(After(iter, incoming'))
      BY <1>4, <2>1 DEF DedupEraseDup
    <2>3. QED
      BY <1>2, <2>1, <2>2, LeastInSet
  <1>5. QED
    BY <1>3, <1>4

\* Of two toggles the newer stays; the erasure of other twins leaves them, and
\* the iterator, in place.
LEMMA DedupToggles ==
    ASSUME Inv, ToggleInv, DedupEraseHere \/ DedupEraseDup
    PROVE  ToggleInv'
  <1>1. /\ UNCHANGED <<allDraws, mainPc, commandHideLayer, now, lastToggle>>
        /\ ioPc = "dedup" /\ ioPc' \in {"dedup", "crashed"}
        /\ IsMap(incoming)
    BY DEF DedupEraseHere, DedupEraseDup, mainVars, Inv, TypeOK
  <1>2. PICK stays, gone : Erasure(stays, gone) /\ {stays, gone} = {iter, Least(Twins)}
    BY ErasureOfTwin
  <1>3. iter < Least(Twins) /\ iter \in Nat /\ Least(Twins) \in Nat
    BY ErasureOfTwin
  <1>4. /\ PureIn(incoming') /\ Blanks(incoming') = Blanks(incoming) \cap DOMAIN incoming'
        /\ DOMAIN incoming' = DOMAIN incoming \ {gone}
        /\ \A k \in DOMAIN incoming' : /\ incoming'[k].command = incoming[k].command
                                       /\ incoming'[k].created = incoming[k].created
    BY <1>2, PartIsPure DEF Erasure, ToggleInv
  <1>5. /\ stays \in Blanks(incoming) <=> gone \in Blanks(incoming)
        /\ stays \in DOMAIN incoming /\ gone \in DOMAIN incoming /\ stays # gone
        /\ incoming[gone].created <= incoming[stays].created
    BY <1>2 DEF Erasure, Blanks
  <1>6. \A k \in Blanks(incoming) : k \in Nat /\ incoming[k].created \in Nat
    BY <1>1, KeysAreNat, CreatedIsInt DEF IsMap, Blanks
  <1>7. /\ \A i, j \in Blanks(incoming) : i < j =>
             iter <= i /\ \A k \in Blanks(incoming) : k = i \/ k = j
        /\ \A i, j \in Blanks(incoming) :
             incoming[i].created = incoming[j].created => i = j
        /\ \A k \in Blanks(incoming) :
             (\A j \in Blanks(incoming) : incoming[j].created <= incoming[k].created) =>
               incoming[k].command = lastToggle
        /\ Blanks(incoming) = {} /\ mainPc \in {"sleep", "frame"} => ToggleServed
    BY <1>1 DEF ToggleInv, DedupToggleInv
  <1>8. ASSUME NEW i \in Blanks(incoming'), NEW j \in Blanks(incoming'), i < j,
               ioPc' = "dedup"
        PROVE  iter' <= i
    <2>1. i \in Blanks(incoming) /\ j \in Blanks(incoming) /\ i # gone /\ j # gone
      BY <1>4, <1>8
    <2>2. iter <= i /\ \A k \in Blanks(incoming) : k = i \/ k = j
      BY <1>7, <1>8, <2>1
    <2>3. gone \notin Blanks(incoming) /\ stays \notin Blanks(incoming)
      BY <1>5, <2>1, <2>2
    <2>4. i # iter
      BY <1>2, <2>1, <2>3
    <2>5. iter < i
      BY <1>3, <1>6, <2>1, <2>2, <2>4
    <2>6. i \in DOMAIN incoming' /\ j \in DOMAIN incoming'
      BY <1>4, <1>8
    <2>7. QED
      BY <1>8, <2>5, <2>6, IterAfterErasure
  <1>9. ASSUME NEW k \in Blanks(incoming'),
               \A j \in Blanks(incoming') : incoming'[j].created <= incoming'[k].created
        PROVE  incoming'[k].command = lastToggle
    <2>1. k \in Blanks(incoming) /\ incoming'[k].command = incoming[k].command
          /\ incoming'[k].created = incoming[k].created
      BY <1>4
    <2>2. ASSUME NEW j \in Blanks(incoming)
          PROVE  incoming[j].created <= incoming[k].created
      <3>1. CASE j # gone
        <4>1. j \in Blanks(incoming')
          BY <1>4, <2>2, <3>1 DEF Blanks
        <4>2. incoming'[j].created = incoming[j].created
          BY <1>4, <4>1
        <4>3. QED
          BY <1>9, <2>1, <4>1, <4>2
      <3>2. CASE j = gone
        <4>1. stays \in Blanks(incoming) /\ stays \in Blanks(incoming')
          BY <1>4, <1>5, <2>2, <3>2 DEF Blanks
        <4>2. incoming'[stays].created = incoming[stays].created
          BY <1>4, <4>1
        <4>3. incoming[stays].created <= incoming[k].created
          BY <1>9, <2>1, <4>1, <4>2
        <4>4. QED
          BY <1>5, <1>6, <2>1, <2>2, <3>2, <4>1, <4>3
      <3>3. QED
        BY <3>1, <3>2
    <2>3. QED
      BY <1>7, <2>1, <2>2
  <1>10. Blanks(incoming') = {} => Blanks(incoming) = {}
    <2>1. SUFFICES ASSUME NEW k \in Blanks(incoming) PROVE Blanks(incoming') # {}
      OBVIOUS
    <2>2. stays \in DOMAIN incoming' /\ (k # gone => k \in DOMAIN incoming')
      BY <1>4, <1>5, <2>1 DEF Blanks
    <2>3. QED
      BY <1>4, <1>5, <2>1, <2>2
  <1>11. \A i, j \in Blanks(incoming') :
           /\ i < j => \A k \in Blanks(incoming') : k = i \/ k = j
           /\ incoming'[i].created = incoming'[j].created => i = j
    BY <1>4, <1>7
  <1>12. DedupToggleInv'
    <2>1. Blanks(incoming') = {} /\ mainPc' \in {"sleep", "frame"} => ToggleServed'
      BY <1>1, <1>7, <1>10 DEF ToggleServed
    <2>2. QED
      BY <1>1, <1>8, <1>9, <1>11, <2>1 DEF DedupToggleInv
  <1>13. AgeInv'
    BY <1>1, <1>4 DEF ToggleInv, AgeInv
  <1>14. PureIn(allDraws)' /\ ParseToggleInv' /\ StoreToggleInv'
    BY <1>1 DEF ToggleInv, PureIn, ParseToggleInv, StoreToggleInv, ToggleServed, Blanks
  <1>15. QED
    BY <1>4, <1>12, <1>13, <1>14 DEF ToggleInv

\* No two toggles are left in front of the iterator, so there is one at most.
LEMMA PublishToggles ==
    ASSUME Inv, ToggleInv, Publish
    PROVE  ToggleInv'
  <1>1. /\ ioPc = "dedup" /\ ioPc' = "read" /\ allDraws' = incoming
        /\ After(iter, incoming) = {} /\ DOMAIN incoming' = {}
        /\ UNCHANGED <<mainPc, commandHideLayer, now, lastToggle>>
    BY DEF Publish, mainVars, EmptyMap
  <1>2. /\ DOMAIN incoming \subseteq Nat /\ iter \in DOMAIN incoming
        /\ \A k \in DOMAIN incoming : incoming[k].created \in Nat
    BY <1>1, KeysAreNat, CreatedIsInt DEF Inv, TypeOK, NetworkInv, IsMap
  <1>3. ASSUME NEW i \in Blanks(incoming), NEW j \in Blanks(incoming), i < j
        PROVE  FALSE
    <2>1. iter <= i
      BY <1>1, <1>3 DEF ToggleInv, DedupToggleInv
    <2>2. j \in After(iter, incoming)
      BY <1>2, <1>3, <2>1 DEF After, Blanks
    <2>3. QED
      BY <1>1, <2>2
  <1>4. \A i, j \in Blanks(incoming) : i = j
    BY <1>2, <1>3 DEF Blanks
  <1>5. \A k \in Blanks(incoming) : incoming[k].command = lastToggle
    <2>1. \A k \in Blanks(incoming) : incoming[k].created <= incoming[k].created
      BY <1>2 DEF Blanks
    <2>2. QED
      BY <1>1, <1>4, <2>1 DEF ToggleInv, DedupToggleInv
  <1>6. StoreToggleInv'
    <2>1. Blanks(incoming) = {} /\ mainPc \in {"sleep", "frame"} => ToggleServed
      BY <1>1 DEF ToggleInv, DedupToggleInv
    <2>2. QED
      BY <1>1, <1>4, <1>5, <2>1 DEF StoreToggleInv, ToggleServed
  <1>7. PureIn(allDraws)' /\ PureIn(incoming)' /\ AgeInv'
    BY <1>1 DEF ToggleInv, PureIn, AgeInv
  <1>8. ParseToggleInv' /\ DedupToggleInv'
    BY <1>1 DEF ParseToggleInv, DedupToggleInv, Blanks
  <1>9. QED
    BY <1>6, <1>7, <1>8 DEF ToggleInv

\* A frame without "exit" executes the toggle of the map, if there is one, and
\* erases it.
LEMMA FrameServesToggle ==
    ASSUME Inv, PureIn(allDraws), StoreToggleInv, Exits = {}, Alive, mainPc = "frame",
           ioPc # "dedup"
    PROVE  /\ HideAfter <=> lastToggle = "overlay_off"
           /\ Blanks(allDraws) \subseteq Erased
  <1>1. Visited = DOMAIN allDraws
    BY DEF Visited
  <1>2. VisitedToggles = Blanks(allDraws)
    BY <1>1 DEF VisitedToggles, PureIn, Blanks
  <1>3. Blanks(allDraws) \subseteq Erased
    BY <1>1 DEF Erased, Blanks, PureIn, isCommand, Toggles, NoCommand
  <1>4. DOMAIN allDraws \subseteq Nat
    BY KeysAreNat DEF Inv, TypeOK, IsMap
  <1>5. CASE Blanks(allDraws) = {}
    BY <1>2, <1>3, <1>5 DEF HideAfter, StoreToggleInv, ToggleServed, Alive
  <1>6. CASE Blanks(allDraws) # {}
    <2>1. PICK k \in Blanks(allDraws) : \A j \in Blanks(allDraws) : j = k
      BY <1>6 DEF StoreToggleInv
    <2>2. k \in Nat /\ allDraws[k].command = lastToggle
      BY <1>4, <2>1 DEF StoreToggleInv, Blanks
    <2>3. HideAfter <=> \E i \in Blanks(allDraws) :
                          /\ allDraws[i].command = "overlay_off"
                          /\ \A j \in Blanks(allDraws) : j <= i
      BY <1>2, <1>6 DEF HideAfter
    <2>4. QED
      BY <1>3, <2>1, <2>2, <2>3
  <1>7. QED
    BY <1>5, <1>6

\* After a frame no toggle is left and the last one is executed.
LEMMA FrameToggles ==
    ASSUME Inv, PhaseInv, ToggleInv, Frame \/ Joined
    PROVE  ToggleInv'
  <1>1. /\ PartOf(allDraws', allDraws) /\ PureIn(allDraws) /\ PureIn(incoming)
        /\ StoreToggleInv /\ UNCHANGED <<incoming, todo, iter, now, lastToggle>>
        /\ mainPc' \in {"sleep", "joining", "done"}
        /\ ioPc' = ioPc \/ (ioPc = "read" /\ ioPc' = "ended")
    BY FrameItems DEF Frame, FrameRedraw, FrameSkip, FrameHide, FrameExit, Joined, ioVars,
       ToggleInv, Inv, TypeOK
  <1>2. /\ PureIn(allDraws') /\ Blanks(allDraws') = Blanks(allDraws) \cap DOMAIN allDraws'
        /\ DOMAIN allDraws' \subseteq DOMAIN allDraws
        /\ \A k \in DOMAIN allDraws' : /\ allDraws'[k].command = allDraws[k].command
                                       /\ allDraws'[k].created = allDraws[k].created
    BY <1>1, PartIsPure DEF PartOf
  <1>3. AgeInv'
    BY <1>1, <1>2 DEF ToggleInv, AgeInv
  <1>4. ParseToggleInv'
    BY <1>1 DEF ToggleInv, ParseToggleInv, Blanks, IsToggle
  <1>5. ioPc # "dedup" \/ ~Frame
    BY DEF Frame, FrameRedraw, FrameSkip, FrameHide, FrameExit, FrameStarts, PhaseInv
  <1>6. DedupToggleInv'
    BY <1>1, <1>5 DEF DedupToggleInv, Joined
  <1>7. \/ FrameExit \/ Joined
        \/ /\ mainPc' = "sleep" /\ Exits = {} /\ mainPc = "frame" /\ Alive
           /\ commandHideLayer' = HideAfter /\ ioPc' = ioPc /\ ioPc # "dedup"
    BY <1>5 DEF Frame, FrameRedraw, FrameSkip, FrameHide, FrameStarts, ioVars
  <1>8. StoreToggleInv'
    <2>1. CASE FrameExit \/ Joined
      <3>1. mainPc' \in {"joining", "done"}
        BY <2>1 DEF FrameExit, Joined
      <3>2. QED
        BY <1>1, <1>2, <3>1 DEF StoreToggleInv
    <2>2. CASE /\ mainPc' = "sleep" /\ Exits = {} /\ mainPc = "frame" /\ Alive
               /\ commandHideLayer' = HideAfter /\ ioPc' = ioPc /\ ioPc # "dedup"
      <3>1. HideAfter <=> lastToggle = "overlay_off"
        BY <1>1, <2>2, FrameServesToggle
      <3>2. QED
        BY <1>1, <1>2, <2>2, <3>1 DEF StoreToggleInv, ToggleServed
    <2>3. QED
      BY <1>7, <2>1, <2>2
  <1>9. QED
    BY <1>1, <1>2, <1>3, <1>4, <1>6, <1>8 DEF ToggleInv, PureIn

\* Every step keeps the account of the toggles.
LEMMA NextToggles ==
    ASSUME TogglesArePlain, AutoKeysAreFresh,
           Inv, PhaseInv, TodoInv, KeyInv, ToggleInv, [Next]_vars
    PROVE  ToggleInv'
  <1>1. ASSUME UNCHANGED <<allDraws, incoming, todo, iter, ioPc, commandHideLayer,
                           lastToggle>>,
               now \in Nat, now' \in Nat, now' >= now,
               mainPc' \in {"sleep", "frame"} => mainPc \in {"sleep", "frame"}
        PROVE  ToggleInv'
    <2>1. PureIn(allDraws)' /\ PureIn(incoming)'
      BY <1>1 DEF ToggleInv, PureIn
    <2>2. AgeInv'
      BY <1>1, CreatedIsInt DEF ToggleInv, AgeInv, Inv, TypeOK
    <2>3. ParseToggleInv' /\ DedupToggleInv' /\ StoreToggleInv'
      BY <1>1 DEF ToggleInv, ParseToggleInv, DedupToggleInv, StoreToggleInv,
         ToggleServed, Blanks, IsToggle
    <2>4. QED
      BY <2>1, <2>2, <2>3 DEF ToggleInv
  <1>2. now \in Nat
    BY DEF Inv, TypeOK
  <1>3. CASE Wake \/ WakeAndCheck \/ LoseTransparency
    BY <1>1, <1>2, <1>3, WakeChanges DEF ioVars
  <1>4. CASE UNCHANGED vars
    BY <1>1, <1>2, <1>4 DEF vars, ioVars, mainVars
  <1>5. QED
    BY <1>3, <1>4, ReceiveToggles, ParseToggles, EndParseToggles, MergeToggles,
       AdvanceToggles, DedupToggles, PublishToggles, FrameToggles
       DEF Next, Network, Main

\* With no command left in the map the last toggle has been executed, in
\* whatever order the keys of the toggles come and although the duplicate
\* search erases all but one of them (main.cpp:163-176): for plugins whose
\* toggles are plain commands, one in a message.
THEOREM ToggleIsServed ==
    ASSUME TogglesArePlain, AutoKeysAreFresh
    PROVE  Spec => []LastToggleWins
  <1> DEFINE IInv == Inv /\ PhaseInv /\ TodoInv /\ KeyInv /\ ToggleInv
  <1>1. Init => IInv
    BY InitInv, InitPhase, InitKeys, InitToggles
  <1>2. IInv /\ [Next]_vars => IInv'
    BY NextInv, NextPhase, NextTodo, NextKeys, NextToggles
  <1>3. IInv => LastToggleWins
    <2>1. SUFFICES ASSUME IInv, ioPc = "read", mainPc \notin {"joining", "done"},
                          \A k \in DOMAIN allDraws : ~isCommand(allDraws[k])
                   PROVE  commandHideLayer <=> lastToggle = "overlay_off"
      BY DEF LastToggleWins
    <2>2. Blanks(allDraws) = {}
      BY <2>1 DEF ToggleInv, PureIn, Blanks, isCommand, Toggles, NoCommand
    <2>3. mainPc \in {"sleep", "frame"}
      BY <2>1 DEF Inv, TypeOK
    <2>4. QED
      BY <2>1, <2>2, <2>3 DEF ToggleInv, StoreToggleInv, ToggleServed
  <1>4. QED
    BY <1>1, <1>2, <1>3, PTL DEF Spec
=============================================================================
