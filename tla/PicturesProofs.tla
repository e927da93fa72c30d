--------------------------- MODULE PicturesProofs ---------------------------
(***************************************************************************)
(* Theorems of Pictures, for any keys, contents, addresses and resource    *)
(* ids.  OneOwner is not inductive: that a holder which is given an        *)
(* id holds none needs HolderInv (which locals own something in which      *)
(* stage), that a destructor runs for a holder which nobody else uses      *)
(* needs NodeInv (every item is in one map, under one key) and StageInv    *)
(* (which thread may be where while the other one has the mutex).          *)
(***************************************************************************)
EXTENDS Pictures, TLAPS

DrawPcs == {"draw", "image", "return", "install", "made", "render", "compose",
            "composite", "composed", "drawn"}
EndPcs == {"statics", "freed", "ended"}

Live(a) == heap[a] # Free

\* Every item is in one map, under one key, or is the banner.
NodeInv ==
    /\ \A k, j \in DOMAIN allDraws : allDraws[k] = allDraws[j] => k = j
    /\ \A k, j \in DOMAIN incoming : incoming[k] = incoming[j] => k = j
    /\ \A k \in DOMAIN allDraws, j \in DOMAIN incoming : allDraws[k] # incoming[j]
    /\ \A k \in DOMAIN allDraws : Live(allDraws[k])
    /\ \A k \in DOMAIN incoming : Live(incoming[k])
    /\ \A a \in Addrs : Live(a) =>
         \/ \E k \in DOMAIN allDraws : a = allDraws[k]
         \/ \E k \in DOMAIN incoming : a = incoming[k]
         \/ ioPc = "off" /\ a = drawing

\* Where the threads can be together, and what they then have in hand.
StageInv ==
    /\ mutex = "io" <=> ioPc \in {"clear", "dedup"}
    /\ mutex = "main" => mainPc \in DrawPcs \cup {"purge", "next", "join", "crashed"}
    /\ mainPc \in {"purge", "next"} => mutex = "main"
    /\ mainPc \in DrawPcs /\ ioPc # "off" =>
         mutex = "main" /\ \E k \in DOMAIN allDraws : drawing = allDraws[k]
    /\ mainPc \in DrawPcs => drawing \in Addrs /\ Live(drawing)
    /\ mainPc \notin DrawPcs \cup {"crashed"} => drawing = NoAddr
    /\ ioPc = "off" =>
         /\ mutex = "free" /\ mainPc \in DrawPcs \cup {"start", "opened", "windowed", "ended", "crashed"}
         /\ DOMAIN allDraws = {} /\ DOMAIN incoming = {}
    /\ mainPc \in {"start", "opened", "windowed"} => ioPc = "off"
    /\ mainPc \in {"returning", "cleaned"} => ioPc = "gone"
    /\ mainPc \in EndPcs => ioPc \in {"off", "gone"} /\ DOMAIN allDraws = {}
    /\ ioPc = "gone" => DOMAIN incoming = {}
    /\ ioPc = "dedup" => DOMAIN allDraws = {}
    /\ display = "closed" <=> mainPc = "ended"

InFrame == mutex = "main" /\ mainPc \in DrawPcs \cup {"next"}

\* A frame draws items of the map, each of them once.
TodoInv ==
    InFrame =>
        /\ todo \subseteq DOMAIN allDraws
        /\ mainPc \in DrawPcs => \A k \in todo : allDraws[k] # drawing

\* Which holders own a resource at which stage.
HolderInv ==
    /\ Owns(held["pixmap"]) <=> mainPc = "image"
    /\ Owns(held["made"]) <=> mainPc \in {"return", "install"}
    /\ Owns(held["source"]) <=> mainPc \in {"compose", "composite", "composed"}
    /\ IsInitialized(held["window"]) => Owns(held["window"])
    /\ mainPc \in {"start", "opened", "windowed", "freed", "ended"} => ~Owns(held["window"])
    /\ mainPc \in {"made", "render", "compose", "composite", "composed"} => HasClosure(drawing)
    /\ mainPc \in {"image", "return", "install"} => ~HasClosure(drawing)
    /\ ioPc \in {"off", "read", "lock"} => \A k \in DOMAIN incoming : ~HasClosure(incoming[k])

\* A closure's pixmap shows the item it is in.
PictureInv ==
    /\ \A a \in Addrs : HasClosure(a) => server[held[a].id] = heap[a].content
    /\ mainPc \in {"return", "install"} => server[held["made"].id] = heap[drawing].content

\* The item in work is not painted yet.
InWork == IF mainPc \in DrawPcs \ {"composed", "drawn"} THEN {drawing} ELSE {}

\* The items the frame is through with.
Done == {allDraws[k] : k \in DOMAIN allDraws \ todo} \ InWork

PaintOf(a) == [shape |-> heap[a].content, place |-> heap[a].content]

\* What the frame has painted so far.
WindowInv == InFrame => window = {PaintOf(a) : a \in {b \in Done : HasClosure(b)}}

Inv == /\ TypeOK /\ NodeInv /\ StageInv /\ TodoInv /\ HolderInv /\ CapturesItself /\ OneOwner
       /\ PictureInv /\ WindowInv
-----------------------------------------------------------------------------
(* Lemmas about the operators.                                             *)

\* There is an id, or an address, to give.
LEMMA NewIdIsFree ==
  ASSUME IdLeft
  PROVE  NewId \in XIds /\ server[NewId] = Nothing
BY DEF IdLeft, NewId

\* An address that operator new gives holds no item.
LEMMA NewAddrIsFree ==
  ASSUME AddrLeft
  PROVE  NewAddr \in Addrs /\ heap[NewAddr] = Free
BY DEF AddrLeft, NewAddr

\* A local is none of the items, and none of the other locals.
LEMMA LocalsAreHolders ==
  ASSUME PicturesAssumption
  PROVE  /\ {"pixmap", "made", "source", "window"} \subseteq Holders \ Addrs
         /\ Addrs \subseteq Holders
BY DEF PicturesAssumption, Holders

\* An item is not the value of a free address.
LEMMA ItemsAreNotFree ==
  ASSUME PicturesAssumption, NEW content \in Contents, NEW self \in Addrs \cup {NoAddr}
  PROVE  [content |-> content, self |-> self] # Free
BY DEF PicturesAssumption

\* Destructors: those holders own nothing any more, the others what they did.
LEMMA EndOwns ==
  ASSUME TypeOK, OneOwner, NEW S \in SUBSET Holders, End(S)
  PROVE  /\ OneOwner'
         /\ held' \in [Holders -> Managed] /\ server' \in [XIds -> Resources \cup {Nothing}]
         /\ \A h \in S : ~Owns(held'[h]) /\ ~IsInitialized(held'[h])
         /\ \A h \in Holders \ S : held'[h] = held[h]
         /\ \A h \in Holders \ S : Owns(held[h]) => server'[held[h].id] = server[held[h].id]
<1>1. held \in [Holders -> Managed] /\ server \in [XIds -> Resources \cup {Nothing}]
  BY DEF TypeOK
<1>2. held' \in [Holders -> Managed] /\ server' \in [XIds -> Resources \cup {Nothing}]
  BY <1>1 DEF End, Ended, After, Unset, Managed
<1>3. \A h \in S : ~Owns(held'[h]) /\ ~IsInitialized(held'[h])
  BY DEF End, Ended, Unset, Owns, IsInitialized
<1>4. \A h \in Holders \ S : held'[h] = held[h]
  BY DEF End, Ended
<1>5. \A h \in Holders : Owns(held[h]) => held[h].id \in XIds
  BY <1>1 DEF Owns, IsInitialized, Managed
<1>6. \A h \in Holders \ S : Owns(held[h]) => server'[held[h].id] = server[held[h].id]
  BY <1>5 DEF End, After, OneOwner
<1>7. \A id \in XIds : server'[id] # Nothing =>
         server[id] # Nothing /\ ~ \E h \in S : Owns(held[h]) /\ held[h].id = id
  BY DEF End, After
<1>8. OneOwner'
  <2>1. \A h \in Holders : Owns(held'[h]) => h \notin S /\ held'[h] = held[h]
    BY <1>3, <1>4
  <2>2. \A h \in Holders : Owns(held[h])' => server'[held'[h].id] # Nothing
    BY <2>1, <1>6 DEF OneOwner, Owns, IsInitialized
  <2>3. \A h, g \in Holders :
           Owns(held[h])' /\ Owns(held[g])' /\ held'[h].id = held'[g].id => h = g
    BY <2>1 DEF OneOwner, Owns, IsInitialized
  <2>4. \A id \in XIds : server'[id] # Nothing =>
           \E h \in Holders : Owns(held[h])' /\ held'[h].id = id
    BY <1>7, <1>4 DEF OneOwner, Owns, IsInitialized
  <2>5. QED
    BY <2>2, <2>3, <2>4 DEF OneOwner
<1>9. QED
  BY <1>2, <1>3, <1>4, <1>6, <1>8

\* A holder without a resource gets a new one.
LEMMA CreateOwns ==
  ASSUME PicturesAssumption, TypeOK, OneOwner, NEW holder \in Holders, NEW resource \in Resources,
         ~Owns(held[holder]), Create(holder, resource)
  PROVE  /\ OneOwner'
         /\ held' \in [Holders -> Managed] /\ server' \in [XIds -> Resources \cup {Nothing}]
         /\ Owns(held'[holder])
         /\ \A h \in Holders \ {holder} : held'[h] = held[h]
         /\ \A h \in Holders \ {holder} : Owns(held[h]) => server'[held[h].id] = server[held[h].id]
<1>1. held \in [Holders -> Managed] /\ server \in [XIds -> Resources \cup {Nothing}]
  BY DEF TypeOK
<1>2. NewId \in XIds /\ server[NewId] = Nothing
  BY NewIdIsFree DEF Create
<1>3. NewId # None /\ resource # Nothing
  BY <1>2 DEF PicturesAssumption
<1>4. /\ server' = [server EXCEPT ![NewId] = resource]
      /\ held' = [held EXCEPT ![holder] = [id |-> NewId, free |-> TRUE]]
  BY DEF Create
<1> HIDE DEF NewId
<1>5. held' \in [Holders -> Managed] /\ server' \in [XIds -> Resources \cup {Nothing}]
  BY <1>1, <1>2, <1>4 DEF Managed
<1>6. held'[holder] = [id |-> NewId, free |-> TRUE] /\ Owns(held'[holder])
  BY <1>1, <1>3, <1>4 DEF Owns, IsInitialized
<1>7. \A h \in Holders \ {holder} : held'[h] = held[h]
  BY <1>1, <1>4
<1>8. \A h \in Holders : Owns(held[h]) => held[h].id \in XIds /\ held[h].id # NewId
  BY <1>1, <1>2 DEF Owns, IsInitialized, Managed, OneOwner
<1>9. \A h \in Holders : Owns(held[h]) => server'[held[h].id] = server[held[h].id]
  BY <1>1, <1>4, <1>8
<1>10. OneOwner'
  <2>1. \A h \in Holders : Owns(held'[h]) =>
           \/ h = holder /\ held'[h].id = NewId
           \/ h # holder /\ held'[h] = held[h] /\ Owns(held[h])
    BY <1>6, <1>7
  <2>2. \A h \in Holders : Owns(held[h])' => server'[held'[h].id] # Nothing
    <3>1. server'[NewId] = resource
      BY <1>1, <1>2, <1>4
    <3>2. QED
      BY <2>1, <1>9, <3>1, <1>3 DEF OneOwner, Owns, IsInitialized
  <2>3. \A h, g \in Holders :
           Owns(held[h])' /\ Owns(held[g])' /\ held'[h].id = held'[g].id => h = g
    BY <2>1, <1>8 DEF OneOwner, Owns, IsInitialized
  <2>4. \A id \in XIds : server'[id] # Nothing =>
           \E h \in Holders : Owns(held[h])' /\ held'[h].id = id
    <3> SUFFICES ASSUME NEW id \in XIds, server'[id] # Nothing
                 PROVE  \E h \in Holders : Owns(held'[h]) /\ held'[h].id = id
      BY DEF Owns, IsInitialized
    <3>1. CASE id = NewId
      BY <3>1, <1>6
    <3>2. CASE id # NewId
      <4>1. server[id] # Nothing
        BY <1>1, <1>4, <3>2
      <4>2. PICK h \in Holders : Owns(held[h]) /\ held[h].id = id
        BY <4>1 DEF OneOwner
      <4>3. h # holder
        BY <4>2
      <4>4. QED
        BY <4>2, <4>3, <1>7
    <3>3. QED
      BY <3>1, <3>2
  <2>5. QED
    BY <2>2, <2>3, <2>4 DEF OneOwner
<1>11. QED
  BY <1>5, <1>6, <1>7, <1>9, <1>10

\* The move of an id: its resource has the new holder as its only one.
LEMMA MoveOwns ==
  ASSUME TypeOK, OneOwner, NEW from \in Holders, NEW to \in Holders, from # to,
         Owns(held[from]), ~Owns(held[to]),
         held' = [held EXCEPT ![to] = held[from], ![from] = MovedFrom(held[from])],
         \A id \in XIds : server'[id] = Nothing <=> server[id] = Nothing
  PROVE  /\ OneOwner' /\ held' \in [Holders -> Managed]
         /\ held'[to] = held[from] /\ ~Owns(held'[from])
         /\ \A h \in Holders \ {from, to} : held'[h] = held[h]
<1>1. held \in [Holders -> Managed]
  BY DEF TypeOK
<1>2. held'[to] = held[from] /\ ~Owns(held'[from])
  BY <1>1 DEF Owns, MovedFrom
<1>3. \A h \in Holders \ {from, to} : held'[h] = held[h]
  BY <1>1
<1>4. held' \in [Holders -> Managed]
  BY <1>1 DEF MovedFrom, Managed
<1>5. \A h \in Holders : Owns(held[h]) => held[h].id \in XIds
  BY <1>1 DEF Owns, IsInitialized, Managed
<1>6. \A h \in Holders : Owns(held'[h]) =>
         h = to \/ (h \notin {from, to} /\ held'[h] = held[h])
  BY <1>2, <1>3
<1>7. \A h \in Holders : Owns(held[h])' => server'[held'[h].id] # Nothing
  <2> SUFFICES ASSUME NEW h \in Holders, Owns(held'[h])
               PROVE  server'[held'[h].id] # Nothing
    BY DEF Owns, IsInitialized
  <2>1. PICK g \in Holders : Owns(held[g]) /\ held'[h] = held[g]
    BY <1>2, <1>6
  <2>2. QED
    BY <2>1, <1>5 DEF OneOwner
<1>8. \A h, g \in Holders :
         Owns(held[h])' /\ Owns(held[g])' /\ held'[h].id = held'[g].id => h = g
  <2> SUFFICES ASSUME NEW h \in Holders, NEW g \in Holders, Owns(held'[h]), Owns(held'[g]),
                      held'[h].id = held'[g].id
               PROVE  h = g
    BY DEF Owns, IsInitialized
  <2>1. \A i, j \in Holders : Owns(held[i]) /\ Owns(held[j]) /\ held[i].id = held[j].id => i = j
    BY DEF OneOwner
  <2>2. CASE h # to /\ g # to
    BY <2>1, <2>2, <1>6
  <2>3. CASE h = to /\ g # to
    <3>1. Owns(held[g]) /\ held[g].id = held[from].id /\ g # from
      BY <2>3, <1>2, <1>6
    <3>2. QED
      BY <3>1, <2>1
  <2>4. CASE h # to /\ g = to
    <3>1. Owns(held[h]) /\ held[h].id = held[from].id /\ h # from
      BY <2>4, <1>2, <1>6
    <3>2. QED
      BY <3>1, <2>1
  <2>5. QED
    BY <2>2, <2>3, <2>4
<1>9. \A id \in XIds : server'[id] # Nothing =>
         \E h \in Holders : Owns(held[h])' /\ held'[h].id = id
  <2> SUFFICES ASSUME NEW id \in XIds, server'[id] # Nothing
               PROVE  \E h \in Holders : Owns(held'[h]) /\ held'[h].id = id
    BY DEF Owns, IsInitialized
  <2>1. PICK h \in Holders : Owns(held[h]) /\ held[h].id = id
    BY DEF OneOwner
  <2>2. CASE h = from
    BY <2>1, <2>2, <1>2
  <2>3. CASE h # from
    BY <2>1, <2>3, <1>3
  <2>4. QED
    BY <2>2, <2>3
<1>10. QED
  BY <1>2, <1>3, <1>4, <1>7, <1>8, <1>9 DEF OneOwner

-----------------------------------------------------------------------------
(* Every action keeps the types.                                           *)

\* Destroyed items leave well-typed holders.
LEMMA DestroyTypes ==
  ASSUME PicturesAssumption, TypeOK, OneOwner, NEW S \in SUBSET Addrs, Destroy(S)
  PROVE  /\ heap' \in [Addrs -> [content : Contents, self : Addrs \cup {NoAddr}] \cup {Free}]
         /\ held' \in [Holders -> Managed] /\ server' \in [XIds -> Resources \cup {Nothing}]
<1>1. S \in SUBSET Holders /\ End(S)
  BY LocalsAreHolders DEF Destroy
<1>2. held' \in [Holders -> Managed] /\ server' \in [XIds -> Resources \cup {Nothing}]
  BY <1>1, EndOwns
<1>3. heap' \in [Addrs -> [content : Contents, self : Addrs \cup {NoAddr}] \cup {Free}]
  BY DEF Destroy, TypeOK
<1>4. QED
  BY <1>2, <1>3

\* drawAsSvg keeps the types.
LEMMA DrawingTypes ==
  ASSUME PicturesAssumption, Inv, Drawing
  PROVE  TypeOK'
<1> USE LocalsAreHolders DEF drawUnchanged, ioVars
<1>1. TypeOK /\ OneOwner /\ HolderInv /\ StageInv
  BY DEF Inv
<1>2. mainPc \in DrawPcs /\ drawing \in Addrs /\ Live(drawing) /\ heap[drawing] # Free
  BY <1>1 DEF StageInv, Drawing, DrawPcs, NoPicture, ReadsNull, CreatePixmap, NoImage, PutImage,
              LeaveRender, Install, LeaveMake, UseCached, CreateSource, CreateTarget,
              TargetIsMade, Composite, FreeSource, Live
<1>3. heap[drawing] \in [content : Contents, self : Addrs \cup {NoAddr}]
  BY <1>1, <1>2 DEF TypeOK
<1>4. CASE NoPicture \/ ReadsNull \/ UseCached \/ TargetIsMade
  BY <1>1, <1>4 DEF TypeOK, MapOf, NoPicture, ReadsNull, UseCached, TargetIsMade
<1>5. CASE CreatePixmap
  <2>1. ~Owns(held["pixmap"])
    BY <1>1, <1>5 DEF HolderInv, CreatePixmap
  <2>2. Unfilled \in Resources
    BY DEF Resources
  <2>3. held' \in [Holders -> Managed] /\ server' \in [XIds -> Resources \cup {Nothing}]
    BY <1>1, <1>5, <2>1, <2>2, CreateOwns DEF CreatePixmap
  <2>4. QED
    BY <1>1, <1>5, <2>3 DEF TypeOK, MapOf, CreatePixmap
<1>6. CASE CreateSource
  <2>1. ~Owns(held["source"])
    BY <1>1, <1>6 DEF HolderInv, CreateSource
  <2>2. View \in Resources
    BY DEF Resources
  <2>3. held' \in [Holders -> Managed] /\ server' \in [XIds -> Resources \cup {Nothing}]
    BY <1>1, <1>6, <2>1, <2>2, CreateOwns DEF CreateSource
  <2>4. QED
    BY <1>1, <1>6, <2>3 DEF TypeOK, MapOf, CreateSource
<1>7. CASE CreateTarget
  <2>1. ~Owns(held["window"])
    BY <1>7 DEF CreateTarget, NeedsTarget, Owns
  <2>2. View \in Resources
    BY DEF Resources
  <2>3. held' \in [Holders -> Managed] /\ server' \in [XIds -> Resources \cup {Nothing}]
    BY <1>1, <1>7, <2>1, <2>2, CreateOwns DEF CreateTarget
  <2>4. QED
    BY <1>1, <1>7, <2>3 DEF TypeOK, MapOf, CreateTarget
<1>8. CASE NoImage \/ LeaveRender \/ LeaveMake \/ FreeSource
  <2>1. held' \in [Holders -> Managed] /\ server' \in [XIds -> Resources \cup {Nothing}]
    BY <1>1, <1>8, EndOwns DEF NoImage, LeaveRender, LeaveMake, FreeSource
  <2>2. QED
    BY <1>1, <1>8, <2>1 DEF TypeOK, MapOf, NoImage, LeaveRender, LeaveMake, FreeSource
<1>9. CASE PutImage
  <2>1. server' \in [XIds -> Resources \cup {Nothing}]
    BY <1>1, <1>3, <1>9 DEF TypeOK, PutImage, Content, Resources
  <2>2. held' \in [Holders -> Managed]
    BY <1>1, <1>9 DEF TypeOK, PutImage, Managed, MovedFrom
  <2>3. QED
    BY <1>1, <1>9, <2>1, <2>2 DEF TypeOK, MapOf, PutImage
<1>10. CASE Install
  <2>1. held' \in [Holders -> Managed]
    BY <1>1, <1>2, <1>10 DEF TypeOK, Install, Managed, MovedFrom
  <2>2. heap' \in [Addrs -> [content : Contents, self : Addrs \cup {NoAddr}] \cup {Free}]
    BY <1>1, <1>2, <1>3, <1>10 DEF TypeOK, Install
  <2>3. QED
    BY <1>1, <1>10, <2>1, <2>2 DEF TypeOK, MapOf, Install
<1>11. CASE Composite
  <2>1. HasClosure(drawing)
    BY <1>1, <1>11 DEF HolderInv, Composite
  <2>2. Owns(held[drawing]) /\ heap[drawing].self = drawing
    BY <2>1, <1>2 DEF Inv, CapturesItself
  <2>3. server[held[drawing].id] \in Resources
    BY <1>1, <1>2, <2>2 DEF TypeOK, OneOwner, Owns, IsInitialized, Managed
  <2>4. window' \in SUBSET [shape : Resources, place : Contents]
    BY <1>1, <1>3, <1>11, <2>2, <2>3 DEF TypeOK, Composite
  <2>5. QED
    BY <1>1, <1>11, <2>4 DEF TypeOK, MapOf, Composite
<1>12. QED
  BY <1>4, <1>5, <1>6, <1>7, <1>8, <1>9, <1>10, <1>11 DEF Drawing

\* The main thread keeps the types.
LEMMA MainTypes ==
  ASSUME PicturesAssumption, Inv, Main
  PROVE  TypeOK'
<1> USE DEF ioVars, xVars, mainVars
<1>1. TypeOK /\ OneOwner
  BY DEF Inv
<1>2. MapOf(allDraws) /\ NodesOf(allDraws) \subseteq Addrs
  BY <1>1 DEF TypeOK, MapOf, NodesOf
<1>3. CASE OpenDisplay \/ Unsuitable \/ CreateWindow
  BY <1>1, <1>3 DEF TypeOK, MapOf, OpenDisplay, Unsuitable, CreateWindow
<1>4. CASE ShowVersion
  <2>1. NewAddr \in Addrs /\ Banner \in Contents
    BY <1>4, NewAddrIsFree DEF ShowVersion, PicturesAssumption
  <2>2. NewItem(Banner) \in [content : Contents, self : Addrs \cup {NoAddr}]
    BY <2>1 DEF NewItem
  <2>3. heap' \in [Addrs -> [content : Contents, self : Addrs \cup {NoAddr}] \cup {Free}]
    BY <1>1, <1>4, <2>2 DEF TypeOK, ShowVersion
  <2>4. QED
    BY <1>1, <1>4, <2>1, <2>3 DEF TypeOK, MapOf, ShowVersion
<1>5. CASE StartServer
  <2>1. drawing \in Addrs
    BY <1>5 DEF Inv, StageInv, DrawPcs, StartServer
  <2>2. Destroy({drawing})
    BY <1>5 DEF StartServer
  <2>3. /\ heap' \in [Addrs -> [content : Contents, self : Addrs \cup {NoAddr}] \cup {Free}]
        /\ held' \in [Holders -> Managed] /\ server' \in [XIds -> Resources \cup {Nothing}]
    BY <1>1, <2>1, <2>2, DestroyTypes
  <2>4. QED
    BY <1>1, <1>5, <2>3 DEF TypeOK, MapOf, StartServer
<1>6. CASE Drawing
  BY <1>6, DrawingTypes
<1>7. ASSUME NEW k \in Keys, Erase(k) PROVE TypeOK'
  <2>1. Destroy({allDraws[k]}) /\ allDraws[k] \in Addrs
    BY <1>2, <1>7 DEF Erase, MapOf
  <2>2. /\ heap' \in [Addrs -> [content : Contents, self : Addrs \cup {NoAddr}] \cup {Free}]
        /\ held' \in [Holders -> Managed] /\ server' \in [XIds -> Resources \cup {Nothing}]
    BY <1>1, <2>1, DestroyTypes
  <2>3. MapOf(allDraws')
    BY <1>2, <1>7 DEF Erase, MapOf, Without
  <2>4. QED
    BY <1>1, <1>7, <2>2, <2>3 DEF TypeOK, MapOf, Erase
<1>8. CASE BeginFrame \/ SkipFrame \/ Hide \/ Redraw \/ EndFrame \/ ItemDone
  BY <1>1, <1>8 DEF TypeOK, MapOf, BeginFrame, SkipFrame, Hide, Redraw, Cleaned, EndFrame, ItemDone
<1>9. CASE DrawItem
  <2>1. PICK k \in todo : drawing' = allDraws[k] /\ todo' = todo \ {k}
    BY <1>9 DEF DrawItem
  <2>2. k \in DOMAIN allDraws
    BY <1>9, <2>1 DEF Inv, StageInv, TodoInv, InFrame, DrawItem
  <2>3. drawing' \in Addrs /\ todo' \subseteq Keys
    BY <1>1, <1>2, <2>1, <2>2 DEF MapOf, TypeOK
  <2>4. QED
    BY <1>1, <1>9, <2>3 DEF TypeOK, MapOf, DrawItem
<1>10. CASE Stop \/ ExitCommand \/ FrameThrows \/ Joined \/ FinalCleanup
  BY <1>1, <1>10 DEF TypeOK, MapOf, Stop, ExitCommand, FrameThrows, Joined, FinalCleanup
<1>11. CASE DestroyStore
  <2>1. Destroy(NodesOf(allDraws))
    BY <1>11 DEF DestroyStore
  <2>2. /\ heap' \in [Addrs -> [content : Contents, self : Addrs \cup {NoAddr}] \cup {Free}]
        /\ held' \in [Holders -> Managed] /\ server' \in [XIds -> Resources \cup {Nothing}]
    BY <1>1, <1>2, <2>1, DestroyTypes
  <2>3. QED
    BY <1>1, <1>11, <2>2 DEF TypeOK, MapOf, DestroyStore, EmptyMap
<1>12. CASE FreeWindow
  <2>1. held' \in [Holders -> Managed] /\ server' \in [XIds -> Resources \cup {Nothing}]
    BY <1>1, <1>12, EndOwns, LocalsAreHolders DEF FreeWindow
  <2>2. QED
    BY <1>1, <1>12, <2>1 DEF TypeOK, MapOf, FreeWindow
<1>13. CASE CloseDisplay
  BY <1>1, <1>13 DEF TypeOK, MapOf, CloseDisplay
<1>14. QED
  BY <1>3, <1>4, <1>5, <1>6, <1>7, <1>8, <1>9, <1>10, <1>11, <1>12, <1>13 DEF Main

\* The network thread keeps the types.
LEMMA NetworkTypes ==
  ASSUME PicturesAssumption, Inv, Network
  PROVE  TypeOK'
<1> USE DEF ioVars, xVars, mainVars
<1>1. TypeOK /\ OneOwner
  BY DEF Inv
<1>2. /\ MapOf(allDraws) /\ NodesOf(allDraws) \subseteq Addrs
      /\ MapOf(incoming) /\ NodesOf(incoming) \subseteq Addrs
  BY <1>1 DEF TypeOK, MapOf, NodesOf
<1>3. ASSUME NEW k \in Keys, NEW content \in Contents, AddItem(k, content) PROVE TypeOK'
  <2>1. NewItem(content) \in [content : Contents, self : Addrs \cup {NoAddr}]
    BY DEF NewItem
  <2>2. CASE k \in DOMAIN incoming
    BY <1>1, <1>3, <2>1, <2>2 DEF TypeOK, MapOf, AddItem
  <2>3. CASE k \notin DOMAIN incoming
    <3>1. NewAddr \in Addrs
      BY <1>3, <2>3, NewAddrIsFree DEF AddItem
    <3>2. heap' \in [Addrs -> [content : Contents, self : Addrs \cup {NoAddr}] \cup {Free}]
      BY <1>1, <1>3, <2>1, <2>3 DEF TypeOK, AddItem
    <3>3. MapOf(incoming')
      BY <1>2, <1>3, <2>3, <3>1 DEF MapOf, AddItem
    <3>4. QED
      BY <1>1, <1>3, <3>2, <3>3 DEF TypeOK, MapOf, AddItem
  <2>4. QED
    BY <2>2, <2>3
<1>4. CASE DropPayload
  <2>1. Destroy(NodesOf(incoming))
    BY <1>4 DEF DropPayload
  <2>2. /\ heap' \in [Addrs -> [content : Contents, self : Addrs \cup {NoAddr}] \cup {Free}]
        /\ held' \in [Holders -> Managed] /\ server' \in [XIds -> Resources \cup {Nothing}]
    BY <1>1, <1>2, <2>1, DestroyTypes
  <2>3. QED
    BY <1>1, <1>4, <2>2 DEF TypeOK, MapOf, DropPayload, EmptyMap
<1>5. CASE GoMerge \/ NetworkEnds
  BY <1>1, <1>5 DEF TypeOK, MapOf, GoMerge, NetworkEnds
<1>6. CASE Merge
  BY <1>1, <1>6 DEF TypeOK, MapOf, Merge, Merged, Both
<1>7. CASE Clear
  <2>1. Destroy(NodesOf(allDraws))
    BY <1>7 DEF Clear
  <2>2. /\ heap' \in [Addrs -> [content : Contents, self : Addrs \cup {NoAddr}] \cup {Free}]
        /\ held' \in [Holders -> Managed] /\ server' \in [XIds -> Resources \cup {Nothing}]
    BY <1>1, <1>2, <2>1, DestroyTypes
  <2>3. QED
    BY <1>1, <1>7, <2>2 DEF TypeOK, MapOf, Clear, EmptyMap
<1>8. ASSUME NEW k \in Keys, NEW j \in Keys, EraseTwin(k, j) PROVE TypeOK'
  <2>1. Destroy({incoming[k]}) /\ incoming[k] \in Addrs
    BY <1>2, <1>8 DEF EraseTwin, MapOf
  <2>2. /\ heap' \in [Addrs -> [content : Contents, self : Addrs \cup {NoAddr}] \cup {Free}]
        /\ held' \in [Holders -> Managed] /\ server' \in [XIds -> Resources \cup {Nothing}]
    BY <1>1, <2>1, DestroyTypes
  <2>3. MapOf(incoming')
    BY <1>2, <1>8 DEF EraseTwin, MapOf, Without
  <2>4. QED
    BY <1>1, <1>8, <2>2, <2>3 DEF TypeOK, MapOf, EraseTwin
<1>9. CASE Publish
  BY <1>1, <1>9 DEF TypeOK, MapOf, Publish, EmptyMap
<1>10. QED
  BY <1>3, <1>4, <1>5, <1>6, <1>7, <1>8, <1>9 DEF Network

-----------------------------------------------------------------------------
(* Stages and maps.                                                        *)

\* A step of drawAsSvg leaves the maps, the mutex and the item in work alone.
LEMMA DrawingStage ==
  ASSUME PicturesAssumption, Inv, Drawing
  PROVE  /\ UNCHANGED <<display, gc, allDraws, incoming, ioPc, drawing, todo, shouldStop, mutex>>
         /\ mainPc \in DrawPcs /\ mainPc' \in DrawPcs \cup {"crashed"}
         /\ drawing \in Addrs /\ Live(drawing)
         /\ \A a \in Addrs : Live(a)' <=> Live(a)
         /\ \A a \in Addrs \ {drawing} : heap'[a] = heap[a]
         /\ heap'[drawing].content = heap[drawing].content
         /\ NodeInv' /\ StageInv'
<1> USE DEF drawUnchanged, ioVars
<1>1. /\ UNCHANGED <<display, gc, allDraws, incoming, ioPc, drawing, todo, shouldStop, mutex>>
      /\ mainPc \in DrawPcs /\ mainPc' \in DrawPcs \cup {"crashed"}
  BY DEF Drawing, DrawPcs, NoPicture, ReadsNull, CreatePixmap, NoImage, PutImage,
         LeaveRender, Install, LeaveMake, UseCached, CreateSource, CreateTarget,
         TargetIsMade, Composite, FreeSource
<1>2. drawing \in Addrs /\ Live(drawing)
  BY <1>1 DEF Inv, StageInv
<1>3. heap[drawing] \in [content : Contents, self : Addrs \cup {NoAddr}]
  BY <1>2 DEF Inv, TypeOK, Live
<1>4. heap' = heap \/ heap' = [heap EXCEPT ![drawing].self = drawing]
  BY DEF Drawing, NoPicture, ReadsNull, CreatePixmap, NoImage, PutImage,
         LeaveRender, Install, LeaveMake, UseCached, CreateSource, CreateTarget,
         TargetIsMade, Composite, FreeSource
<1>5. \A a \in Addrs \ {drawing} : heap'[a] = heap[a]
  BY <1>4 DEF Inv, TypeOK
<1>6. heap'[drawing].content = heap[drawing].content /\ heap'[drawing] # Free
  <2>1. CASE heap' = heap
    BY <2>1, <1>2 DEF Live
  <2>2. CASE heap' = [heap EXCEPT ![drawing].self = drawing]
    <3>1. heap'[drawing] = [content |-> heap[drawing].content, self |-> drawing]
      BY <1>2, <1>3, <2>2 DEF Inv, TypeOK
    <3>2. heap[drawing].content \in Contents
      BY <1>3
    <3>3. QED
      BY <1>2, <3>1, <3>2, ItemsAreNotFree
  <2>3. QED
    BY <1>4, <2>1, <2>2
<1>7. \A a \in Addrs : Live(a)' <=> Live(a)
  BY <1>2, <1>5, <1>6 DEF Live
<1>8. MapOf(allDraws) /\ MapOf(incoming)
  BY DEF Inv, TypeOK
<1>9. NodeInv'
  BY <1>1, <1>7, <1>8 DEF Inv, NodeInv, MapOf
<1>10. StageInv'
  <2>1. Live(drawing)'
    BY <1>1, <1>2, <1>7
  <2>2. mainPc' \notin {"purge", "next", "start", "opened", "windowed", "returning", "cleaned",
                        "statics", "freed", "ended"} /\ mainPc \notin EndPcs
    BY <1>1 DEF DrawPcs, EndPcs
  <2>3. QED
    BY <1>1, <1>2, <2>1, <2>2 DEF Inv, StageInv, DrawPcs, EndPcs
<1>11. QED
  BY <1>1, <1>2, <1>5, <1>6, <1>7, <1>9, <1>10

\* The destructor of items ends them, and what is at the other addresses stays.
LEMMA DestroyItems ==
  ASSUME PicturesAssumption, TypeOK, OneOwner, CapturesItself, NEW S \in SUBSET Addrs, Destroy(S)
  PROVE  /\ \A a \in S : heap'[a] = Free
         /\ \A a \in Addrs \ S : heap'[a] = heap[a]
         /\ \A h \in Holders \ S : held'[h] = held[h]
         /\ \A h \in S : ~Owns(held'[h])
         /\ \A h \in Holders \ S : Owns(held[h]) => server'[held[h].id] = server[held[h].id]
         /\ OneOwner' /\ CapturesItself'
<1>1. S \in SUBSET Holders /\ End(S)
  BY LocalsAreHolders DEF Destroy
<1>2. /\ OneOwner'
      /\ \A h \in S : ~Owns(held'[h])
      /\ \A h \in Holders \ S : held'[h] = held[h]
      /\ \A h \in Holders \ S : Owns(held[h]) => server'[held[h].id] = server[held[h].id]
  BY <1>1, EndOwns
<1>3. (\A a \in S : heap'[a] = Free) /\ \A a \in Addrs \ S : heap'[a] = heap[a]
  BY DEF Destroy
<1>4. CapturesItself'
  <2> SUFFICES ASSUME NEW a \in Addrs
               PROVE  /\ HasClosure(a)' => heap'[a].self = a /\ Owns(held'[a])
                      /\ Owns(held'[a]) => HasClosure(a)'
    BY DEF CapturesItself, Owns, IsInitialized
  <2>1. CASE a \in S
    BY <2>1, <1>2, <1>3 DEF HasClosure
  <2>2. CASE a \notin S
    <3>1. heap'[a] = heap[a] /\ held'[a] = held[a]
      BY <2>2, <1>2, <1>3, LocalsAreHolders
    <3>2. HasClosure(a)' <=> HasClosure(a)
      BY <3>1 DEF HasClosure
    <3>3. QED
      BY <3>1, <3>2 DEF CapturesItself
  <2>3. QED
    BY <2>1, <2>2
<1>5. QED
  BY <1>2, <1>3, <1>4

\* The main thread keeps every item in one map, and the stages apart.
LEMMA MainStage ==
  ASSUME PicturesAssumption, Inv, Main
  PROVE  NodeInv' /\ StageInv'
<1> USE DEF ioVars, xVars, mainVars
<1>1. /\ TypeOK /\ OneOwner /\ CapturesItself /\ NodeInv /\ StageInv
      /\ MapOf(allDraws) /\ MapOf(incoming)
  BY DEF Inv, TypeOK
<1>2. CASE OpenDisplay
  BY <1>1, <1>2 DEF NodeInv, StageInv, Live, OpenDisplay, DrawPcs, EndPcs
<1>3. CASE Unsuitable \/ CreateWindow
  <2>1. NodeInv'
    BY <1>1, <1>3 DEF NodeInv, Live, Unsuitable, CreateWindow
  <2>2. StageInv'
    BY <1>1, <1>3 DEF StageInv, Unsuitable, CreateWindow, DrawPcs, EndPcs
  <2>3. QED
    BY <2>1, <2>2
<1>4. CASE ShowVersion
  <2>1. NewAddr \in Addrs /\ heap[NewAddr] = Free
    BY <1>4, NewAddrIsFree DEF ShowVersion
  <2>2. NewItem(Banner) # Free
    BY ItemsAreNotFree DEF NewItem, PicturesAssumption
  <2>3. /\ mainPc = "windowed" /\ ioPc = "off" /\ UNCHANGED <<display, allDraws, incoming, ioPc, mutex>>
        /\ mainPc' = "draw" /\ DOMAIN allDraws = {} /\ DOMAIN incoming = {}
    BY <1>1, <1>4 DEF StageInv, ShowVersion
  <2>4. drawing' \in Addrs /\ Live(drawing)' /\ \A a \in Addrs \ {drawing'} : heap'[a] = heap[a]
    BY <1>1, <1>4, <2>1, <2>2 DEF TypeOK, Live, ShowVersion
  <2>5. \A a \in Addrs : ~Live(a)
    BY <1>1, <2>3 DEF NodeInv, StageInv, DrawPcs, PicturesAssumption
  <2>6. NodeInv'
    BY <2>3, <2>4, <2>5 DEF NodeInv, Live
  <2>7. StageInv'
    BY <1>1, <2>3, <2>4 DEF StageInv, DrawPcs, EndPcs
  <2>8. QED
    BY <2>6, <2>7
<1>5. CASE StartServer
  <2>1. drawing \in Addrs /\ Destroy({drawing}) /\ DOMAIN allDraws = {} /\ DOMAIN incoming = {}
    BY <1>1, <1>5 DEF StageInv, DrawPcs, StartServer
  <2>2. heap'[drawing] = Free /\ \A a \in Addrs \ {drawing} : heap'[a] = heap[a]
    BY <1>1, <2>1, DestroyItems
  <2>3. NodeInv'
    BY <1>1, <1>5, <2>1, <2>2 DEF NodeInv, Live, StartServer
  <2>4. StageInv'
    BY <1>1, <1>5, <2>1 DEF StageInv, StartServer, DrawPcs, EndPcs
  <2>5. QED
    BY <2>3, <2>4
<1>6. CASE Drawing
  BY <1>6, DrawingStage
<1>7. ASSUME NEW k \in Keys, Erase(k) PROVE NodeInv' /\ StageInv'
  <2>1. Destroy({allDraws[k]}) /\ allDraws[k] \in Addrs /\ k \in DOMAIN allDraws
    BY <1>1, <1>7 DEF Erase, MapOf
  <2>2. heap'[allDraws[k]] = Free /\ \A a \in Addrs \ {allDraws[k]} : heap'[a] = heap[a]
    BY <1>1, <2>1, DestroyItems
  <2>3. /\ DOMAIN allDraws' = DOMAIN allDraws \ {k}
        /\ \A j \in DOMAIN allDraws' : allDraws'[j] = allDraws[j]
    BY <1>7 DEF Erase, Without
  <2>4. ioPc # "off" /\ UNCHANGED <<display, gc, window, ioVars, mainVars, mutex>> /\ mainPc = "purge"
    BY <1>1, <1>7 DEF Erase, StageInv, DrawPcs
  <2>5. NodeInv'
    <3>1. \A j \in DOMAIN allDraws' : allDraws'[j] # allDraws[k] /\ allDraws'[j] \in Addrs
      BY <1>1, <2>1, <2>3 DEF NodeInv, MapOf
    <3>2. \A j \in DOMAIN incoming : incoming[j] # allDraws[k] /\ incoming[j] \in Addrs
      BY <1>1, <2>1 DEF NodeInv, MapOf
    <3>3. \A j \in DOMAIN allDraws' : heap'[allDraws'[j]] # Free
      BY <1>1, <2>2, <2>3, <3>1 DEF NodeInv, Live
    <3>4. \A j \in DOMAIN incoming : heap'[incoming[j]] # Free
      BY <1>1, <2>2, <2>4, <3>2 DEF NodeInv, Live
    <3>5. \A a \in Addrs : Live(a)' => a # allDraws[k] /\ Live(a)
      BY <2>2 DEF Live
    <3>6. \A a \in Addrs : Live(a)' =>
             \/ \E j \in DOMAIN allDraws' : a = allDraws'[j]
             \/ \E j \in DOMAIN incoming' : a = incoming'[j]
             \/ ioPc' = "off" /\ a = drawing'
      BY <1>1, <2>3, <2>4, <3>5 DEF NodeInv
    <3>7. QED
      BY <1>1, <2>3, <2>4, <3>3, <3>4, <3>6 DEF NodeInv, Live
  <2>6. StageInv'
    BY <1>1, <2>3, <2>4 DEF StageInv, DrawPcs, EndPcs
  <2>7. QED
    BY <2>5, <2>6
<1>8. CASE BeginFrame \/ SkipFrame \/ Hide \/ Redraw \/ EndFrame
  <2>1. NodeInv'
    BY <1>1, <1>8 DEF NodeInv, Live, BeginFrame, SkipFrame, Hide, Redraw, EndFrame
  <2>2. StageInv'
    BY <1>1, <1>8 DEF StageInv, BeginFrame, SkipFrame, Hide, Redraw, EndFrame, DrawPcs, EndPcs
  <2>3. QED
    BY <2>1, <2>2
<1>9. CASE ItemDone
  <2>1. NodeInv'
    BY <1>1, <1>9 DEF NodeInv, Live, ItemDone
  <2>2. StageInv'
    BY <1>1, <1>9 DEF StageInv, ItemDone, DrawPcs, EndPcs
  <2>3. QED
    BY <2>1, <2>2
<1>10. CASE DrawItem
  <2>1. PICK k \in todo : drawing' = allDraws[k] /\ todo' = todo \ {k}
    BY <1>10 DEF DrawItem
  <2>2. k \in DOMAIN allDraws /\ mutex = "main" /\ ioPc # "off"
    BY <1>1, <1>10, <2>1 DEF Inv, StageInv, TodoInv, InFrame, DrawItem
  <2>3. drawing' \in Addrs /\ Live(allDraws[k]) /\ UNCHANGED <<heap, xVars, allDraws, ioVars, mutex>>
    BY <1>1, <1>10, <2>1, <2>2 DEF MapOf, NodeInv, DrawItem
  <2>4. NodeInv'
    BY <1>1, <2>2, <2>3 DEF NodeInv, Live
  <2>5. StageInv'
    BY <1>1, <1>10, <2>1, <2>2, <2>3 DEF StageInv, Live, DrawItem, DrawPcs, EndPcs
  <2>6. QED
    BY <2>4, <2>5
<1>11. CASE Stop \/ ExitCommand \/ FrameThrows
  <2>1. NodeInv'
    BY <1>1, <1>11 DEF NodeInv, StageInv, Live, Stop, ExitCommand, FrameThrows
  <2>2. StageInv'
    BY <1>1, <1>11 DEF StageInv, Stop, ExitCommand, FrameThrows, DrawPcs, EndPcs
  <2>3. QED
    BY <2>1, <2>2
<1>12. CASE Joined \/ FinalCleanup
  <2>1. NodeInv'
    BY <1>1, <1>12 DEF NodeInv, Live, Joined, FinalCleanup
  <2>2. StageInv'
    BY <1>1, <1>12 DEF StageInv, Joined, NetworkDone, FinalCleanup, DrawPcs, EndPcs
  <2>3. QED
    BY <2>1, <2>2
<1>13. CASE DestroyStore
  <2>1. /\ Destroy(NodesOf(allDraws)) /\ NodesOf(allDraws) \in SUBSET Addrs
        /\ DOMAIN allDraws' = {} /\ ioPc = "gone" /\ DOMAIN incoming = {}
        /\ UNCHANGED <<ioVars, display, drawing, mutex>> /\ mainPc' = "statics" /\ mainPc = "cleaned"
    BY <1>1, <1>13 DEF DestroyStore, NodesOf, MapOf, EmptyMap, StageInv
  <2>2. \A a \in NodesOf(allDraws) : heap'[a] = Free
    BY <1>1, <2>1, DestroyItems
  <2>3. \A a \in Addrs \ NodesOf(allDraws) : heap'[a] = heap[a]
    BY <1>1, <2>1, DestroyItems
  <2>4. NodeInv'
    BY <1>1, <2>1, <2>2, <2>3 DEF NodeInv, Live, NodesOf
  <2>5. StageInv'
    BY <1>1, <2>1 DEF StageInv, DrawPcs, EndPcs
  <2>6. QED
    BY <2>4, <2>5
<1>14. CASE FreeWindow \/ CloseDisplay
  <2>1. NodeInv'
    BY <1>1, <1>14 DEF NodeInv, Live, FreeWindow, CloseDisplay
  <2>2. StageInv'
    BY <1>1, <1>14 DEF StageInv, FreeWindow, CloseDisplay, DrawPcs, EndPcs
  <2>3. QED
    BY <2>1, <2>2
<1>15. QED
  BY <1>2, <1>3, <1>4, <1>5, <1>6, <1>7, <1>8, <1>9, <1>10, <1>11, <1>12, <1>13, <1>14 DEF Main

\* So does the network thread.
LEMMA NetworkStage ==
  ASSUME PicturesAssumption, Inv, mainPc # "crashed", Network
  PROVE  NodeInv' /\ StageInv'
<1> USE DEF ioVars, xVars, mainVars
<1>1. /\ TypeOK /\ OneOwner /\ CapturesItself /\ NodeInv /\ StageInv
      /\ MapOf(allDraws) /\ MapOf(incoming)
  BY DEF Inv, TypeOK
<1>2. ASSUME NEW k \in Keys, NEW content \in Contents, AddItem(k, content)
      PROVE  NodeInv' /\ StageInv'
  <2>1. /\ ioPc = "read" /\ UNCHANGED <<display, allDraws, ioPc, mainPc, drawing, mutex>>
        /\ NewItem(content) # Free
    BY <1>2, ItemsAreNotFree DEF AddItem, NewItem
  <2>2. CASE k \in DOMAIN incoming
    <3>1. heap' = [heap EXCEPT ![incoming[k]] = NewItem(content)] /\ incoming' = incoming
      BY <1>2, <2>2 DEF AddItem
    <3>2. incoming[k] \in Addrs /\ Live(incoming[k])
      BY <1>1, <2>2 DEF NodeInv, MapOf
    <3>3. \A a \in Addrs : Live(a)' <=> Live(a)
      BY <1>1, <2>1, <3>1, <3>2 DEF Live, TypeOK
    <3>4. NodeInv'
      BY <1>1, <2>1, <3>1, <3>3 DEF NodeInv, MapOf
    <3>5. StageInv'
      BY <1>1, <2>1, <3>1, <3>3 DEF StageInv
    <3>6. QED
      BY <3>4, <3>5
  <2>3. CASE k \notin DOMAIN incoming
    <3>1. NewAddr \in Addrs /\ heap[NewAddr] = Free
      BY <1>2, <2>3, NewAddrIsFree DEF AddItem
    <3>2. /\ heap' = [heap EXCEPT ![NewAddr] = NewItem(content)]
          /\ incoming' = [j \in DOMAIN incoming \cup {k} |->
                            IF j = k THEN NewAddr ELSE incoming[j]]
      BY <1>2, <2>3 DEF AddItem
    <3> HIDE DEF NewAddr
    <3>3. \A a \in Addrs : Live(a)' <=> Live(a) \/ a = NewAddr
      BY <1>1, <2>1, <3>1, <3>2 DEF Live, TypeOK
    <3>4. DOMAIN incoming' = DOMAIN incoming \cup {k} /\ incoming'[k] = NewAddr
      BY <3>2
    <3>5. \A j \in DOMAIN incoming : incoming'[j] = incoming[j] /\ incoming[j] # NewAddr
      BY <1>1, <2>3, <3>1, <3>2 DEF NodeInv, Live
    <3>6. \A j \in DOMAIN allDraws : allDraws[j] # NewAddr
      BY <1>1, <3>1 DEF NodeInv, Live
    <3>7. NodeInv'
      <4>1. \A i, j \in DOMAIN incoming' : incoming'[i] = incoming'[j] => i = j
        BY <1>1, <2>3, <3>4, <3>5 DEF NodeInv
      <4>2. \A i \in DOMAIN allDraws, j \in DOMAIN incoming' : allDraws[i] # incoming'[j]
        BY <1>1, <3>4, <3>5, <3>6 DEF NodeInv
      <4>3. \A i \in DOMAIN allDraws : heap'[allDraws[i]] # Free
        BY <1>1, <3>3 DEF NodeInv, MapOf, Live
      <4>4. \A i \in DOMAIN incoming' : heap'[incoming'[i]] # Free
        BY <1>1, <3>1, <3>3, <3>4, <3>5 DEF NodeInv, MapOf, Live
      <4>5. \A a \in Addrs : Live(a)' =>
               \/ \E j \in DOMAIN allDraws : a = allDraws[j]
               \/ \E j \in DOMAIN incoming' : a = incoming'[j]
               \/ ioPc = "off" /\ a = drawing
        BY <1>1, <3>3, <3>4, <3>5 DEF NodeInv
      <4>6. QED
        BY <1>1, <2>1, <4>1, <4>2, <4>3, <4>4, <4>5 DEF NodeInv, Live
    <3>8. StageInv'
      BY <1>1, <2>1, <3>3, <3>4 DEF StageInv
    <3>9. QED
      BY <3>7, <3>8
  <2>4. QED
    BY <2>2, <2>3
<1>3. CASE DropPayload
  <2>1. /\ Destroy(NodesOf(incoming)) /\ NodesOf(incoming) \in SUBSET Addrs
        /\ DOMAIN incoming' = {} /\ ioPc = "read"
        /\ UNCHANGED <<allDraws, display, ioPc, mainPc, drawing, mutex>>
    BY <1>1, <1>3 DEF DropPayload, NodesOf, MapOf, EmptyMap
  <2>2. \A a \in NodesOf(incoming) : heap'[a] = Free
    BY <1>1, <2>1, DestroyItems
  <2>3. \A a \in Addrs \ NodesOf(incoming) : heap'[a] = heap[a]
    BY <1>1, <2>1, DestroyItems
  <2>4. \A k \in DOMAIN allDraws : allDraws[k] \in Addrs \ NodesOf(incoming)
    BY <1>1 DEF NodeInv, NodesOf, MapOf
  <2>5. NodeInv'
    BY <1>1, <2>1, <2>2, <2>3, <2>4 DEF NodeInv, Live, NodesOf
  <2>6. StageInv'
    <3>1. mainPc \in DrawPcs => Live(drawing)'
      BY <1>1, <2>1, <2>3, <2>4 DEF StageInv, Live
    <3>2. QED
      BY <1>1, <2>1, <3>1 DEF StageInv
  <2>7. QED
    BY <2>5, <2>6
<1>4. CASE GoMerge
  <2>1. NodeInv'
    BY <1>1, <1>4 DEF NodeInv, Live, GoMerge
  <2>2. StageInv'
    BY <1>1, <1>4 DEF StageInv, Live, GoMerge, EndPcs
  <2>3. QED
    BY <2>1, <2>2
<1>5. CASE NetworkEnds
  <2>1. NodeInv'
    BY <1>1, <1>5 DEF NodeInv, Live, NetworkEnds
  <2>2. StageInv'
    BY <1>1, <1>5 DEF StageInv, Live, NetworkEnds
  <2>3. QED
    BY <2>1, <2>2
<1>6. CASE Merge
  <2>1. /\ DOMAIN incoming' = DOMAIN allDraws \cup DOMAIN incoming
        /\ \A k \in DOMAIN incoming : incoming'[k] = incoming[k]
        /\ \A k \in DOMAIN allDraws \ DOMAIN incoming : incoming'[k] = allDraws[k]
    BY <1>6 DEF Merge
  <2>2. /\ DOMAIN allDraws' = DOMAIN allDraws \cap DOMAIN incoming
        /\ \A k \in DOMAIN allDraws' : allDraws'[k] = allDraws[k]
    BY <1>6 DEF Merge, Both
  <2>3. heap' = heap /\ ioPc # "off" /\ mainPc \notin DrawPcs
    BY <1>1, <1>6 DEF Merge, Merged, StageInv
  <2>4. NodeInv'
    <3>1. \A k, j \in DOMAIN incoming' : incoming'[k] = incoming'[j] => k = j
      BY <1>1, <2>1 DEF NodeInv
    <3>2. \A k \in DOMAIN allDraws', j \in DOMAIN incoming' : allDraws'[k] # incoming'[j]
      BY <1>1, <2>1, <2>2 DEF NodeInv
    <3>3. \A k \in DOMAIN allDraws' : heap'[allDraws'[k]] # Free
      BY <1>1, <2>2, <2>3 DEF NodeInv, Live
    <3>4. \A k \in DOMAIN incoming' : heap'[incoming'[k]] # Free
      BY <1>1, <2>1, <2>3 DEF NodeInv, Live
    <3>5. \A a \in Addrs : Live(a)' =>
             \/ \E k \in DOMAIN allDraws' : a = allDraws'[k]
             \/ \E k \in DOMAIN incoming' : a = incoming'[k]
      <4> SUFFICES ASSUME NEW a \in Addrs, Live(a)
                   PROVE  \/ \E k \in DOMAIN allDraws' : a = allDraws'[k]
                          \/ \E k \in DOMAIN incoming' : a = incoming'[k]
        BY <2>3 DEF Live
      <4>1. (\E k \in DOMAIN allDraws : a = allDraws[k]) \/ \E k \in DOMAIN incoming : a = incoming[k]
        BY <1>1, <2>3 DEF NodeInv
      <4>2. CASE \E k \in DOMAIN incoming : a = incoming[k]
        BY <4>2, <2>1
      <4>3. CASE \E k \in DOMAIN allDraws : a = allDraws[k]
        BY <4>3, <2>1, <2>2
      <4>4. QED
        BY <4>1, <4>2, <4>3
    <3>6. \A k, j \in DOMAIN allDraws' : allDraws'[k] = allDraws'[j] => k = j
      BY <1>1, <2>2 DEF NodeInv
    <3>7. QED
      BY <3>1, <3>2, <3>3, <3>4, <3>5, <3>6 DEF NodeInv, Live
  <2>5. StageInv'
    BY <1>1, <1>6, <2>3 DEF StageInv, Merge, EndPcs
  <2>6. QED
    BY <2>4, <2>5
<1>7. CASE Clear
  <2>1. /\ Destroy(NodesOf(allDraws)) /\ NodesOf(allDraws) \in SUBSET Addrs
        /\ DOMAIN allDraws' = {} /\ ioPc = "clear" /\ ioPc' = "dedup"
        /\ UNCHANGED <<incoming, display, mainPc, drawing, mutex>>
    BY <1>1, <1>7 DEF Clear, NodesOf, MapOf, EmptyMap
  <2>2. \A a \in NodesOf(allDraws) : heap'[a] = Free
    BY <1>1, <2>1, DestroyItems
  <2>3. \A a \in Addrs \ NodesOf(allDraws) : heap'[a] = heap[a]
    BY <1>1, <2>1, DestroyItems
  <2>4. \A k \in DOMAIN incoming : incoming[k] \in Addrs \ NodesOf(allDraws)
    BY <1>1 DEF NodeInv, NodesOf, MapOf
  <2>5. mutex = "io" /\ mainPc \notin DrawPcs
    BY <1>1, <2>1 DEF StageInv
  <2>6. NodeInv'
    BY <1>1, <2>1, <2>2, <2>3, <2>4 DEF NodeInv, Live, NodesOf
  <2>7. StageInv'
    BY <1>1, <2>1, <2>5 DEF StageInv
  <2>8. QED
    BY <2>6, <2>7
<1>8. ASSUME NEW k \in Keys, NEW j \in Keys, EraseTwin(k, j)
      PROVE  NodeInv' /\ StageInv'
  <2>1. /\ Destroy({incoming[k]}) /\ incoming[k] \in Addrs /\ k \in DOMAIN incoming
        /\ ioPc = "dedup" /\ UNCHANGED <<allDraws, display, ioPc, mainPc, drawing, mutex>>
    BY <1>1, <1>8 DEF EraseTwin, MapOf
  <2>2. heap'[incoming[k]] = Free /\ \A a \in Addrs \ {incoming[k]} : heap'[a] = heap[a]
    BY <1>1, <2>1, DestroyItems
  <2>3. /\ DOMAIN incoming' = DOMAIN incoming \ {k}
        /\ \A i \in DOMAIN incoming' : incoming'[i] = incoming[i]
    BY <1>8 DEF EraseTwin, Without
  <2>4. \A i \in DOMAIN incoming' : incoming'[i] # incoming[k] /\ incoming'[i] \in Addrs
    BY <1>1, <2>1, <2>3 DEF NodeInv, MapOf
  <2>5. DOMAIN allDraws = {} /\ mutex = "io" /\ mainPc \notin DrawPcs
    BY <1>1, <2>1 DEF StageInv
  <2>6. NodeInv'
    <3>1. \A i \in DOMAIN incoming' : heap'[incoming'[i]] # Free
      BY <1>1, <2>2, <2>3, <2>4 DEF NodeInv, Live
    <3>2. \A a \in Addrs : Live(a)' => a # incoming[k] /\ Live(a)
      BY <2>2 DEF Live
    <3>3. \A a \in Addrs : Live(a)' => \E i \in DOMAIN incoming' : a = incoming'[i]
      BY <1>1, <2>1, <2>3, <2>5, <3>2 DEF NodeInv
    <3>4. \A i, l \in DOMAIN incoming' : incoming'[i] = incoming'[l] => i = l
      BY <1>1, <2>3 DEF NodeInv
    <3>5. QED
      BY <2>1, <2>5, <3>1, <3>3, <3>4 DEF NodeInv, Live
  <2>7. StageInv'
    BY <1>1, <2>1, <2>5 DEF StageInv
  <2>8. QED
    BY <2>6, <2>7
<1>9. CASE Publish
  <2>1. /\ allDraws' = incoming /\ DOMAIN incoming' = {} /\ ioPc = "dedup" /\ ioPc' = "read"
        /\ mutex' = "free" /\ UNCHANGED <<heap, display, mainPc, drawing>>
    BY <1>9 DEF Publish, EmptyMap
  <2>2. DOMAIN allDraws = {} /\ mutex = "io" /\ mainPc \notin DrawPcs
    BY <1>1, <2>1 DEF StageInv
  <2>3. NodeInv'
    BY <1>1, <2>1, <2>2 DEF NodeInv, Live
  <2>4. StageInv'
    BY <1>1, <2>1, <2>2 DEF StageInv
  <2>5. QED
    BY <2>3, <2>4
<1>10. QED
  BY <1>2, <1>3, <1>4, <1>5, <1>6, <1>7, <1>8, <1>9 DEF Network

-----------------------------------------------------------------------------
(* Owners and pictures.                                                    *)

OwnerInv == OneOwner /\ CapturesItself /\ HolderInv /\ PictureInv

\* Items are left alone: so are the closures and what their pixmaps show.
LEMMA ItemsKept ==
  ASSUME TypeOK, OneOwner, CapturesItself, heap' = heap, \A a \in Addrs : held'[a] = held[a],
         \A a \in Addrs : Owns(held[a]) => server'[held[a].id] = server[held[a].id]
  PROVE  /\ CapturesItself'
         /\ \A a : HasClosure(a)' <=> HasClosure(a)
         /\ (\A a \in Addrs : HasClosure(a) => server[held[a].id] = heap[a].content) =>
              \A a \in Addrs : HasClosure(a)' => server'[held'[a].id] = heap'[a].content
<1>1. \A a : HasClosure(a)' <=> HasClosure(a)
  BY DEF HasClosure
<1>2. CapturesItself'
  BY <1>1 DEF CapturesItself, HasClosure, Owns, IsInitialized
<1>3. QED
  BY <1>1, <1>2 DEF CapturesItself

\* The stages of the main thread that the moves of ids depend on.
OwningPcs == {"image", "return", "install", "made", "render", "compose", "composite", "composed",
              "start", "opened", "windowed", "freed", "ended"}

\* Nothing is created, moved or given back.
LEMMA NoTransfer ==
  ASSUME PicturesAssumption, Inv, UNCHANGED <<heap, held, server>>,
         mainPc \notin OwningPcs /\ mainPc' \notin OwningPcs,
         \A k \in DOMAIN incoming' : ioPc' \in {"off", "read", "lock"} => ~HasClosure(incoming'[k])
  PROVE  OwnerInv'
<1>1. /\ TypeOK /\ OneOwner /\ CapturesItself /\ HolderInv /\ PictureInv
  BY DEF Inv
<1>2. \A a : HasClosure(a)' <=> HasClosure(a)
  BY DEF HasClosure
<1>3. OneOwner' /\ CapturesItself'
  BY <1>1, <1>2 DEF OneOwner, CapturesItself
<1>4. HolderInv'
  BY <1>1, <1>2 DEF HolderInv, OwningPcs, HasClosure
<1>5. PictureInv'
  BY <1>1, <1>2 DEF PictureInv, OwningPcs
<1>6. QED
  BY <1>3, <1>4, <1>5 DEF OwnerInv

\* Drawing keeps the owners: every id is created, moved and given back once.
LEMMA DrawingOwner ==
  ASSUME PicturesAssumption, Inv, Drawing
  PROVE  OwnerInv'
<1> USE LocalsAreHolders
<1>1. TypeOK /\ OneOwner /\ CapturesItself /\ HolderInv /\ PictureInv /\ StageInv
  BY DEF Inv
<1>2. /\ UNCHANGED <<incoming, ioPc, drawing>> /\ mainPc \in DrawPcs
      /\ drawing \in Addrs /\ Live(drawing)
  BY DrawingStage
<1>3. held \in [Holders -> Managed]
  BY <1>1 DEF TypeOK
<1>4. CASE CreatePixmap
  <2>1. ~Owns(held["pixmap"]) /\ Create("pixmap", Unfilled) /\ Unfilled \in Resources
    BY <1>1, <1>4 DEF HolderInv, CreatePixmap, Resources
  <2>2. /\ OneOwner' /\ Owns(held'["pixmap"])
        /\ \A h \in Holders \ {"pixmap"} : held'[h] = held[h]
        /\ \A h \in Holders \ {"pixmap"} : Owns(held[h]) => server'[held[h].id] = server[held[h].id]
    BY <1>1, <2>1, CreateOwns
  <2>3. heap' = heap /\ mainPc = "draw" /\ mainPc' = "image" /\ ~HasClosure(drawing)
    BY <1>4 DEF CreatePixmap, Cached
  <2>4. /\ CapturesItself'
        /\ \A a : HasClosure(a)' <=> HasClosure(a)
        /\ \A a \in Addrs : HasClosure(a)' => server'[held'[a].id] = heap'[a].content
    BY <1>1, <2>2, <2>3, ItemsKept DEF PictureInv
  <2>5. HolderInv'
    BY <1>1, <1>2, <2>2, <2>3, <2>4 DEF HolderInv, Owns, IsInitialized
  <2>6. QED
    BY <2>2, <2>3, <2>4, <2>5 DEF OwnerInv, PictureInv
<1>5. CASE CreateSource
  <2>1. ~Owns(held["source"]) /\ Create("source", View) /\ View \in Resources
    BY <1>1, <1>5 DEF HolderInv, CreateSource, Resources
  <2>2. /\ OneOwner' /\ Owns(held'["source"])
        /\ \A h \in Holders \ {"source"} : held'[h] = held[h]
        /\ \A h \in Holders \ {"source"} : Owns(held[h]) => server'[held[h].id] = server[held[h].id]
    BY <1>1, <2>1, CreateOwns
  <2>3. heap' = heap /\ mainPc = "render" /\ mainPc' = "compose"
    BY <1>5 DEF CreateSource
  <2>4. /\ CapturesItself'
        /\ \A a : HasClosure(a)' <=> HasClosure(a)
        /\ \A a \in Addrs : HasClosure(a)' => server'[held'[a].id] = heap'[a].content
    BY <1>1, <2>2, <2>3, ItemsKept DEF PictureInv
  <2>5. HolderInv'
    BY <1>1, <1>2, <2>2, <2>3, <2>4 DEF HolderInv, Owns, IsInitialized
  <2>6. QED
    BY <2>2, <2>3, <2>4, <2>5 DEF OwnerInv, PictureInv
<1>6. CASE CreateTarget
  <2>1. ~Owns(held["window"]) /\ Create("window", View) /\ View \in Resources
    BY <1>6 DEF CreateTarget, NeedsTarget, Owns, Resources
  <2>2. /\ OneOwner' /\ Owns(held'["window"])
        /\ \A h \in Holders \ {"window"} : held'[h] = held[h]
        /\ \A h \in Holders \ {"window"} : Owns(held[h]) => server'[held[h].id] = server[held[h].id]
    BY <1>1, <2>1, CreateOwns
  <2>3. heap' = heap /\ mainPc = "compose" /\ mainPc' = "composite"
    BY <1>6 DEF CreateTarget
  <2>4. /\ CapturesItself'
        /\ \A a : HasClosure(a)' <=> HasClosure(a)
        /\ \A a \in Addrs : HasClosure(a)' => server'[held'[a].id] = heap'[a].content
    BY <1>1, <2>2, <2>3, ItemsKept DEF PictureInv
  <2>5. HolderInv'
    BY <1>1, <1>2, <2>2, <2>3, <2>4 DEF HolderInv, Owns, IsInitialized
  <2>6. QED
    BY <2>2, <2>3, <2>4, <2>5 DEF OwnerInv, PictureInv
<1>7. ASSUME NEW h \in {"pixmap", "made", "source"}, End({h}), heap' = heap,
             mainPc' \notin {"start", "opened", "windowed", "freed", "ended"},
             \/ h = "pixmap" /\ mainPc = "image" /\ mainPc' = "drawn"
             \/ h = "pixmap" /\ mainPc = "return" /\ mainPc' = "install"
             \/ h = "made" /\ mainPc = "made" /\ mainPc' = "render"
             \/ h = "source" /\ mainPc = "composed" /\ mainPc' = "drawn"
      PROVE  OwnerInv'
  <2>1. /\ OneOwner' /\ ~Owns(held'[h])
        /\ \A g \in Holders \ {h} : held'[g] = held[g]
        /\ \A g \in Holders \ {h} : Owns(held[g]) => server'[held[g].id] = server[held[g].id]
    BY <1>1, <1>7, EndOwns
  <2>2. /\ CapturesItself'
        /\ \A a : HasClosure(a)' <=> HasClosure(a)
        /\ \A a \in Addrs : HasClosure(a)' => server'[held'[a].id] = heap'[a].content
    BY <1>1, <1>7, <2>1, ItemsKept DEF PictureInv
  <2>3. HolderInv'
    BY <1>1, <1>2, <1>7, <2>1, <2>2 DEF HolderInv, Owns, IsInitialized
  <2>4. mainPc' \in {"return", "install"} => server'[held'["made"].id] = heap'[drawing'].content
    BY <1>1, <1>2, <1>7, <2>1 DEF PictureInv, HolderInv
  <2>5. QED
    BY <2>1, <2>2, <2>3, <2>4 DEF OwnerInv, PictureInv
<1>8. CASE NoImage \/ LeaveRender \/ LeaveMake \/ FreeSource
  BY <1>7, <1>8 DEF NoImage, LeaveRender, LeaveMake, FreeSource
<1>9. CASE PutImage
  <2>1. /\ server' = [server EXCEPT ![held["pixmap"].id] = heap[drawing].content]
        /\ held' = [held EXCEPT !["made"] = held["pixmap"],
                                !["pixmap"] = MovedFrom(held["pixmap"])]
        /\ heap' = heap /\ mainPc = "image" /\ mainPc' = "return"
    BY <1>9 DEF PutImage, Content
  <2>2. Owns(held["pixmap"]) /\ ~Owns(held["made"])
    BY <1>1, <2>1 DEF HolderInv
  <2>3. held["pixmap"].id \in XIds /\ server[held["pixmap"].id] # Nothing
    BY <1>1, <1>3, <2>2 DEF OneOwner, Owns, IsInitialized, Managed
  <2>4. heap[drawing].content \in Contents
    BY <1>1, <1>2 DEF TypeOK, Live
  <2>5. heap[drawing].content # Nothing
    BY <2>4 DEF PicturesAssumption, Resources
  <2>6. \A id \in XIds : server'[id] = Nothing <=> server[id] = Nothing
    BY <1>1, <2>1, <2>3, <2>5 DEF TypeOK
  <2>7. /\ OneOwner' /\ held'["made"] = held["pixmap"] /\ ~Owns(held'["pixmap"])
        /\ \A h \in Holders \ {"pixmap", "made"} : held'[h] = held[h]
    BY <1>1, <2>1, <2>2, <2>6, MoveOwns
  <2>8. \A a \in Addrs : Owns(held[a]) => server'[held[a].id] = server[held[a].id]
    <3> SUFFICES ASSUME NEW a \in Addrs, Owns(held[a])
                 PROVE  server'[held[a].id] = server[held[a].id]
      OBVIOUS
    <3>1. held[a].id # held["pixmap"].id /\ held[a].id \in XIds
      BY <1>1, <1>3, <2>2 DEF OneOwner, Owns, IsInitialized, Managed
    <3>2. QED
      BY <1>1, <2>1, <3>1 DEF TypeOK
  <2>9. /\ CapturesItself'
        /\ \A a : HasClosure(a)' <=> HasClosure(a)
        /\ \A a \in Addrs : HasClosure(a)' => server'[held'[a].id] = heap'[a].content
    BY <1>1, <2>1, <2>7, <2>8, ItemsKept DEF PictureInv
  <2>10. HolderInv'
    <3>1. /\ Owns(held["made"])' /\ ~Owns(held["pixmap"])'
          /\ held'["source"] = held["source"] /\ held'["window"] = held["window"]
      BY <2>2, <2>7 DEF Owns, IsInitialized
    <3>2. ~HasClosure(drawing)'
      BY <1>1, <1>2, <2>1, <2>9 DEF HolderInv, HasClosure
    <3>3. QED
      BY <1>1, <1>2, <2>1, <2>9, <3>1, <3>2 DEF HolderInv, Owns, IsInitialized
  <2>11. server'[held'["made"].id] = heap'[drawing'].content
    BY <1>1, <1>2, <2>1, <2>3, <2>7 DEF TypeOK
  <2>12. QED
    BY <2>7, <2>9, <2>10, <2>11 DEF OwnerInv, PictureInv
<1>10. CASE Install
  <2>1. /\ heap' = [heap EXCEPT ![drawing].self = drawing]
        /\ held' = [held EXCEPT ![drawing] = held["made"], !["made"] = MovedFrom(held["made"])]
        /\ server' = server /\ mainPc = "install" /\ mainPc' = "made"
    BY <1>10 DEF Install
  <2>2. Owns(held["made"]) /\ ~HasClosure(drawing)
    BY <1>1, <2>1 DEF HolderInv
  <2>3. ~Owns(held[drawing])
    BY <1>1, <1>2, <2>2 DEF CapturesItself
  <2>4. /\ OneOwner' /\ held'[drawing] = held["made"] /\ ~Owns(held'["made"])
        /\ \A h \in Holders \ {"made", drawing} : held'[h] = held[h]
    BY <1>1, <1>2, <2>1, <2>2, <2>3, MoveOwns
  <2>5. heap[drawing] \in [content : Contents, self : Addrs \cup {NoAddr}]
    BY <1>1, <1>2 DEF TypeOK, Live
  <2>6. /\ heap'[drawing] = [content |-> heap[drawing].content, self |-> drawing]
        /\ heap'[drawing].self = drawing /\ heap'[drawing].content = heap[drawing].content
        /\ \A a \in Addrs \ {drawing} : heap'[a] = heap[a]
    BY <1>1, <1>2, <2>1, <2>5 DEF TypeOK
  <2>7. heap'[drawing] # Free /\ drawing # NoAddr
    BY <1>2, <2>5, <2>6, ItemsAreNotFree DEF PicturesAssumption
  <2>8. HasClosure(drawing)' /\ \A a \in Addrs \ {drawing} : HasClosure(a)' <=> HasClosure(a)
    BY <1>2, <2>6, <2>7 DEF HasClosure
  <2>9. CapturesItself'
    <3>1. \A a \in Addrs \ {drawing} : held'[a] = held[a]
      BY <2>4
    <3>2. Owns(held[drawing])'
      BY <1>2, <2>2, <2>4 DEF Owns, IsInitialized
    <3>3. \A a \in Addrs \ {drawing} : Owns(held[a])' <=> Owns(held[a])
      BY <3>1 DEF Owns, IsInitialized
    <3> SUFFICES ASSUME NEW a \in Addrs
                 PROVE  /\ HasClosure(a)' => heap'[a].self = a /\ Owns(held[a])'
                        /\ Owns(held[a])' => HasClosure(a)'
      BY DEF CapturesItself
    <3>4. CASE a = drawing
      BY <1>2, <3>2, <3>4, <2>6, <2>8 DEF Owns, IsInitialized
    <3>5. CASE a # drawing
      BY <1>1, <1>2, <3>3, <3>5, <2>6, <2>8 DEF CapturesItself
    <3>6. QED
      BY <3>4, <3>5
  <2>10. HolderInv'
    <3>1. \A h \in {"pixmap", "source", "window"} : held'[h] = held[h]
      BY <1>2, <2>4 DEF PicturesAssumption
    <3>2. \A k \in DOMAIN incoming : ioPc \in {"off", "read", "lock"} =>
             incoming[k] \in Addrs \ {drawing}
      BY <1>1, <1>2, <2>1 DEF Inv, TypeOK, MapOf, NodeInv, StageInv
    <3>3. QED
      BY <1>1, <1>2, <2>1, <2>4, <2>8, <3>1, <3>2 DEF HolderInv, Owns, IsInitialized
  <2>11. \A a \in Addrs : HasClosure(a)' => server'[held'[a].id] = heap'[a].content
    <3>1. server'[held'[drawing].id] = heap'[drawing].content
      BY <1>1, <2>1, <2>4, <2>6 DEF PictureInv
    <3>2. \A a \in Addrs \ {drawing} : held'[a] = held[a]
      BY <2>4
    <3>3. QED
      BY <1>1, <2>1, <2>6, <2>8, <3>1, <3>2 DEF PictureInv
  <2>12. QED
    BY <2>1, <2>4, <2>9, <2>10, <2>11 DEF OwnerInv, PictureInv
<1>11. CASE NoPicture \/ ReadsNull \/ UseCached \/ TargetIsMade \/ Composite
  <2>1. UNCHANGED <<heap, held, server>>
    BY <1>11 DEF NoPicture, ReadsNull, UseCached, TargetIsMade, Composite
  <2>2. \A a : HasClosure(a)' <=> HasClosure(a)
    BY <2>1 DEF HasClosure
  <2>3. OneOwner' /\ CapturesItself'
    BY <1>1, <2>1, <2>2 DEF OneOwner, CapturesItself
  <2>4. HolderInv'
    BY <1>1, <1>2, <1>11, <2>1, <2>2
       DEF HolderInv, NoPicture, ReadsNull, UseCached, Cached, TargetIsMade, NeedsTarget, Composite
  <2>5. PictureInv'
    BY <1>1, <1>2, <1>11, <2>1, <2>2
       DEF PictureInv, NoPicture, ReadsNull, UseCached, TargetIsMade, Composite
  <2>6. QED
    BY <2>3, <2>4, <2>5 DEF OwnerInv
<1>12. QED
  BY <1>4, <1>5, <1>6, <1>8, <1>9, <1>10, <1>11 DEF Drawing

\* When nothing is in work any more nothing is owned.
LEMMA NobodyOwns ==
  ASSUME PicturesAssumption, Inv, mainPc \in {"start", "opened", "windowed", "freed", "ended"}
  PROVE  \A h \in Holders : ~Owns(held[h])
<1>1. HolderInv /\ CapturesItself /\ NodeInv /\ StageInv
  BY DEF Inv
<1>2. \A h \in {"pixmap", "made", "source", "window"} : ~Owns(held[h])
  BY <1>1 DEF HolderInv
<1>3. DOMAIN allDraws = {} /\ DOMAIN incoming = {} /\ drawing = NoAddr
  BY <1>1 DEF StageInv, DrawPcs, EndPcs
<1>4. \A a \in Addrs : ~Live(a)
  BY <1>1, <1>3 DEF NodeInv, PicturesAssumption
<1>5. \A a \in Addrs : ~Owns(held[a])
  BY <1>1, <1>4 DEF CapturesItself, HasClosure, Live
<1>6. QED
  BY <1>2, <1>5 DEF Holders

\* The locals hold what they did.
LEMMA LocalsKept ==
  ASSUME Inv, \A h \in {"pixmap", "made", "source", "window"} : held'[h] = held[h],
         \/ mainPc \notin OwningPcs /\ mainPc' \notin OwningPcs
         \/ mainPc' = mainPc /\ (HasClosure(drawing)' <=> HasClosure(drawing)),
         ioPc' \in {"off", "read", "lock"} => \A k \in DOMAIN incoming' : ~HasClosure(incoming[k])'
  PROVE  HolderInv'
<1>1. HolderInv
  BY DEF Inv
<1>2. \A h \in {"pixmap", "made", "source", "window"} :
        /\ Owns(held[h])' <=> Owns(held[h])
        /\ IsInitialized(held[h])' <=> IsInitialized(held[h])
  BY DEF Owns, IsInitialized
<1>3. QED
  BY <1>1, <1>2 DEF HolderInv, OwningPcs

\* A new item, in place of none or of one without a closure.
LEMMA NewItemOwner ==
  ASSUME PicturesAssumption, Inv, NEW a \in Addrs, NEW content \in Contents, ~HasClosure(a),
         heap' = [heap EXCEPT ![a] = NewItem(content)], UNCHANGED <<held, server>>
  PROVE  /\ OneOwner' /\ CapturesItself'
         /\ \A b \in Addrs : HasClosure(b)' <=> HasClosure(b)
         /\ \A b \in Addrs : HasClosure(b)' => server'[held'[b].id] = heap'[b].content
<1>1. TypeOK /\ OneOwner /\ CapturesItself /\ PictureInv
  BY DEF Inv
<1>2. heap'[a] = NewItem(content) /\ \A b \in Addrs \ {a} : heap'[b] = heap[b]
  BY <1>1 DEF TypeOK
<1>3. ~HasClosure(a)' /\ \A b \in Addrs \ {a} : HasClosure(b)' <=> HasClosure(b)
  BY <1>2 DEF HasClosure, NewItem
<1>4. CapturesItself'
  BY <1>1, <1>2, <1>3 DEF CapturesItself, HasClosure
<1>5. \A b \in Addrs : HasClosure(b)' => server'[held'[b].id] = heap'[b].content
  BY <1>1, <1>2, <1>3 DEF PictureInv
<1>6. QED
  BY <1>1, <1>3, <1>4, <1>5 DEF OneOwner

\* Items are destroyed, and none of them is in work.
LEMMA DestroyOwner ==
  ASSUME PicturesAssumption, Inv, NEW S \in SUBSET Addrs, Destroy(S),
         \/ mainPc \notin OwningPcs /\ mainPc' \notin OwningPcs
         \/ mainPc' = mainPc /\ drawing' = drawing /\ (mainPc \in DrawPcs => drawing \notin S),
         ioPc' \in {"off", "read", "lock"} =>
            \A k \in DOMAIN incoming' : incoming'[k] \in Addrs \ S /\ ~HasClosure(incoming'[k])
  PROVE  OwnerInv'
<1>1. TypeOK /\ OneOwner /\ CapturesItself /\ HolderInv /\ PictureInv /\ StageInv
  BY DEF Inv
<1>2. /\ \A a \in S : heap'[a] = Free
      /\ \A a \in Addrs \ S : heap'[a] = heap[a]
      /\ \A h \in Holders \ S : held'[h] = held[h]
      /\ \A h \in Holders \ S : Owns(held[h]) => server'[held[h].id] = server[held[h].id]
      /\ OneOwner' /\ CapturesItself'
  BY <1>1, DestroyItems
<1>3. /\ \A a \in S : ~HasClosure(a)'
      /\ \A a \in Addrs \ S : HasClosure(a)' <=> HasClosure(a)
  BY <1>2 DEF HasClosure
<1>4. \A h \in {"pixmap", "made", "source", "window"} : held'[h] = held[h] /\ h \in Holders \ S
  BY <1>2, LocalsAreHolders
<1>5. \A a \in Addrs : HasClosure(a)' => server'[held'[a].id] = heap'[a].content
  BY <1>1, <1>2, <1>3, LocalsAreHolders DEF PictureInv, CapturesItself
<1>6. CASE mainPc \notin OwningPcs /\ mainPc' \notin OwningPcs
  <2>1. HolderInv'
    <3>1. ioPc' \in {"off", "read", "lock"} => \A k \in DOMAIN incoming' : ~HasClosure(incoming[k])'
      BY <1>3 DEF HasClosure
    <3>2. QED
      BY <1>4, <1>6, <3>1, LocalsKept
  <2>2. PictureInv'
    BY <1>5, <1>6 DEF PictureInv, OwningPcs
  <2>3. QED
    BY <1>2, <2>1, <2>2 DEF OwnerInv
<1>7. CASE mainPc' = mainPc /\ drawing' = drawing /\ (mainPc \in DrawPcs => drawing \notin S)
  <2>1. mainPc \in OwningPcs /\ mainPc \notin {"start", "opened", "windowed", "freed", "ended"} =>
           mainPc \in DrawPcs
    BY DEF OwningPcs, DrawPcs
  <2>2. mainPc \in DrawPcs => drawing \in Addrs \ S /\ (HasClosure(drawing)' <=> HasClosure(drawing))
    BY <1>1, <1>3, <1>7 DEF StageInv, HasClosure
  <2>3. HolderInv'
    <3>1. ioPc' \in {"off", "read", "lock"} => \A k \in DOMAIN incoming' : ~HasClosure(incoming[k])'
      BY <1>3 DEF HasClosure
    <3>2. \A h \in {"pixmap", "made", "source", "window"} :
            /\ Owns(held[h])' <=> Owns(held[h])
            /\ IsInitialized(held[h])' <=> IsInitialized(held[h])
      BY <1>4 DEF Owns, IsInitialized
    <3>3. QED
      BY <1>1, <1>7, <2>2, <3>1, <3>2 DEF HolderInv, DrawPcs
  <2>4. PictureInv'
    <3>1. mainPc' \in {"return", "install"} => server'[held'["made"].id] = heap'[drawing'].content
      BY <1>1, <1>2, <1>4, <1>7, <2>2 DEF PictureInv, HolderInv, DrawPcs
    <3>2. QED
      BY <1>5, <3>1 DEF PictureInv
  <2>5. QED
    BY <1>2, <2>3, <2>4 DEF OwnerInv
<1>8. QED
  BY <1>6, <1>7

\* The main thread keeps the owners.
LEMMA MainOwner ==
  ASSUME PicturesAssumption, Inv, Main
  PROVE  OwnerInv'
<1> USE DEF ioVars, xVars, mainVars
<1>1. /\ TypeOK /\ OneOwner /\ CapturesItself /\ HolderInv /\ PictureInv /\ NodeInv /\ StageInv
      /\ MapOf(allDraws) /\ MapOf(incoming)
  BY DEF Inv, TypeOK
<1>2. CASE OpenDisplay \/ Unsuitable \/ CreateWindow
  <2>1. /\ UNCHANGED <<heap, held, server, incoming, ioPc>>
        /\ mainPc \in {"start", "opened", "windowed"} /\ mainPc' \in {"opened", "windowed", "ended"}
    BY <1>2 DEF OpenDisplay, Unsuitable, CreateWindow
  <2>2. \A a : HasClosure(a)' <=> HasClosure(a)
    BY <2>1 DEF HasClosure
  <2>3. OneOwner' /\ CapturesItself'
    BY <1>1, <2>1, <2>2 DEF OneOwner, CapturesItself
  <2>4. HolderInv' /\ PictureInv'
    BY <1>1, <2>1, <2>2 DEF HolderInv, PictureInv, HasClosure
  <2>5. QED
    BY <2>3, <2>4 DEF OwnerInv
<1>3. CASE ShowVersion
  <2>1. NewAddr \in Addrs /\ heap[NewAddr] = Free /\ Banner \in Contents
    BY <1>3, NewAddrIsFree DEF ShowVersion, PicturesAssumption
  <2>2. /\ heap' = [heap EXCEPT ![NewAddr] = NewItem(Banner)] /\ UNCHANGED <<held, server, incoming, ioPc>>
        /\ mainPc = "windowed" /\ mainPc' = "draw" /\ DOMAIN incoming = {}
    BY <1>1, <1>3 DEF ShowVersion, StageInv
  <2>3. ~HasClosure(NewAddr)
    BY <2>1 DEF HasClosure
  <2> HIDE DEF NewAddr
  <2>4. /\ OneOwner' /\ CapturesItself'
        /\ \A b \in Addrs : HasClosure(b)' => server'[held'[b].id] = heap'[b].content
    BY <2>1, <2>2, <2>3, NewItemOwner
  <2>5. HolderInv' /\ PictureInv'
    BY <1>1, <2>2, <2>4 DEF HolderInv, PictureInv
  <2>6. QED
    BY <2>4, <2>5 DEF OwnerInv
<1>4. CASE StartServer
  <2>1. /\ {drawing} \in SUBSET Addrs /\ Destroy({drawing}) /\ DOMAIN incoming' = {}
        /\ mainPc = "drawn" /\ mainPc' = "sleep"
    BY <1>1, <1>4 DEF StageInv, DrawPcs, StartServer
  <2>2. QED
    BY <2>1, DestroyOwner DEF OwningPcs
<1>5. CASE Drawing
  BY <1>5, DrawingOwner
<1>6. ASSUME NEW k \in Keys, Erase(k) PROVE OwnerInv'
  <2>1. /\ {allDraws[k]} \in SUBSET Addrs /\ Destroy({allDraws[k]}) /\ k \in DOMAIN allDraws
        /\ mainPc = "purge" /\ mainPc' = "purge" /\ UNCHANGED <<incoming, ioPc>>
    BY <1>1, <1>6 DEF Erase, MapOf
  <2>2. ioPc' \in {"off", "read", "lock"} =>
          \A j \in DOMAIN incoming' : incoming'[j] \in Addrs \ {allDraws[k]} /\ ~HasClosure(incoming'[j])
    BY <1>1, <2>1 DEF NodeInv, HolderInv, MapOf
  <2>3. QED
    BY <2>1, <2>2, DestroyOwner DEF OwningPcs
<1>7. CASE BeginFrame \/ SkipFrame \/ Hide \/ Redraw \/ EndFrame \/ ItemDone \/ DrawItem
            \/ Stop \/ ExitCommand \/ FrameThrows \/ Joined \/ FinalCleanup
  <2>1. UNCHANGED <<heap, held, server, incoming, ioPc>>
    BY <1>7 DEF BeginFrame, SkipFrame, Hide, Redraw, EndFrame, ItemDone, DrawItem,
                Stop, ExitCommand, FrameThrows, Joined, FinalCleanup
  <2>2. mainPc \notin OwningPcs /\ mainPc' \notin OwningPcs
    BY <1>7 DEF BeginFrame, SkipFrame, Hide, Redraw, EndFrame, ItemDone, DrawItem,
                Stop, ExitCommand, FrameThrows, Joined, FinalCleanup, OwningPcs
  <2>3. \A k \in DOMAIN incoming' : ioPc' \in {"off", "read", "lock"} => ~HasClosure(incoming'[k])
    BY <1>1, <2>1 DEF HolderInv
  <2>4. QED
    BY <2>1, <2>2, <2>3, NoTransfer
<1>8. CASE DestroyStore
  <2>1. /\ NodesOf(allDraws) \in SUBSET Addrs /\ Destroy(NodesOf(allDraws))
        /\ mainPc = "cleaned" /\ mainPc' = "statics" /\ DOMAIN incoming' = {}
    BY <1>1, <1>8 DEF DestroyStore, NodesOf, MapOf, StageInv
  <2>2. QED
    BY <2>1, DestroyOwner DEF OwningPcs
<1>9. CASE FreeWindow
  <2>1. /\ End({"window"}) /\ heap' = heap /\ UNCHANGED <<incoming, ioPc, drawing>>
        /\ mainPc = "statics" /\ mainPc' = "freed" /\ {"window"} \in SUBSET Holders
    BY <1>9, LocalsAreHolders DEF FreeWindow
  <2>2. /\ OneOwner' /\ ~Owns(held'["window"]) /\ ~IsInitialized(held'["window"])
        /\ \A g \in Holders \ {"window"} : held'[g] = held[g]
        /\ \A g \in Holders \ {"window"} : Owns(held[g]) => server'[held[g].id] = server[held[g].id]
    BY <1>1, <2>1, EndOwns
  <2>3. /\ CapturesItself'
        /\ \A a : HasClosure(a)' <=> HasClosure(a)
        /\ \A a \in Addrs : HasClosure(a)' => server'[held'[a].id] = heap'[a].content
    BY <1>1, <2>1, <2>2, ItemsKept, LocalsAreHolders DEF PictureInv
  <2>4. HolderInv'
    BY <1>1, <2>1, <2>2, <2>3, LocalsAreHolders DEF HolderInv, Owns, IsInitialized
  <2>5. QED
    BY <2>1, <2>2, <2>3, <2>4 DEF OwnerInv, PictureInv
<1>10. CASE CloseDisplay
  <2>1. /\ UNCHANGED <<heap, held, incoming, ioPc, drawing>> /\ server' = [id \in XIds |-> Nothing]
        /\ mainPc = "freed" /\ mainPc' = "ended"
    BY <1>10 DEF CloseDisplay
  <2>2. \A h \in Holders : ~Owns(held[h])
    BY <2>1, NobodyOwns
  <2>3. \A a : HasClosure(a)' <=> HasClosure(a)
    BY <2>1 DEF HasClosure
  <2>4. OneOwner' /\ CapturesItself'
    BY <1>1, <2>1, <2>2, <2>3 DEF OneOwner, CapturesItself
  <2>5. \A a \in Addrs : ~HasClosure(a)'
    BY <1>1, <2>2, <2>3, LocalsAreHolders DEF CapturesItself
  <2>6. HolderInv' /\ PictureInv'
    BY <1>1, <2>1, <2>3, <2>5 DEF HolderInv, PictureInv, HasClosure
  <2>7. QED
    BY <2>4, <2>6 DEF OwnerInv
<1>11. QED
  BY <1>2, <1>3, <1>4, <1>5, <1>6, <1>7, <1>8, <1>9, <1>10 DEF Main

\* What is in work is in the map of the frame, and of none other.
LEMMA WorkIsInStore ==
  ASSUME PicturesAssumption, Inv, ioPc # "off", mainPc # "crashed"
  PROVE  /\ mainPc \in DrawPcs =>
              /\ drawing \in Addrs /\ mutex = "main"
              /\ \E k \in DOMAIN allDraws : drawing = allDraws[k]
              /\ \A k \in DOMAIN incoming : drawing # incoming[k]
         /\ ioPc # "gone" /\ mainPc \notin DrawPcs => mainPc \notin OwningPcs
<1>1. NodeInv /\ StageInv
  BY DEF Inv
<1>2. QED
  BY <1>1 DEF NodeInv, StageInv, DrawPcs, OwningPcs, EndPcs

\* The network thread keeps the owners: what it destroys is not in work.
LEMMA NetworkOwner ==
  ASSUME PicturesAssumption, Inv, mainPc # "crashed", Network
  PROVE  OwnerInv'
<1> USE DEF ioVars, xVars, mainVars
<1>1. /\ TypeOK /\ OneOwner /\ CapturesItself /\ HolderInv /\ PictureInv /\ NodeInv /\ StageInv
      /\ MapOf(allDraws) /\ MapOf(incoming)
  BY DEF Inv, TypeOK
<1>2. ioPc \notin {"off", "gone"}
  BY <1>1 DEF Network, AddItem, EraseTwin, DropPayload, GoMerge, Merge, Clear, Publish,
              NetworkEnds, StageInv
<1>3. /\ mainPc \in DrawPcs =>
           /\ drawing \in Addrs /\ mutex = "main"
           /\ \E k \in DOMAIN allDraws : drawing = allDraws[k]
           /\ \A k \in DOMAIN incoming : drawing # incoming[k]
      /\ mainPc \notin DrawPcs => mainPc \notin OwningPcs
  BY <1>2, WorkIsInStore
<1>4. ASSUME NEW k \in Keys, NEW content \in Contents, AddItem(k, content)
      PROVE  OwnerInv'
  <2>1. ioPc = "read" /\ UNCHANGED <<held, server, allDraws, ioPc, mainPc, drawing>>
    BY <1>4 DEF AddItem
  <2>2. PICK a \in Addrs :
          /\ heap' = [heap EXCEPT ![a] = NewItem(content)]
          /\ ~HasClosure(a)
          /\ mainPc \in DrawPcs => a # drawing
          /\ \A i \in DOMAIN incoming' : incoming'[i] = a \/ (i \in DOMAIN incoming /\ incoming'[i] = incoming[i])
    <3>1. CASE k \in DOMAIN incoming
      <4>1. heap' = [heap EXCEPT ![incoming[k]] = NewItem(content)] /\ incoming' = incoming
        BY <1>4, <3>1 DEF AddItem
      <4>2. incoming[k] \in Addrs /\ ~HasClosure(incoming[k])
        BY <1>1, <2>1, <3>1 DEF MapOf, HolderInv
      <4>3. QED
        BY <4>1, <4>2, <3>1, <1>3
    <3>2. CASE k \notin DOMAIN incoming
      <4>1. NewAddr \in Addrs /\ heap[NewAddr] = Free
        BY <1>4, <3>2, NewAddrIsFree DEF AddItem
      <4>2. /\ heap' = [heap EXCEPT ![NewAddr] = NewItem(content)]
            /\ incoming' = [j \in DOMAIN incoming \cup {k} |->
                              IF j = k THEN NewAddr ELSE incoming[j]]
        BY <1>4, <3>2 DEF AddItem
      <4> HIDE DEF NewAddr
      <4>3. ~HasClosure(NewAddr) /\ (mainPc \in DrawPcs => NewAddr # drawing)
        BY <1>1, <4>1 DEF HasClosure, StageInv, Live
      <4>4. \A i \in DOMAIN incoming' :
              incoming'[i] = NewAddr \/ (i \in DOMAIN incoming /\ incoming'[i] = incoming[i])
        BY <4>2
      <4>5. QED
        BY <4>1, <4>2, <4>3, <4>4
    <3>3. QED
      BY <3>1, <3>2
  <2>3. /\ OneOwner' /\ CapturesItself'
        /\ \A b \in Addrs : HasClosure(b)' <=> HasClosure(b)
        /\ \A b \in Addrs : HasClosure(b)' => server'[held'[b].id] = heap'[b].content
    BY <2>1, <2>2, NewItemOwner
  <2>4. \A i \in DOMAIN incoming' : ~HasClosure(incoming[i])'
    <3>1. \A i \in DOMAIN incoming' : incoming'[i] \in Addrs /\ ~HasClosure(incoming'[i])
      BY <1>1, <2>1, <2>2 DEF HolderInv, MapOf
    <3>2. QED
      BY <3>1, <2>3 DEF HasClosure
  <2>5. HolderInv'
    <3>1. mainPc \in DrawPcs => (HasClosure(drawing)' <=> HasClosure(drawing))
      BY <1>3, <2>1, <2>3 DEF HasClosure
    <3>2. \A h \in {"pixmap", "made", "source", "window"} : held'[h] = held[h]
      BY <2>1
    <3>3. CASE mainPc \in DrawPcs
      BY <2>1, <2>4, <3>1, <3>2, <3>3, LocalsKept
    <3>4. CASE mainPc \notin DrawPcs
      BY <1>3, <2>1, <2>4, <3>2, <3>4, LocalsKept
    <3>5. QED
      BY <3>3, <3>4
  <2>6. mainPc \in {"return", "install"} => heap'[drawing] = heap[drawing]
    BY <1>1, <1>3, <2>2 DEF DrawPcs, TypeOK
  <2>7. PictureInv'
    BY <1>1, <2>1, <2>3, <2>6 DEF PictureInv
  <2>8. QED
    BY <2>3, <2>5, <2>7 DEF OwnerInv
<1>5. CASE DropPayload
  <2>1. /\ Destroy(NodesOf(incoming)) /\ NodesOf(incoming) \in SUBSET Addrs
        /\ DOMAIN incoming' = {} /\ UNCHANGED <<mainPc, drawing>>
    BY <1>1, <1>5 DEF DropPayload, NodesOf, MapOf, EmptyMap
  <2>2. mainPc \in DrawPcs => drawing \notin NodesOf(incoming)
    BY <1>3 DEF NodesOf
  <2>3. QED
    BY <2>1, <2>2, DestroyOwner
<1>6. CASE Clear
  <2>1. /\ Destroy(NodesOf(allDraws)) /\ NodesOf(allDraws) \in SUBSET Addrs
        /\ ioPc = "clear" /\ ioPc' = "dedup" /\ UNCHANGED <<mainPc, drawing>>
    BY <1>1, <1>6 DEF Clear, NodesOf, MapOf
  <2>2. mainPc \notin DrawPcs
    BY <1>1, <1>3, <2>1 DEF StageInv
  <2>3. QED
    BY <2>1, <2>2, DestroyOwner
<1>7. ASSUME NEW k \in Keys, NEW j \in Keys, EraseTwin(k, j)
      PROVE  OwnerInv'
  <2>1. /\ Destroy({incoming[k]}) /\ {incoming[k]} \in SUBSET Addrs
        /\ ioPc = "dedup" /\ UNCHANGED <<ioPc, mainPc, drawing>>
    BY <1>1, <1>7 DEF EraseTwin, MapOf
  <2>2. mainPc \notin DrawPcs
    BY <1>1, <1>3, <2>1 DEF StageInv
  <2>3. QED
    BY <2>1, <2>2, DestroyOwner
<1>8. CASE GoMerge \/ NetworkEnds \/ Merge \/ Publish
  <2>1. UNCHANGED <<heap, held, server, mainPc, drawing>>
    BY <1>8 DEF GoMerge, NetworkEnds, Merge, Merged, Publish
  <2>2. \A a : HasClosure(a)' <=> HasClosure(a)
    BY <2>1 DEF HasClosure
  <2>3. ioPc' \in {"off", "read", "lock"} => \A k \in DOMAIN incoming' : ~HasClosure(incoming[k])'
    BY <1>1, <1>8, <2>1 DEF GoMerge, NetworkEnds, Merge, Publish, EmptyMap, HolderInv, HasClosure
  <2>4. HolderInv'
    BY <2>1, <2>2, <2>3, LocalsKept
  <2>5. OneOwner' /\ CapturesItself'
    BY <1>1, <2>1, <2>2 DEF OneOwner, CapturesItself
  <2>6. PictureInv'
    BY <1>1, <2>1, <2>2 DEF PictureInv
  <2>7. QED
    BY <2>4, <2>5, <2>6 DEF OwnerInv
<1>9. QED
  BY <1>4, <1>5, <1>6, <1>7, <1>8 DEF Network

-----------------------------------------------------------------------------
(* What a frame paints.                                                    *)

\* A step that leaves the finished items and the window alone.
LEMMA SamePaint ==
  ASSUME WindowInv, InFrame, window' = window, Done' = Done, \A a \in Done : heap'[a] = heap[a]
  PROVE  WindowInv'
<1>1. \A a \in Done : (HasClosure(a)' <=> HasClosure(a)) /\ PaintOf(a)' = PaintOf(a)
  BY DEF HasClosure, PaintOf
<1>2. {b \in Done : HasClosure(b)}' = {b \in Done : HasClosure(b)}
  BY <1>1
<1>3. {PaintOf(a) : a \in {b \in Done : HasClosure(b)}}' = {PaintOf(a) : a \in {b \in Done : HasClosure(b)}}
  BY <1>1, <1>2
<1>4. QED
  BY <1>3 DEF WindowInv

\* The network thread leaves a frame alone.
LEMMA NetworkFrame ==
  ASSUME PicturesAssumption, Inv, mainPc # "crashed", Network
  PROVE  TodoInv' /\ WindowInv'
<1> USE DEF ioVars, xVars, mainVars
<1>1. /\ TypeOK /\ OneOwner /\ CapturesItself /\ NodeInv /\ StageInv /\ TodoInv /\ WindowInv
      /\ HolderInv /\ MapOf(allDraws) /\ MapOf(incoming)
  BY DEF Inv, TypeOK
<1>2. UNCHANGED <<mainPc, drawing, todo, window>>
  BY DEF Network, AddItem, EraseTwin, DropPayload, GoMerge, Merge, Clear, Publish, NetworkEnds
<1>3. SUFFICES ASSUME InFrame'
               PROVE  TodoInv' /\ WindowInv'
  BY DEF TodoInv, WindowInv
<1>4. mutex' = "main"
  BY <1>3 DEF InFrame
<1>5. ASSUME NEW k \in Keys, NEW content \in Contents, AddItem(k, content)
      PROVE  /\ mutex' = mutex /\ allDraws' = allDraws
             /\ \A i \in DOMAIN allDraws : heap'[allDraws[i]] = heap[allDraws[i]]
  <2>1. mutex' = mutex /\ allDraws' = allDraws
    BY <1>5 DEF AddItem
  <2>2. CASE k \in DOMAIN incoming
    <3>1. heap' = [heap EXCEPT ![incoming[k]] = NewItem(content)]
      BY <1>5, <2>2 DEF AddItem
    <3>2. QED
      BY <1>1, <2>1, <2>2, <3>1 DEF NodeInv, MapOf, TypeOK
  <2>3. CASE k \notin DOMAIN incoming
    <3>1. heap' = [heap EXCEPT ![NewAddr] = NewItem(content)] /\ heap[NewAddr] = Free
      BY <1>5, <2>3, NewAddrIsFree DEF AddItem
    <3> HIDE DEF NewAddr
    <3>2. QED
      BY <1>1, <2>1, <3>1 DEF NodeInv, Live, MapOf, TypeOK
  <2>4. QED
    BY <2>2, <2>3
<1>6. ASSUME DropPayload
      PROVE  /\ mutex' = mutex /\ allDraws' = allDraws
             /\ \A i \in DOMAIN allDraws : heap'[allDraws[i]] = heap[allDraws[i]]
  <2>1. /\ Destroy(NodesOf(incoming)) /\ NodesOf(incoming) \in SUBSET Addrs
        /\ UNCHANGED <<allDraws, mutex>>
    BY <1>1, <1>6 DEF DropPayload, NodesOf, MapOf
  <2>2. \A a \in Addrs \ NodesOf(incoming) : heap'[a] = heap[a]
    BY <1>1, <2>1, DestroyItems
  <2>3. \A k \in DOMAIN allDraws : allDraws[k] \in Addrs \ NodesOf(incoming)
    BY <1>1 DEF NodeInv, NodesOf, MapOf
  <2>4. QED
    BY <2>1, <2>2, <2>3
<1>7. /\ mutex' = mutex /\ allDraws' = allDraws
      /\ \A i \in DOMAIN allDraws : heap'[allDraws[i]] = heap[allDraws[i]]
  <2>1. ~(Merge \/ Publish \/ Clear)
    BY <1>1, <1>4 DEF Merge, Publish, Clear, StageInv
  <2>2. \A k, j \in Keys : ~EraseTwin(k, j)
    BY <1>1, <1>4 DEF EraseTwin, StageInv
  <2>3. CASE GoMerge \/ NetworkEnds
    BY <2>3 DEF GoMerge, NetworkEnds
  <2>4. QED
    BY <1>5, <1>6, <2>1, <2>2, <2>3 DEF Network
<1>8. InFrame
  BY <1>2, <1>3, <1>7 DEF InFrame
<1>9. Done' = Done
  BY <1>2, <1>7 DEF Done, InWork
<1>10. \A a \in Done : heap'[a] = heap[a]
  BY <1>7 DEF Done
<1>11. WindowInv'
  BY <1>1, <1>2, <1>8, <1>9, <1>10, SamePaint
<1>12. TodoInv'
  BY <1>1, <1>2, <1>7, <1>8 DEF TodoInv
<1>13. QED
  BY <1>11, <1>12

\* Drawing an item paints it when it has a picture, and changes no other one.
LEMMA DrawingFrame ==
  ASSUME PicturesAssumption, Inv, Drawing
  PROVE  TodoInv' /\ WindowInv'
<1>1. /\ TypeOK /\ OneOwner /\ CapturesItself /\ NodeInv /\ StageInv /\ TodoInv /\ WindowInv
      /\ HolderInv /\ PictureInv /\ MapOf(allDraws)
  BY DEF Inv, TypeOK
<1>2. /\ UNCHANGED <<allDraws, ioPc, drawing, todo, mutex>>
      /\ mainPc \in DrawPcs /\ mainPc' \in DrawPcs \cup {"crashed"} /\ drawing \in Addrs
      /\ \A a \in Addrs \ {drawing} : heap'[a] = heap[a]
  BY DrawingStage
<1>3. TodoInv'
  BY <1>1, <1>2 DEF TodoInv, InFrame, DrawPcs
<1>4. SUFFICES ASSUME InFrame'
               PROVE  WindowInv'
  BY <1>3 DEF WindowInv
<1>5. InFrame /\ mainPc' \in DrawPcs
  BY <1>2, <1>4 DEF InFrame, DrawPcs
<1>6. \E k \in DOMAIN allDraws \ todo : drawing = allDraws[k]
  BY <1>1, <1>2, <1>5 DEF StageInv, TodoInv, InFrame
<1>7. Done \subseteq Addrs
  BY <1>1 DEF Done, MapOf
<1>8. CASE CreatePixmap \/ PutImage \/ LeaveRender \/ Install \/ LeaveMake \/ UseCached
           \/ CreateSource \/ CreateTarget \/ TargetIsMade
  <2>1. /\ window' = window /\ mainPc \notin {"composed", "drawn"}
        /\ mainPc' \notin {"composed", "drawn"}
    BY <1>8 DEF CreatePixmap, PutImage, LeaveRender, Install, LeaveMake, UseCached,
                CreateSource, CreateTarget, TargetIsMade
  <2>2. InWork = {drawing} /\ InWork' = {drawing}
    BY <1>2, <1>5, <2>1 DEF InWork
  <2>3. Done' = Done
    BY <1>2, <2>2 DEF Done
  <2>4. \A a \in Done : heap'[a] = heap[a]
    BY <1>2, <1>7, <2>2 DEF Done
  <2>5. QED
    BY <1>1, <1>5, <2>1, <2>3, <2>4, SamePaint
<1>9. CASE FreeSource
  <2>1. window' = window /\ heap' = heap /\ mainPc = "composed" /\ mainPc' = "drawn"
    BY <1>9 DEF FreeSource
  <2>2. Done' = Done
    BY <1>2, <2>1 DEF Done, InWork
  <2>3. QED
    BY <1>1, <1>5, <2>1, <2>2, SamePaint
<1>10. CASE NoPicture \/ NoImage
  <2>1. /\ window' = window /\ heap' = heap /\ mainPc \in {"draw", "image"} /\ mainPc' = "drawn"
        /\ ~HasClosure(drawing)
    BY <1>1, <1>10 DEF NoPicture, NoImage, Cached, HolderInv
  <2>2. \A a : HasClosure(a)' <=> HasClosure(a)
    BY <2>1 DEF HasClosure
  <2>3. InWork = {drawing} /\ InWork' = {}
    BY <2>1 DEF InWork, DrawPcs
  <2>4. {b \in Done : HasClosure(b)}' = {b \in Done : HasClosure(b)}
    BY <1>2, <2>1, <2>2, <2>3 DEF Done
  <2>5. \A a : PaintOf(a)' = PaintOf(a)
    BY <2>1 DEF PaintOf
  <2>6. {PaintOf(a) : a \in {b \in Done : HasClosure(b)}}' = {PaintOf(a) : a \in {b \in Done : HasClosure(b)}}
    BY <2>4, <2>5
  <2>7. QED
    BY <1>1, <1>5, <2>1, <2>6 DEF WindowInv
<1>11. CASE Composite
  <2>1. /\ heap' = heap /\ mainPc = "composite" /\ mainPc' = "composed"
        /\ window' = window \cup {[shape |-> server[held[drawing].id],
                                   place |-> heap[heap[drawing].self].content]}
    BY <1>11 DEF Composite
  <2>2. HasClosure(drawing)
    BY <1>1, <2>1 DEF HolderInv
  <2>3. heap[drawing].self = drawing /\ server[held[drawing].id] = heap[drawing].content
    BY <1>1, <1>2, <2>2 DEF CapturesItself, PictureInv
  <2>4. window' = window \cup {PaintOf(drawing)}
    BY <2>1, <2>3 DEF PaintOf
  <2>5. \A a : HasClosure(a)' <=> HasClosure(a)
    BY <2>1 DEF HasClosure
  <2>6. InWork = {drawing} /\ InWork' = {}
    BY <2>1 DEF InWork, DrawPcs
  <2>7. Done' = Done \cup {drawing}
    BY <1>2, <1>6, <2>6 DEF Done
  <2>8. {b \in Done : HasClosure(b)}' = {b \in Done : HasClosure(b)} \cup {drawing}
    BY <2>2, <2>5, <2>7
  <2>9. \A a : PaintOf(a)' = PaintOf(a)
    BY <2>1 DEF PaintOf
  <2>10. {PaintOf(a) : a \in {b \in Done : HasClosure(b)}}' =
           {PaintOf(a) : a \in {b \in Done : HasClosure(b)}} \cup {PaintOf(drawing)}
    BY <2>8, <2>9
  <2>11. QED
    BY <1>1, <1>5, <2>4, <2>10 DEF WindowInv
<1>12. CASE ReadsNull
  BY <1>5, <1>12 DEF ReadsNull, DrawPcs
<1>13. QED
  BY <1>8, <1>9, <1>10, <1>11, <1>12 DEF Drawing

\* The main thread keeps what a frame has painted so far.
LEMMA MainFrame ==
  ASSUME PicturesAssumption, Inv, Main
  PROVE  TodoInv' /\ WindowInv'
<1> USE DEF ioVars, xVars, mainVars
<1>1. /\ TypeOK /\ NodeInv /\ StageInv /\ TodoInv /\ WindowInv /\ MapOf(allDraws)
  BY DEF Inv, TypeOK
<1>2. CASE Drawing
  BY <1>2, DrawingFrame
<1>3. CASE Redraw
  <2>1. window' = {} /\ todo' = DOMAIN allDraws' /\ mainPc' = "next"
    BY <1>3 DEF Redraw, Cleaned
  <2>2. Done' = {}
    BY <2>1 DEF Done
  <2>3. {PaintOf(a) : a \in {b \in Done : HasClosure(b)}}' = {}
    BY <2>2
  <2>4. QED
    BY <2>1, <2>3 DEF WindowInv, TodoInv, DrawPcs
<1>4. CASE DrawItem
  <2>1. PICK k \in todo : drawing' = allDraws[k] /\ todo' = todo \ {k}
    BY <1>4 DEF DrawItem
  <2>2. /\ mainPc = "next" /\ mainPc' = "draw"
        /\ UNCHANGED <<heap, window, allDraws, mutex>>
    BY <1>4 DEF DrawItem
  <2>3. InFrame /\ todo \subseteq DOMAIN allDraws
    BY <1>1, <2>2 DEF StageInv, InFrame, TodoInv
  <2>4. \A j \in DOMAIN allDraws : allDraws[j] = allDraws[k] => j = k
    BY <1>1, <2>1, <2>3 DEF NodeInv
  <2>5. TodoInv'
    BY <2>1, <2>2, <2>3, <2>4 DEF TodoInv
  <2>6. InWork = {} /\ InWork' = {allDraws[k]}
    BY <2>1, <2>2 DEF InWork, DrawPcs
  <2>7. Done' = Done
    <3>1. DOMAIN allDraws' \ todo' = (DOMAIN allDraws \ todo) \cup {k}
      BY <2>1, <2>2, <2>3
    <3>2. \A j \in DOMAIN allDraws \ todo : allDraws[j] # allDraws[k]
      BY <2>1, <2>4
    <3>3. QED
      BY <2>2, <2>6, <3>1, <3>2 DEF Done
  <2>8. WindowInv'
    BY <1>1, <2>2, <2>3, <2>7, SamePaint
  <2>9. QED
    BY <2>5, <2>8
<1>5. CASE ItemDone
  <2>1. /\ mainPc = "drawn" /\ mainPc' = "next"
        /\ UNCHANGED <<heap, window, allDraws, todo, mutex>>
    BY <1>5 DEF ItemDone
  <2>2. CASE mutex = "main"
    <3>1. InFrame
      BY <2>1, <2>2 DEF InFrame, DrawPcs
    <3>2. Done' = Done
      BY <2>1 DEF Done, InWork, DrawPcs
    <3>3. QED
      BY <1>1, <2>1, <3>1, <3>2, SamePaint DEF TodoInv, DrawPcs
  <2>3. CASE mutex # "main"
    BY <2>1, <2>3 DEF TodoInv, WindowInv, InFrame
  <2>4. QED
    BY <2>2, <2>3
<1>6. CASE \/ OpenDisplay \/ Unsuitable \/ CreateWindow \/ ShowVersion \/ StartServer \/ BeginFrame
           \/ (\E k \in Keys : Erase(k)) \/ SkipFrame \/ Hide \/ EndFrame \/ Stop \/ ExitCommand
           \/ FrameThrows \/ Joined \/ FinalCleanup \/ DestroyStore \/ FreeWindow \/ CloseDisplay
  <2>1. ~InFrame'
    <3>1. CASE ShowVersion
      BY <1>1, <3>1 DEF ShowVersion, StageInv, InFrame
    <3>2. CASE EndFrame \/ FrameThrows
      BY <3>2 DEF EndFrame, FrameThrows, InFrame
    <3>3. CASE ~(ShowVersion \/ EndFrame \/ FrameThrows)
      BY <1>6, <3>3 DEF OpenDisplay, Unsuitable, CreateWindow, StartServer, BeginFrame, Erase, SkipFrame, Hide,
                        Stop, ExitCommand, Joined, FinalCleanup, DestroyStore, FreeWindow,
                        CloseDisplay, InFrame, DrawPcs
    <3>4. QED
      BY <3>1, <3>2, <3>3
  <2>2. QED
    BY <2>1 DEF TodoInv, WindowInv
<1>7. QED
  BY <1>2, <1>3, <1>4, <1>5, <1>6 DEF Main

-----------------------------------------------------------------------------
(* The invariant and the theorems.                                         *)

\* The invariant holds at the start.
LEMMA InitInv ==
  ASSUME PicturesAssumption, Init
  PROVE  Inv
<1>1. /\ \A a \in Addrs : ~Live(a) /\ ~HasClosure(a)
      /\ \A h \in Holders : held[h] = Unset
      /\ DOMAIN allDraws = {} /\ DOMAIN incoming = {} /\ mainPc = "start" /\ ioPc = "off"
      /\ mutex = "free" /\ drawing = NoAddr /\ display = "none"
  BY LocalsAreHolders DEF Init, Live, HasClosure, EmptyMap
<1>2. \A h \in Holders : ~Owns(held[h]) /\ ~IsInitialized(held[h])
  BY <1>1 DEF Unset, Owns, IsInitialized
<1>3. TypeOK
  BY DEF Init, TypeOK, MapOf, EmptyMap, Managed, Unset, Holders
<1>4. NodeInv
  BY <1>1 DEF NodeInv
<1>5. StageInv
  BY <1>1 DEF StageInv, DrawPcs, EndPcs
<1>6. TodoInv /\ WindowInv
  BY <1>1 DEF TodoInv, WindowInv, InFrame
<1>7. HolderInv
  BY <1>1, <1>2, LocalsAreHolders DEF HolderInv
<1>8. CapturesItself /\ PictureInv
  BY <1>1, <1>2, LocalsAreHolders DEF CapturesItself, PictureInv
<1>9. OneOwner
  BY <1>2 DEF OneOwner, Init
<1>10. QED
  BY <1>3, <1>4, <1>5, <1>6, <1>7, <1>8, <1>9 DEF Inv

\* Every step keeps the invariant.
LEMMA NextInv ==
  ASSUME PicturesAssumption, Inv, [Next]_vars
  PROVE  Inv'
<1>1. CASE Main
  <2>1. TypeOK' /\ NodeInv' /\ StageInv' /\ OwnerInv' /\ TodoInv' /\ WindowInv'
    BY <1>1, MainTypes, MainStage, MainOwner, MainFrame
  <2>2. QED
    BY <2>1 DEF Inv, OwnerInv
<1>2. CASE mainPc # "crashed" /\ Network
  <2>1. TypeOK' /\ NodeInv' /\ StageInv' /\ OwnerInv' /\ TodoInv' /\ WindowInv'
    BY <1>2, NetworkTypes, NetworkStage, NetworkOwner, NetworkFrame
  <2>2. QED
    BY <2>1 DEF Inv, OwnerInv
<1>3. CASE UNCHANGED vars
  <2>1. UNCHANGED <<heap, held, server, display, gc, window, allDraws, incoming, ioPc, mainPc,
                    drawing, todo, mutex, shouldStop>>
    BY <1>3 DEF vars, xVars, ioVars, mainVars
  <2>2. TypeOK' /\ NodeInv' /\ StageInv' /\ TodoInv' /\ HolderInv'
    BY <2>1 DEF Inv, TypeOK, MapOf, NodeInv, Live, StageInv, TodoInv, InFrame, HolderInv, HasClosure
  <2>3. CapturesItself' /\ OneOwner' /\ PictureInv'
    BY <2>1 DEF Inv, CapturesItself, OneOwner, PictureInv, HasClosure
  <2>4. Done' = Done /\ InFrame' = InFrame
    BY <2>1 DEF Done, InWork, InFrame
  <2>5. WindowInv'
    BY <2>1, <2>4, SamePaint DEF Inv, WindowInv
  <2>6. QED
    BY <2>2, <2>3, <2>5 DEF Inv
<1>4. QED
  BY <1>1, <1>2, <1>3 DEF Next

\* The inductive invariant.
THEOREM Invariance == Spec => []Inv
<1>1. Init => Inv
  BY PicturesAssumption, InitInv
<1>2. Inv /\ [Next]_vars => Inv'
  BY PicturesAssumption, NextInv
<1>3. QED
  BY <1>1, <1>2, PTL DEF Spec

\* Every variable has its type.
THEOREM TypeCorrect == Spec => []TypeOK
<1>1. Inv => TypeOK
  BY DEF Inv
<1>2. QED
  BY <1>1, Invariance, PTL

\* Every pixmap, picture and target has one holder that will free it, whatever
\* the two threads and the moves between locals, closures and maps do.
THEOREM ResourcesHaveOneOwner == Spec => []OneOwner
<1>1. Inv => OneOwner
  BY DEF Inv
<1>2. QED
  BY <1>1, Invariance, PTL

\* The address in a closure is that of the item it is in.
THEOREM ClosuresCaptureTheirItem == Spec => []CapturesItself
<1>1. Inv => CapturesItself
  BY DEF Inv
<1>2. QED
  BY <1>1, Invariance, PTL

\* At the end of a frame the window shows the items of the map that have a
\* picture, each at its place.
THEOREM WindowShowsTheStore == Spec => []FrameShowsStore
<1>1. ASSUME Inv
      PROVE  FrameShowsStore
  <2>1. SUFFICES ASSUME mainPc = "next", todo = {}
                 PROVE  window = {[shape |-> heap[a].content, place |-> heap[a].content] :
                                    a \in {b \in NodesOf(allDraws) : HasClosure(b)}}
    BY DEF FrameShowsStore
  <2>2. InFrame
    BY <1>1, <2>1 DEF Inv, StageInv, InFrame
  <2>3. Done = NodesOf(allDraws)
    BY <2>1 DEF Done, InWork, DrawPcs, NodesOf
  <2>4. QED
    BY <1>1, <2>2, <2>3 DEF Inv, WindowInv, PaintOf
<1>2. QED
  BY <1>1, Invariance, PTL

\* The display is closed after everything that is freed through it.
THEOREM DisplayClosesLast == Spec => []ClosesEmptyHanded
<1>1. Inv => ClosesEmptyHanded
  BY PicturesAssumption, NobodyOwns DEF ClosesEmptyHanded, Inv, StageInv
<1>2. QED
  BY <1>1, Invariance, PTL

=============================================================================
